--------------------------- MODULE Receiving_proofs ---------------------------
(***************************************************************************)
(* Proofs about Receiving and the modules it extends: the continuity       *)
(* counter, the validator's second pass, the arrival schedule of the T-STD *)
(* analyzer (C, ArrivalClock), PCR recovery (R, PcrRecovery) and the       *)
(* reassembly of PES packets (P, PesReassembler).                          *)
(*                                                                         *)
(* The validator is related to the sender.  As long as no fault is left to *)
(* account for, its run is the sender's count one packet ago (CountKnown), *)
(* its PCRs lie on the sender's time base (OnBase) and as far back as the  *)
(* sender's cadence says (Spaced); the anchor of the continuity counter is *)
(* never off the sender (Anchored).                                        *)
(*                                                                         *)
(* Both clocks are known by their residues only.  The first adds up what   *)
(* it unwraps: as long as PCRs come before the clock has wrapped once, the *)
(* sum is the sender's time from the first PCR of its time base, whole     *)
(* turns of the clock away from it (FoldIsTrue).  The second holds two     *)
(* PCRs: what a PCR may be off the line through them is bounded by the     *)
(* wobble, and a jump is not (KnownRate, KnownInterval).                   *)
(*                                                                         *)
(* The reassemblers are compared with what a receiver is owed: a PES that  *)
(* no fault touched and that is in progress is held whole (PidHeld), so    *)
(* that what is put out and what is owed grow by the same PES, whichever   *)
(* of the two packets, the end of the input or a seek closes it.           *)
(***************************************************************************)
EXTENDS Receiving, SequenceTheorems, FiniteSetTheorems, NaturalsInduction, WellFoundedInduction, TLAPS

------------------------------------------------------------------------------
(* The counter by itself: the invariants of ContinuityCounter for every    *)
(* size of the counter, every admissible burst of losses and at most two   *)
(* repetitions of a packet.                                                *)

(* The counter helpers stay in range. *)
LEMMA CounterRange ==
    ASSUME NEW c \in Counters, NEW e \in Counters
    PROVE  /\ SuccCC(c) \in Counters
           /\ PredCC(c) \in Counters
           /\ GapCC(c, e) \in 0 .. CCMod
           /\ PredCC(SuccCC(c)) = c
    BY CCModAssumption DEF SuccCC, PredCC, GapCC, Counters

(* The initial state has the declared types. *)
LEMMA InitialTypes == Init => TypeOK
<1> SUFFICES ASSUME Init PROVE TypeOK
    OBVIOUS
<1>1. 0 \in Counters /\ 0 \in 0 .. MaxBurst /\ 0 \in 0 .. MaxCopies
    BY CCModAssumption, MaxBurstAssumption, MaxCopiesAssumption DEF Counters
<1>2. Event("None", 0) \in Events
    BY CCModAssumption DEF Event, Events
<1>3. NoPacket \in Packets
    BY <1>1 DEF NoPacket, Packets
<1> QED BY <1>1, <1>2, <1>3 DEF Init, TypeOK
(* Every step keeps the declared types. *)
LEMMA TypeStep == TypeOK /\ [Next]_vars => TypeOK'
<1> SUFFICES ASSUME TypeOK, [Next]_vars PROVE TypeOK'
    OBVIOUS
<1> USE CCModAssumption, MaxBurstAssumption, MaxCopiesAssumption
<1>1. ASSUME NEW p \in Packets, Observe(p)
      PROVE  /\ event' \in Events
             /\ lastPayloadCC' \in Counters \cup {NoCC}
             /\ duplicateAlreadySeen' \in BOOLEAN
    <2>1. Classify(p) \in Events
        BY CounterRange DEF TypeOK, Classify, Event, Events, Packets, NoCC
    <2> QED BY <1>1, <2>1 DEF Observe, TypeOK, Packets
<1>2. ASSUME NEW p \in Packets, NEW n \in 0 .. MaxBurst
      PROVE  Truth(p, n) \in Events
    BY DEF Truth, Event, Events
<1>3. CASE SignalDiscontinuity
    BY <1>3 DEF SignalDiscontinuity, TypeOK, tracker, history
<1>4. ASSUME NEW hasPcr \in BOOLEAN, PayloadDelivered(hasPcr)
      PROVE  TypeOK'
    <2>1. PayloadPacket(hasPcr) \in Packets
        BY DEF TypeOK, PayloadPacket, Packets
    <2>2. cc' \in Counters
        BY <1>4, CounterRange DEF TypeOK, PayloadDelivered, StampPayload
    <2>7. pendingDiscontinuity' \in BOOLEAN
        BY <1>4, Zenon DEF TypeOK, PayloadDelivered, StampPayload
    <2>3. missing' \in 0 .. MaxBurst
        BY <1>4 DEF PayloadDelivered
    <2>4. sent' \in Packets /\ copies' \in 0 .. MaxCopies
        BY <1>4, <2>1 DEF PayloadDelivered
    <2>8. held' \in BOOLEAN
        BY <1>4, Zenon DEF PayloadDelivered
    <2>5. truth' \in Events
        BY <1>2, <1>4, <2>1 DEF PayloadDelivered, TypeOK
    <2>6. Observe(PayloadPacket(hasPcr))
        BY <1>4 DEF PayloadDelivered
    <2> QED BY <1>1, <2>1, <2>2, <2>3, <2>4, <2>5, <2>6, <2>7, <2>8, Zenon
            DEF TypeOK
<1>5. ASSUME NEW hasPcr \in BOOLEAN, PayloadLost(hasPcr)
      PROVE  TypeOK'
    <2>1. PayloadPacket(hasPcr) \in Packets
        BY DEF TypeOK, PayloadPacket, Packets
    <2>2. cc' \in Counters
        BY <1>5, CounterRange DEF TypeOK, PayloadLost, StampPayload
    <2>6. pendingDiscontinuity' \in BOOLEAN
        BY <1>5, Zenon DEF TypeOK, PayloadLost, StampPayload
    <2>3. missing' \in 0 .. MaxBurst
        BY <1>5 DEF TypeOK, PayloadLost
    <2>4. sent' \in Packets /\ copies' \in 0 .. MaxCopies
        BY <1>5, <2>1 DEF PayloadLost
    <2>5. UNCHANGED <<tracker, truth>> /\ held' \in BOOLEAN
        BY <1>5, Zenon DEF PayloadLost
    <2> QED BY <2>2, <2>3, <2>4, <2>5, <2>6, Zenon DEF TypeOK, tracker
<1>6. CASE PcrOnlyDelivered
    <2>1. PcrOnlyPacket \in Packets
        BY CounterRange DEF TypeOK, PcrOnlyPacket, Packets
    <2>2. truth' \in Events
        BY <1>6 DEF PcrOnlyDelivered, Event, Events
    <2>3. missing' \in 0 .. MaxBurst
        BY <1>6 DEF PcrOnlyDelivered, TypeOK
    <2>4. /\ cc' \in Counters
          /\ pendingDiscontinuity' \in BOOLEAN
          /\ sent' \in Packets
          /\ held' \in BOOLEAN
        BY <1>6, <2>1, Zenon DEF PcrOnlyDelivered, StampPcrOnly, TypeOK
    <2>5. copies' \in 0 .. MaxCopies
        BY <1>6 DEF PcrOnlyDelivered
    <2>6. Observe(PcrOnlyPacket)
        BY <1>6, Zenon DEF PcrOnlyDelivered
    <2> QED BY <1>1, <2>1, <2>2, <2>3, <2>4, <2>5, <2>6, Zenon DEF TypeOK
<1>7. CASE PcrOnlyLost
    <2>1. PcrOnlyPacket \in Packets
        BY CounterRange DEF TypeOK, PcrOnlyPacket, Packets
    <2>2. copies' \in 0 .. MaxCopies
        BY <1>7 DEF PcrOnlyLost
    <2> QED BY <1>7, <2>1, <2>2, Zenon
            DEF TypeOK, PcrOnlyLost, StampPcrOnly, tracker
<1>8. CASE Repeat
    <2>1. sent \in Packets
        BY DEF TypeOK
    <2>2. truth' \in Events
        BY <1>2, <1>8, <2>1 DEF Repeat, TypeOK, Event, Events
    <2> QED BY <1>1, <1>8, <2>1, <2>2 DEF TypeOK, Repeat, mux
<1>9. CASE UNCHANGED vars
    BY <1>9 DEF TypeOK, vars, mux, tracker, history
<1> QED BY <1>3, <1>4, <1>5, <1>6, <1>7, <1>8, <1>9 DEF Next

(* Every state of the specification has the declared types. *)
THEOREM TypeCorrect == Spec => []TypeOK
    BY InitialTypes, TypeStep, PTL DEF Spec

------------------------------------------------------------------------------
(* Sending moves the sender one packet further ahead, and the packet just  *)
(* sent is one behind it.                                                  *)
LEMMA AheadSteps ==
    ASSUME NEW a \in Counters, NEW n \in 0 .. MaxBurst
    PROVE  /\ \A c \in Counters : Ahead(a, n, c) => Ahead(a, n + 1, SuccCC(c))
           /\ \A c \in Counters : Ahead(a, n, c) /\ n > 0
                                 => Ahead(a, n - 1, PredCC(c))
           /\ \A c \in Counters : Ahead(c, 0, SuccCC(c)) /\ Ahead(PredCC(c), 0, c)
    BY CCModAssumption, MaxBurstAssumption DEF Counters, Ahead, SuccCC, PredCC

(* What the tracker makes of a payload packet that is n lost packets after *)
(* its anchor: it reports exactly those n.                                 *)
LEMMA FreshPacket ==
    ASSUME TypeOK, NEW p \in Packets, p.payload, NEW n \in 0 .. MaxBurst,
           lastPayloadCC # NoCC => Ahead(lastPayloadCC, n, p.cc)
    PROVE  Classify(p) = Truth(p, n)
<1>1. CASE p.di \/ lastPayloadCC = NoCC
    BY <1>1 DEF Classify, Truth
<1>2. CASE ~p.di /\ lastPayloadCC # NoCC
    <2>1. lastPayloadCC \in Counters /\ p.cc \in Counters
        BY <1>2 DEF TypeOK, Packets
    <2>2. Ahead(lastPayloadCC, n, p.cc)
        BY <1>2
    <2>3. n = 0 <=> p.cc = SuccCC(lastPayloadCC)
        BY <2>1, <2>2, CCModAssumption, MaxBurstAssumption
           DEF Ahead, SuccCC, Counters
    <2>4. p.cc # lastPayloadCC
        BY <2>1, <2>2, CCModAssumption, MaxBurstAssumption
           DEF Ahead, Counters
    <2>5. GapCC(p.cc, SuccCC(lastPayloadCC)) = n
        BY <2>1, <2>2, CCModAssumption, MaxBurstAssumption
           DEF Ahead, SuccCC, GapCC, Counters
    <2> QED BY <1>2, <2>3, <2>4, <2>5, Zenon DEF Classify, Truth
<1> QED BY <1>1, <1>2

(* A packet that already arrived is a duplicate once, and a whole turn of  *)
(* the counter the second time.                                            *)
LEMMA RepeatedPacket ==
    ASSUME TypeOK, NEW p \in Packets, p.payload, ~p.di, lastPayloadCC = p.cc
    PROVE  Classify(p) = IF duplicateAlreadySeen THEN Event("Dropped", CCMod - 1)
                                                 ELSE Event("Duplicate", 0)
<1>1. p.cc \in Counters /\ lastPayloadCC # NoCC
    BY DEF Packets, Counters, NoCC
<1>2. p.cc # SuccCC(p.cc) /\ GapCC(p.cc, SuccCC(p.cc)) = CCMod - 1
    BY <1>1, CCModAssumption DEF SuccCC, GapCC, Counters
<1> QED BY <1>1, <1>2, Zenon DEF Classify

(* What observing a payload packet leaves in the tracker. *)
LEMMA ObservedPayload ==
    ASSUME NEW p \in Packets, p.payload, Observe(p)
    PROVE  /\ lastPayloadCC' = p.cc
           /\ event' = Classify(p)
           /\ duplicateAlreadySeen' <=> Classify(p).kind = "Duplicate"
<1>1. Classify(p).kind # "NoPayload"
    BY SMT DEF Classify, Event
<1> QED BY <1>1, Zenon DEF Observe

(* A packet seen for the first time is never a duplicate. *)
LEMMA TruthIsNoDuplicate ==
    ASSUME NEW p, NEW n
    PROVE  Truth(p, n).kind # "Duplicate"
    BY DEF Truth, Event

(* The strengthened invariant is inductive, one step of the proof for each *)
(* action.                                                                 *)
LEMMA InvariantStep ==
    ASSUME MaxCopies <= 2, InductiveInvariant, TypeOK', [Next]_vars
    PROVE  InductiveInvariant'
<1> USE DEF InductiveInvariant
<1>t. MaxBurst \in Nat /\ CCMod \in Nat /\ missing \in 0 .. MaxBurst
      /\ cc \in Counters /\ (lastPayloadCC # NoCC => lastPayloadCC \in Counters)
    BY CCModAssumption, MaxBurstAssumption DEF TypeOK
<1>1. CASE SignalDiscontinuity
    BY <1>1, Zenon DEF SignalDiscontinuity, tracker, history,
       AnchorTracksSender, SentAndAnchor, ExactClassification, Ahead
<1>2. ASSUME NEW hasPcr \in BOOLEAN, PayloadDelivered(hasPcr)
      PROVE  InductiveInvariant'
    <2> DEFINE p == PayloadPacket(hasPcr)
    <2>1. p \in Packets /\ p.payload /\ p.cc = cc
        BY DEF TypeOK, PayloadPacket, Packets
    <2>2. Observe(p) /\ truth' = Truth(p, missing) /\ missing' = 0 /\ cc' = SuccCC(cc)
          /\ sent' = p /\ held' = TRUE /\ copies' = 0
        BY <1>2, Zenon DEF PayloadDelivered, StampPayload
    <2> HIDE DEF p
    <2>3. Classify(p) = Truth(p, missing)
        BY <1>t, <2>1, FreshPacket DEF AnchorTracksSender
    <2>4. lastPayloadCC' = cc /\ event' = truth' /\ ~duplicateAlreadySeen'
        BY <2>1, <2>2, <2>3, ObservedPayload, TruthIsNoDuplicate, Zenon
    <2>5. AnchorTracksSender'
        BY <1>t, <2>2, <2>4, AheadSteps, MaxBurstAssumption DEF AnchorTracksSender
    <2>6. lastPayloadCC' # NoCC /\ sent'.cc = PredCC(cc') /\ copies' # 1
        BY <1>t, <2>1, <2>2, <2>4, CounterRange DEF NoCC, Counters
    <2>7. SentAndAnchor'
        BY <2>1, <2>2, <2>4, <2>6, Zenon DEF SentAndAnchor
    <2> QED BY <2>4, <2>5, <2>7 DEF ExactClassification
<1>3. ASSUME NEW hasPcr \in BOOLEAN, PayloadLost(hasPcr)
      PROVE  InductiveInvariant'
    <2>1. /\ missing' = IF lastPayloadCC = NoCC THEN 0 ELSE missing + 1
          /\ missing < MaxBurst
          /\ cc' = SuccCC(cc)
          /\ sent'.payload /\ sent'.cc = cc /\ copies' = 0
        BY <1>3 DEF PayloadLost, StampPayload, PayloadPacket
    <2>2. UNCHANGED <<tracker, truth>> /\ ~held'
        BY <1>3, Zenon DEF PayloadLost
    <2>3. AnchorTracksSender'
        <3> SUFFICES ASSUME lastPayloadCC' # NoCC
                     PROVE  Ahead(lastPayloadCC', missing', cc')
            BY DEF AnchorTracksSender
        <3>1. lastPayloadCC' = lastPayloadCC
            BY <2>2 DEF tracker
        <3>2. Ahead(lastPayloadCC, missing, cc)
            BY <3>1 DEF AnchorTracksSender
        <3> QED BY <1>t, <2>1, <3>1, <3>2, AheadSteps
    <2>4. sent'.cc = PredCC(cc') /\ (lastPayloadCC = NoCC => missing' = 0)
          /\ (lastPayloadCC # NoCC => missing' > 0)
        BY <1>t, <2>1, CounterRange
    <2>5. SentAndAnchor'
        BY <2>1, <2>2, <2>4, Zenon DEF SentAndAnchor, tracker
    <2> QED BY <2>2, <2>3, <2>5, Zenon DEF ExactClassification, tracker
<1>4. CASE PcrOnlyDelivered
    <2> DEFINE p == PcrOnlyPacket
    <2>1. ~p.payload /\ p.di = pendingDiscontinuity
        BY DEF PcrOnlyPacket
    <2>2. /\ Observe(p) /\ cc' = cc /\ sent' = p
          /\ truth' = IF p.di THEN Event("Discontinuity", 0) ELSE Event("NoPayload", 0)
          /\ missing' = IF p.di THEN 0 ELSE missing
        BY <1>4, Zenon DEF PcrOnlyDelivered, StampPcrOnly
    <2>3. Classify(p) = IF p.di THEN Event("Discontinuity", 0) ELSE Event("NoPayload", 0)
        BY <2>1, Zenon DEF Classify
    <2>4. event' = truth' /\ lastPayloadCC' = IF p.di THEN NoCC ELSE lastPayloadCC
        BY <2>1, <2>2, <2>3, Zenon DEF Observe
    <2> HIDE DEF p
    <2>5. AnchorTracksSender'
        BY <2>2, <2>4, Zenon DEF AnchorTracksSender, Ahead
    <2>6. SentAndAnchor'
        BY <2>1, <2>2, <2>4, Zenon DEF SentAndAnchor
    <2> QED BY <2>4, <2>5, <2>6 DEF ExactClassification
<1>5. CASE PcrOnlyLost
    <2>1. ~PcrOnlyPacket.payload
        BY DEF PcrOnlyPacket
    <2> QED BY <1>5, <2>1, Zenon DEF PcrOnlyLost, StampPcrOnly, tracker, Ahead,
               AnchorTracksSender, SentAndAnchor, ExactClassification
<1>6. CASE Repeat
    <2> DEFINE n == IF missing = 0 THEN 0 ELSE missing - 1
    <2>1. sent \in Packets /\ sent.payload /\ Observe(sent) /\ missing' = 0
          /\ sent' = sent /\ held' = TRUE /\ cc' = cc
          /\ copies' = (IF held THEN copies + 1 ELSE 0)
        BY <1>6, Zenon DEF Repeat, mux, TypeOK
    <2>2. truth' = IF held /\ ~sent.di
                   THEN IF copies = 0 THEN Event("Duplicate", 0)
                        ELSE Event("Dropped", CCMod - 1)
                   ELSE Truth(sent, n)
        BY <1>6, Zenon DEF Repeat
    <2>n. n \in 0 .. MaxBurst
        BY <1>t
    <2>3. sent.cc = PredCC(cc) /\ sent.cc \in Counters
        BY <2>1, Zenon DEF SentAndAnchor, Packets, TypeOK
    <2> HIDE DEF n
    <2>4. lastPayloadCC' = sent.cc /\ event' = Classify(sent)
          /\ (duplicateAlreadySeen' <=> Classify(sent).kind = "Duplicate")
        BY <2>1, ObservedPayload, Zenon
    <2>5. AnchorTracksSender'
        BY <1>t, <2>1, <2>3, <2>4, AheadSteps, MaxBurstAssumption DEF AnchorTracksSender
    <2>6. lastPayloadCC' # NoCC /\ sent'.cc = PredCC(cc')
        BY <2>1, <2>3, <2>4 DEF Counters, NoCC
    <2>7. CASE ~held \/ sent.di
        <3>1. Classify(sent) = Truth(sent, n)
            <4>1. CASE sent.di
                BY <4>1, Zenon DEF Classify, Truth
            <4>2. CASE ~sent.di /\ lastPayloadCC = NoCC
                BY <2>1, <4>2, Zenon DEF Classify, Truth
            <4>3. CASE ~sent.di /\ lastPayloadCC # NoCC
                <5>1. missing > 0
                    BY <2>1, <2>7, <4>3, Zenon DEF SentAndAnchor
                <5>2. Ahead(lastPayloadCC, n, sent.cc)
                    BY <1>t, <2>3, <4>3, <5>1, AheadSteps DEF n, AnchorTracksSender
                <5> QED BY <2>1, <2>n, <5>2, FreshPacket
            <4> QED BY <4>1, <4>2, <4>3
        <3>2. event' = truth' /\ ~duplicateAlreadySeen'
            BY <2>2, <2>4, <2>7, <3>1, TruthIsNoDuplicate, Zenon
        <3>3. ~held => copies' # 1
            BY <2>1
        <3>4. SentAndAnchor'
            BY <2>1, <2>4, <2>6, <2>7, <3>2, <3>3, Zenon DEF SentAndAnchor
        <3> QED BY <2>5, <3>2, <3>4 DEF ExactClassification
    <2>8. CASE held /\ ~sent.di
        <3>1. lastPayloadCC = sent.cc /\ (duplicateAlreadySeen <=> copies = 1)
            BY <2>1, <2>8, Zenon DEF SentAndAnchor
        <3>2. copies = 0 \/ copies = 1
            BY <1>6, MaxCopiesAssumption DEF Repeat, TypeOK
        <3>3. Classify(sent) = IF duplicateAlreadySeen
                               THEN Event("Dropped", CCMod - 1)
                               ELSE Event("Duplicate", 0)
            BY <2>1, <2>8, <3>1, RepeatedPacket
        <3>4. Classify(sent).kind = "Duplicate" <=> copies = 0
            BY <3>1, <3>2, <3>3 DEF Event
        <3>5. event' = truth'
            BY <2>2, <2>4, <2>8, <3>1, <3>2, <3>3
        <3>6. copies = 0 <=> copies' = 1
            BY <2>1, <2>8, <3>2
        <3>7. SentAndAnchor'
            BY <2>1, <2>4, <2>6, <3>4, <3>6, Zenon DEF SentAndAnchor
        <3> QED BY <2>5, <3>5, <3>7 DEF ExactClassification
    <2> QED BY <2>7, <2>8
<1>7. CASE UNCHANGED vars
    BY <1>7, Zenon DEF vars, mux, tracker, history, Ahead,
       AnchorTracksSender, SentAndAnchor, ExactClassification
<1> QED BY <1>1, <1>2, <1>3, <1>4, <1>5, <1>6, <1>7 DEF Next

(* The anchor of the tracker never leaves the sender's count of packets,   *)
(* and every event it reports is what happened, whatever the size of the   *)
(* counter and however the losses and repetitions fall.                    *)
THEOREM Exactness ==
    ASSUME MaxCopies <= 2
    PROVE  Spec => [](AnchorTracksSender /\ ExactClassification)
<1>1. Init => InductiveInvariant
    <2> SUFFICES ASSUME Init PROVE InductiveInvariant
        OBVIOUS
    <2>1. TypeOK
        BY InitialTypes
    <2> QED BY <2>1 DEF Init, InductiveInvariant, AnchorTracksSender,
               SentAndAnchor, ExactClassification, NoPacket
<1>2. InductiveInvariant /\ [Next]_vars => InductiveInvariant'
    BY InvariantStep, TypeStep DEF InductiveInvariant
<1>3. InductiveInvariant => AnchorTracksSender /\ ExactClassification
    BY DEF InductiveInvariant
<1> QED BY <1>1, <1>2, <1>3, PTL DEF Spec

------------------------------------------------------------------------------
(* The validator.                                                          *)

(* The sender's cadence: a PCR at least every MaxSpacing packets, and in   *)
(* the next packet once a time base is to be signalled.                    *)
CadenceKnown ==
    /\ spacing <= MaxSpacing
    /\ sent.di => sentPcr
    /\ pendingDiscontinuity => spacing = MaxSpacing

(* How the packet just sent is annotated, by what the next one will be:    *)
(* one less, or it was the last of its run, or the one it was counting to  *)
(* gave way to another run.                                                *)
AnnotationKnown ==
    /\ sent.payload /\ sentSplice # Silent =>
           /\ sentSplice.count \in Int /\ sentSplice.count <= MaxRun
           /\ \/ countdown # NoCount /\ countdown = sentSplice.count - 1
              \/ sentSplice.count <= 0 /\ (countdown = NoCount \/ countdown > 0)
           /\ sentSplice.count > 0 => sentSplice.pair = pair

(* The counter's part, whatever was lost or repeated.                      *)
Anchored ==
    /\ AnchorTracksSender
    /\ sent.payload => sent.cc = PredCC(cc)
    /\ sent.payload /\ held =>
           /\ lastPayloadCC = sent.cc
           /\ ~sent.di /\ copies = 0 => ~duplicateAlreadySeen
    /\ sent.payload /\ ~held => recent.splice /\ (lastPayloadCC # NoCC => missing > 0)
    /\ ~recent.splice => missing = 0

(* The annotation of a packet that arrived is what the run is at.          *)
RunIsSent ==
    sent.payload /\ held /\ sentSplice # Silent => run.count = sentSplice.count /\ run.since = 0

(* With no fault left to account for the run is at the last annotation:    *)
(* there was none yet, or it was the last of its run, or it was one more   *)
(* than the next will be.                                                  *)
CountKnown ==
    ~recent.splice =>
        \/ run.count = NoCount
        \/ run.count <= 0 /\ (countdown = NoCount \/ countdown > 0)
        \/ countdown # NoCount /\ run.count = countdown + 1 /\ run.since = 0

(* In a sound stream the seamless pair of a run is that of its splice.     *)
SeamlessKnown ==
    faults = {} =>
        /\ run.seamless = IF run.count # NoCount /\ run.count > 0 THEN pair ELSE NoPair
        /\ recent = [splice |-> FALSE, pcr |-> FALSE, base |-> FALSE]
        /\ charges = {}

(* The anchor and the last PCR lie on one time base, that of the sender    *)
(* unless it is about to signal another, if no such signal was lost.       *)
OnBase ==
    pcr.last # NoPcr /\ ~recent.base =>
        \E b \in Bases :
            /\ pcr.last.tick = (b + pcr.last.at * Rate) % Modulus
            /\ pcr.anchor.tick = (b + pcr.anchor.at * Rate) % Modulus
            /\ ~pendingDiscontinuity => b = base

(* The last PCR is as far back as the sender counts, if none was lost.     *)
Spaced ==
    pcr.last # NoPcr /\ ~recent.pcr /\ ~pendingDiscontinuity => pcr.last.at = offset - spacing

(* A PCR: its value and the packet it came in. *)
Samples == [tick : 0 .. Modulus - 1, at : Nat]

(* The types of the clock and of the record of faults.                     *)
ClockTypes ==
    /\ sentPcr \in BOOLEAN /\ base \in Bases /\ offset \in Nat /\ spacing \in Nat
    /\ pcr = [last |-> pcr.last, anchor |-> pcr.anchor, pending |-> FALSE]
    /\ \/ pcr.last = NoPcr /\ pcr.anchor = NoPcr
       \/ /\ pcr.last \in Samples /\ pcr.anchor \in Samples
          /\ pcr.anchor.at <= pcr.last.at /\ pcr.last.at <= offset
    /\ recent \in [splice : BOOLEAN, pcr : BOOLEAN, base : BOOLEAN]

(* The types of the splice walk.                                           *)
SpliceTypes ==
    /\ countdown \in Int /\ countdown <= NoCount /\ post \in Nat
    /\ run = [count |-> run.count, since |-> run.since, seamless |-> run.seamless]
    /\ run.count \in Int /\ run.since \in Nat

ClockInvariant  == TypeOK /\ ClockTypes /\ CadenceKnown /\ OnBase /\ Spaced

SpliceInvariant ==
    /\ ClockInvariant /\ SpliceTypes /\ Anchored /\ AnnotationKnown /\ RunIsSent
    /\ CountKnown /\ SeamlessKnown

------------------------------------------------------------------------------
(* The counter.                                                            *)

(* Every step of the validated stream is a step of the counter and its     *)
(* channel, or none.                                                       *)
LEMMA CounterStep == [ValNext]_valVars => [Next]_vars
    BY DEF ValNext, valVars, Next, ArmSplice, NewTimeBase, PayloadArrives, PayloadVanishes,
           PcrArrives, PcrVanishes, RepeatArrives

(* A payload packet not seen before counts, and is a drop only if some     *)
(* were lost.                                                              *)
LEMMA FreshCounts ==
    ASSUME TypeOK, Anchored, NEW hasPcr \in BOOLEAN
    PROVE  LET p == PayloadPacket(hasPcr)
           IN  /\ p \in Packets /\ p.payload /\ p.cc = cc
               /\ Classify(p).kind # "Duplicate" /\ Counts(p)
               /\ missing = 0 => Classify(p).kind # "Dropped"
<1> DEFINE p == PayloadPacket(hasPcr)
<1>1. p \in Packets /\ p.payload /\ p.cc = cc
    BY DEF TypeOK, PayloadPacket, Packets
<1> HIDE DEF p
<1>2. missing \in 0 .. MaxBurst
    BY DEF TypeOK
<1>3. Classify(p) = Truth(p, missing)
    BY <1>1, <1>2, FreshPacket DEF Anchored, AnchorTracksSender
<1>4. Classify(p).kind # "Duplicate"
    BY <1>3, TruthIsNoDuplicate
<1>5. missing = 0 => Truth(p, missing).kind # "Dropped"
    BY DEF Truth, Event
<1>6. Counts(p) /\ (missing = 0 => Classify(p).kind # "Dropped")
    BY <1>1, <1>3, <1>4, <1>5 DEF Counts
<1> QED BY <1>1, <1>4, <1>6 DEF p

(* A packet without a payload neither counts nor is it a drop.             *)
LEMMA PcrOnlyIsQuiet ==
    LET p == PcrOnlyPacket
    IN  ~p.payload /\ Classify(p).kind # "Dropped" /\ ~Counts(p)
<1>1. ~PcrOnlyPacket.payload
    BY DEF PcrOnlyPacket
<1>2. Classify(PcrOnlyPacket) \in {Event("Discontinuity", 0), Event("NoPayload", 0)}
    BY <1>1, Zenon DEF Classify
<1>3. Classify(PcrOnlyPacket).kind # "Dropped"
    BY <1>2 DEF Event
<1> QED BY <1>1, <1>3, Zenon DEF Counts

(* The first repeat of a packet that arrived is a duplicate, and does not  *)
(* count.                                                                  *)
LEMMA FirstRepeat ==
    ASSUME TypeOK, Anchored, sent.payload, held, ~sent.di, copies = 0
    PROVE  Classify(sent).kind = "Duplicate" /\ ~Counts(sent)
<1>1. sent \in Packets /\ lastPayloadCC = sent.cc /\ ~duplicateAlreadySeen
    BY Zenon DEF TypeOK, Anchored
<1>2. Classify(sent) = Event("Duplicate", 0)
    BY <1>1, RepeatedPacket
<1>3. Classify(sent).kind = "Duplicate"
    BY <1>2 DEF Event
<1> QED BY <1>3 DEF Counts

(* Every step keeps the anchor behind the sender by the lost packets.      *)
LEMMA AnchoredStep ==
    ASSUME TypeOK, ClockTypes, Anchored, [ValNext]_valVars
    PROVE  Anchored'
<1>t. /\ MaxBurst \in Nat /\ CCMod \in Nat /\ missing \in 0 .. MaxBurst
      /\ cc \in Counters /\ (lastPayloadCC # NoCC => lastPayloadCC \in Counters)
      /\ sent \in Packets
    BY CCModAssumption, MaxBurstAssumption DEF TypeOK
<1>1. CASE ArmSplice \/ NewTimeBase \/ UNCHANGED valVars
    <2>1. UNCHANGED <<cc, tracker, history, recent>>
        BY <1>1 DEF ArmSplice, NewTimeBase, SignalDiscontinuity, valVars, vars, mux, record
    <2> QED BY <2>1, Zenon DEF Anchored, AnchorTracksSender, Ahead, tracker, history
<1>2. ASSUME NEW hasPcr \in BOOLEAN, PayloadArrives(hasPcr)
      PROVE  Anchored'
    <2> DEFINE p == PayloadPacket(hasPcr)
    <2>1. p \in Packets /\ p.payload /\ p.cc = cc /\ Classify(p).kind # "Duplicate"
        BY FreshCounts
    <2>2. Observe(p) /\ missing' = 0 /\ cc' = SuccCC(cc) /\ sent' = p /\ held'
        BY <1>2, Zenon DEF PayloadArrives, PayloadDelivered, StampPayload
    <2> HIDE DEF p
    <2>3. lastPayloadCC' = cc /\ ~duplicateAlreadySeen'
        BY <2>1, <2>2, ObservedPayload, Zenon
    <2>4. AnchorTracksSender'
        BY <1>t, <2>2, <2>3, AheadSteps, MaxBurstAssumption DEF AnchorTracksSender
    <2>5. sent'.cc = PredCC(cc')
        BY <1>t, <2>1, <2>2, CounterRange
    <2> QED BY <2>1, <2>2, <2>3, <2>4, <2>5, Zenon DEF Anchored
<1>3. ASSUME NEW hasPcr \in BOOLEAN, PayloadVanishes(hasPcr)
      PROVE  Anchored'
    <2>1. /\ missing' = IF lastPayloadCC = NoCC THEN 0 ELSE missing + 1
          /\ missing < MaxBurst
          /\ cc' = SuccCC(cc)
          /\ sent'.cc = cc
        BY <1>3 DEF PayloadVanishes, PayloadLost, StampPayload, PayloadPacket
    <2>2. UNCHANGED tracker /\ ~held'
        BY <1>3, Zenon DEF PayloadVanishes, PayloadLost
    <2>3. recent'.splice
        BY <1>3 DEF PayloadVanishes, Lost
    <2>4. AnchorTracksSender'
        <3> SUFFICES ASSUME lastPayloadCC' # NoCC
                     PROVE  Ahead(lastPayloadCC', missing', cc')
            BY DEF AnchorTracksSender
        <3>1. lastPayloadCC' = lastPayloadCC
            BY <2>2 DEF tracker
        <3>2. Ahead(lastPayloadCC, missing, cc)
            BY <3>1 DEF Anchored, AnchorTracksSender
        <3> QED BY <1>t, <2>1, <3>1, <3>2, AheadSteps
    <2>5. sent'.cc = PredCC(cc') /\ (lastPayloadCC # NoCC => missing' > 0)
        BY <1>t, <2>1, CounterRange
    <2> QED BY <2>2, <2>3, <2>4, <2>5, Zenon DEF Anchored, tracker
<1>4. CASE PcrArrives
    <2> DEFINE p == PcrOnlyPacket
    <2>1. ~p.payload
        BY PcrOnlyIsQuiet
    <2>2. /\ cc' = cc /\ sent' = p
          /\ lastPayloadCC' = IF p.di THEN NoCC ELSE lastPayloadCC
          /\ missing' = IF p.di THEN 0 ELSE missing
        BY <1>4, <2>1, Zenon DEF PcrArrives, PcrOnlyDelivered, StampPcrOnly, Observe
    <2>3. recent'.splice <=> recent.splice
        BY <1>4, SMT DEF PcrArrives, Settled, ClockTypes, Silent
    <2> HIDE DEF p
    <2>4. AnchorTracksSender'
        BY <2>2, Zenon DEF Anchored, AnchorTracksSender, Ahead
    <2>5. ~recent'.splice => missing' = 0
        BY <2>2, <2>3, Zenon DEF Anchored
    <2> QED BY <2>1, <2>2, <2>4, <2>5, Zenon DEF Anchored
<1>5. CASE PcrVanishes
    <2>1. ~PcrOnlyPacket.payload
        BY PcrOnlyIsQuiet
    <2>2. recent'.splice
        BY <1>5 DEF PcrVanishes, Lost
    <2> QED BY <1>5, <2>1, <2>2, Zenon
            DEF PcrVanishes, PcrOnlyLost, StampPcrOnly, tracker, Ahead, Anchored, AnchorTracksSender
<1>6. CASE RepeatArrives
    <2>1. sent.payload /\ Observe(sent) /\ missing' = 0 /\ sent' = sent /\ held' /\ cc' = cc
        BY <1>6, Zenon DEF RepeatArrives, Repeat, mux
    <2>2. copies' = IF held THEN copies + 1 ELSE 0
        BY <1>6, Zenon DEF RepeatArrives, Repeat
    <2>3. sent.cc = PredCC(cc) /\ sent.cc \in Counters
        BY <1>t, <2>1, Zenon DEF Anchored, Packets
    <2>4. /\ lastPayloadCC' = sent.cc
          /\ duplicateAlreadySeen' <=> Classify(sent).kind = "Duplicate"
        BY <1>t, <2>1, ObservedPayload, Zenon
    <2>5. AnchorTracksSender'
        BY <1>t, <2>1, <2>3, <2>4, AheadSteps, MaxBurstAssumption DEF AnchorTracksSender
    <2>6. ~sent'.di /\ copies' = 0 => ~duplicateAlreadySeen'
        <3> SUFFICES ASSUME ~sent.di, copies' = 0
                     PROVE  Classify(sent).kind # "Duplicate"
            BY <2>1, <2>4
        <3>1. ~held
            BY <2>2 DEF TypeOK
        <3>2. CASE lastPayloadCC = NoCC
            <4>1. Classify(sent) = Event("Continuous", 0)
                BY <2>1, <3>2, Zenon DEF Classify
            <4> QED BY <4>1 DEF Event
        <3>3. CASE lastPayloadCC # NoCC
            <4>1. missing > 0
                BY <2>1, <3>1, <3>3, Zenon DEF Anchored
            <4>2. Ahead(lastPayloadCC, missing - 1, sent.cc) /\ missing - 1 \in 0 .. MaxBurst
                BY <1>t, <2>3, <3>3, <4>1, AheadSteps DEF Anchored, AnchorTracksSender
            <4> DEFINE n == missing - 1
            <4> HIDE DEF n
            <4>3. n \in 0 .. MaxBurst /\ Ahead(lastPayloadCC, n, sent.cc)
                BY <4>2 DEF n
            <4>4. Classify(sent) = Truth(sent, n)
                BY <1>t, <2>1, <4>3, FreshPacket
            <4> QED BY <4>4, TruthIsNoDuplicate
        <3> QED BY <3>2, <3>3
    <2> QED BY <2>1, <2>3, <2>4, <2>5, <2>6, Zenon DEF Anchored
<1> QED BY <1>1, <1>2, <1>3, <1>4, <1>5, <1>6 DEF ValNext

------------------------------------------------------------------------------
(* The clock.                                                              *)

(* A number is its residue and a multiple of the modulus.                  *)
LEMMA Residue ==
    ASSUME NEW x \in Nat
    PROVE  /\ x % Modulus \in 0 .. Modulus - 1
           /\ \E q \in Nat : q * Modulus \in Nat /\ x = (q * Modulus) + (x % Modulus)
<1>1. x % Modulus \in 0 .. Modulus - 1 /\ x \div Modulus \in Nat
      /\ x = ((x \div Modulus) * Modulus) + (x % Modulus)
    BY ClockAssumption
<1>2. (x \div Modulus) * Modulus \in Nat
    BY <1>1, ClockAssumption
<1> QED BY <1>1, <1>2

(* There is one such residue.                                              *)
LEMMA ResidueIsUnique ==
    ASSUME NEW x \in Nat, NEW q \in Int, NEW r \in 0 .. Modulus - 1, x = (q * Modulus) + r
    PROVE  x % Modulus = r
<1>m. Modulus \in Nat /\ Modulus > 0
    BY ClockAssumption
<1>1. PICK p \in Nat : p * Modulus \in Nat /\ x = (p * Modulus) + (x % Modulus)
    BY Residue
<1>2. x % Modulus \in 0 .. Modulus - 1
    BY Residue
<1> DEFINE s == x % Modulus
<1>3. s \in 0 .. Modulus - 1 /\ (p * Modulus) + s = (q * Modulus) + r
    BY <1>1, <1>2
<1> HIDE DEF s
<1>4. (p - q) * Modulus = r - s
    BY <1>m, <1>3
<1>5. p - q >= 1 => (p - q) * Modulus >= Modulus
    BY <1>m
<1>6. p - q <= -1 => (p - q) * Modulus <= -Modulus
    BY <1>m
<1>7. p - q = 0
    BY <1>m, <1>3, <1>4, <1>5, <1>6
<1>8. r - s = 0
    BY <1>m, <1>4, <1>7
<1>9. s = r
    BY <1>3, <1>8
<1> QED BY <1>9 DEF s

(* The distance of two times on the ring is that of the times, however     *)
(* often the clock wrapped.                                                *)
LEMMA RingDistance ==
    ASSUME NEW x \in Nat, NEW d \in Nat
    PROVE  Delta((x + d) % Modulus, x % Modulus) = d % Modulus
<1>m. Modulus \in Nat /\ Modulus > 0
    BY ClockAssumption
<1>1. x + d \in Nat
    OBVIOUS
<1> DEFINE a == x % Modulus  b == (x + d) % Modulus  c == d % Modulus
<1>2. PICK p \in Nat : p * Modulus \in Nat /\ x = (p * Modulus) + a
    BY Residue
<1>3. PICK q \in Nat : q * Modulus \in Nat /\ x + d = (q * Modulus) + b
    BY <1>1, Residue
<1>4. PICK r \in Nat : r * Modulus \in Nat /\ d = (r * Modulus) + c
    BY Residue
<1>5. a \in 0 .. Modulus - 1 /\ b \in 0 .. Modulus - 1 /\ c \in 0 .. Modulus - 1
    BY <1>1, Residue
<1> HIDE DEF a, b, c
<1>6. b + Modulus - a \in Nat
    BY <1>m, <1>5
<1> DEFINE k == r - q + p + 1
<1>7. k * Modulus = (r * Modulus) - (q * Modulus) + (p * Modulus) + Modulus
    BY <1>m
<1>8. b + Modulus - a = (k * Modulus) + c
    <2> HIDE DEF k
    <2> QED BY <1>m, <1>2, <1>3, <1>4, <1>5, <1>7
<1>9. k \in Int
    OBVIOUS
<1> HIDE DEF k
<1>10. (b + Modulus - a) % Modulus = c
    BY <1>5, <1>6, <1>8, <1>9, ResidueIsUnique
<1> QED BY <1>10 DEF Delta, a, b, c

(* Two times of one base are as far apart as the packets between them.     *)
LEMMA OneBase ==
    ASSUME NEW b \in Nat, NEW i \in Nat, NEW j \in Nat, i <= j
    PROVE  Delta((b + j * Rate) % Modulus, (b + i * Rate) % Modulus)
               = ((j - i) * Rate) % Modulus
<1>1. Rate \in Nat
    BY ClockAssumption
<1> DEFINE x == b + i * Rate  d == (j - i) * Rate
<1>2. x \in Nat /\ d \in Nat /\ b + j * Rate = x + d
    BY <1>1
<1> HIDE DEF x, d
<1>3. Delta((x + d) % Modulus, x % Modulus) = d % Modulus
    BY <1>2, RingDistance
<1> QED BY <1>2, <1>3 DEF x, d

(* Packets at most MaxSpacing apart are at most so many ticks apart.       *)
LEMMA WithinSpacing ==
    ASSUME NEW k \in Nat, k <= MaxSpacing
    PROVE  (k * Rate) % Modulus <= Rate * MaxSpacing
<1>1. Rate \in Nat /\ MaxSpacing \in Nat
    BY ClockAssumption
<1> DEFINE x == k * Rate
<1>2. x \in Nat /\ x <= Rate * MaxSpacing
    <2>1. (MaxSpacing - k) * Rate >= 0
        BY <1>1
    <2>2. (MaxSpacing - k) * Rate = (Rate * MaxSpacing) - (k * Rate)
        BY <1>1
    <2>3. k * Rate \in Nat /\ Rate * MaxSpacing \in Nat
        BY <1>1
    <2> QED BY <2>1, <2>2, <2>3
<1> HIDE DEF x
<1>3. PICK q \in Nat : q * Modulus \in Nat /\ x = (q * Modulus) + (x % Modulus)
    BY <1>2, Residue
<1>4. x % Modulus \in Int /\ Rate * MaxSpacing \in Nat
    BY <1>1, <1>2, Residue
<1>5. x % Modulus <= x
    BY <1>2, <1>3, <1>4
<1>6. x % Modulus <= Rate * MaxSpacing
    BY <1>2, <1>4, <1>5
<1> QED BY <1>6 DEF x

(* The clock of the stream is one of ticks.                                *)
LEMMA TickIsSample ==
    ASSUME ClockTypes
    PROVE  /\ Tick \in 0 .. Modulus - 1 /\ [tick |-> Tick, at |-> offset] \in Samples
           /\ [tick |-> Tick, at |-> offset] # NoPcr
<1>1. base \in Nat /\ offset \in Nat /\ Rate \in Nat
    BY ClockAssumption DEF ClockTypes
<1>2. base + offset * Rate \in Nat
    BY <1>1
<1>3. Tick \in 0 .. Modulus - 1
    BY <1>2, Residue DEF Tick
<1>4. Tick # -1
    BY <1>3, ClockAssumption
<1>5. [tick |-> Tick, at |-> offset] # NoPcr
    BY <1>4 DEF NoPcr
<1> QED BY <1>1, <1>3, <1>5 DEF Samples

(* What a packet is to the sender's clock: the PCRs of a packet announced  *)
(* to start a time base, and how the sender counts it.                     *)
ClockPacket(p, hasPcr) ==
    /\ p.di \in BOOLEAN /\ hasPcr \in BOOLEAN
    /\ p.di => hasPcr
    /\ hasPcr /\ pendingDiscontinuity => p.di
    /\ pendingDiscontinuity' <=> pendingDiscontinuity /\ ~hasPcr
    /\ offset' = offset + 1 /\ base' = base
    /\ spacing' = IF hasPcr THEN 1 ELSE spacing + 1

(* A packet that arrives keeps the PCRs on the sender's base and as far    *)
(* back as it counts.                                                      *)
LEMMA ClockArrives ==
    ASSUME ClockTypes, OnBase, Spaced, NEW p, NEW hasPcr, ClockPacket(p, hasPcr),
           WalkPcr(p, hasPcr),
           recent'.base <=> recent.base /\ ~p.di, recent'.pcr <=> recent.pcr /\ ~hasPcr
    PROVE  /\ OnBase' /\ Spaced'
           /\ pcr' = [last |-> pcr'.last, anchor |-> pcr'.anchor, pending |-> FALSE]
           /\ \/ pcr'.last = NoPcr /\ pcr'.anchor = NoPcr
              \/ /\ pcr'.last \in Samples /\ pcr'.anchor \in Samples
                 /\ pcr'.anchor.at <= pcr'.last.at /\ pcr'.last.at <= offset'
<1> DEFINE here == [tick |-> Tick, at |-> offset]
<1>1. here \in Samples /\ here # NoPcr /\ here.at = offset /\ here.tick = (base + offset * Rate) % Modulus
    BY TickIsSample DEF Tick
<1>2. offset \in Nat /\ base \in Bases /\ ~pcr.pending
    BY DEF ClockTypes
<1>3. CASE ~hasPcr
    <2>1. pcr' = pcr /\ (recent'.base <=> recent.base) /\ (recent'.pcr <=> recent.pcr)
          /\ (pendingDiscontinuity' <=> pendingDiscontinuity) /\ ~p.di
        <3>1. ~p.di
            BY <1>3 DEF ClockPacket
        <3>2. pcr' = [pcr EXCEPT !.pending = FALSE]
            BY <1>2, <1>3, <3>1, Zenon DEF WalkPcr
        <3>3. pcr' = pcr
            BY <3>2 DEF ClockTypes
        <3> QED BY <1>3, <3>1, <3>3, Zenon DEF ClockPacket
    <2>2. OnBase'
        BY <2>1, Zenon DEF OnBase, ClockPacket
    <2>3. Spaced'
        <3> SUFFICES ASSUME pcr.last # NoPcr, ~recent.pcr, ~pendingDiscontinuity
                     PROVE  pcr.last.at = offset' - spacing'
            BY <2>1, Zenon DEF Spaced
        <3>1. pcr.last.at = offset - spacing
            BY DEF Spaced
        <3>2. offset' = offset + 1 /\ spacing' = spacing + 1 /\ spacing \in Nat
            BY <1>3 DEF ClockPacket, ClockTypes
        <3> QED BY <1>2, <3>1, <3>2
    <2>4. pcr.last \in Samples /\ pcr.last.at <= offset => pcr.last.at <= offset'
        BY <1>2 DEF ClockPacket, Samples
    <2> QED BY <2>1, <2>2, <2>3, <2>4, Zenon DEF ClockTypes
<1>4. CASE hasPcr /\ Anchors(p)
    <2>1. pcr' = [last |-> here, pending |-> FALSE, anchor |-> here]
        BY <1>4, Zenon DEF WalkPcr
    <2>2. pcr'.last = here /\ pcr'.anchor = here /\ ~pendingDiscontinuity'
        BY <1>4, <2>1 DEF ClockPacket
    <2> HIDE DEF here
    <2>3. OnBase'
        BY <1>1, <1>2, <2>2, Zenon DEF OnBase, ClockPacket
    <2>4. Spaced'
        <3>1. offset = offset' - spacing'
            BY <1>2, <1>4 DEF ClockPacket
        <3> QED BY <1>1, <2>2, <3>1, Zenon DEF Spaced
    <2>5. offset <= offset'
        BY <1>2 DEF ClockPacket
    <2> QED BY <1>1, <1>2, <2>1, <2>2, <2>3, <2>4, <2>5 DEF Samples
<1>5. CASE hasPcr /\ ~Anchors(p)
    <2>1. pcr' = [last |-> here, pending |-> FALSE, anchor |-> pcr.anchor]
        BY <1>5, Zenon DEF WalkPcr
    <2>2. ~p.di /\ ~pendingDiscontinuity /\ pcr.last # NoPcr
        BY <1>5, Zenon DEF Anchors, ClockPacket
    <2>3. pcr'.last = here /\ pcr'.anchor = pcr.anchor /\ ~pendingDiscontinuity'
        BY <1>5, <2>1 DEF ClockPacket
    <2>4. pcr.last \in Samples /\ pcr.anchor \in Samples /\ pcr.anchor.at <= pcr.last.at
          /\ pcr.last.at <= offset
        BY <2>2 DEF ClockTypes
    <2> HIDE DEF here
    <2>5. OnBase'
        <3> SUFFICES ASSUME ~recent.base
                     PROVE  /\ here.tick = (base + here.at * Rate) % Modulus
                            /\ pcr.anchor.tick = (base + pcr.anchor.at * Rate) % Modulus
            BY <1>2, <2>2, <2>3, Zenon DEF OnBase, ClockPacket
        <3>1. pcr.anchor.tick = (base + pcr.anchor.at * Rate) % Modulus
            BY <2>2, Zenon DEF OnBase
        <3> QED BY <1>1, <3>1
    <2>6. Spaced'
        <3>1. offset = offset' - spacing'
            BY <1>2, <1>5 DEF ClockPacket
        <3> QED BY <1>1, <2>3, <3>1, Zenon DEF Spaced
    <2>7. offset <= offset'
        BY <1>2 DEF ClockPacket
    <2> QED BY <1>1, <1>2, <2>1, <2>3, <2>4, <2>5, <2>6, <2>7 DEF Samples
<1> QED BY <1>3, <1>4, <1>5 DEF ClockPacket

(* A packet that is lost leaves the PCRs, and that it had one, or was to   *)
(* start a time base, is to be accounted for.                              *)
LEMMA ClockVanishes ==
    ASSUME ClockTypes, OnBase, Spaced, NEW p, NEW hasPcr, ClockPacket(p, hasPcr), UNCHANGED pcr,
           recent'.base <=> recent.base \/ p.di, recent'.pcr <=> recent.pcr \/ hasPcr
    PROVE  OnBase' /\ Spaced'
<1>1. OnBase'
    BY Zenon DEF OnBase, ClockPacket
<1>2. Spaced'
    <2> SUFFICES ASSUME pcr.last # NoPcr, ~recent'.pcr, ~pendingDiscontinuity'
                 PROVE  pcr.last.at = offset' - spacing'
        BY Zenon DEF Spaced
    <2>1. ~hasPcr /\ ~recent.pcr /\ ~pendingDiscontinuity
        BY Zenon DEF ClockPacket
    <2>2. pcr.last.at = offset - spacing
        BY <2>1, Zenon DEF Spaced
    <2>3. offset' = offset + 1 /\ spacing' = spacing + 1 /\ spacing \in Nat /\ offset \in Nat
        BY <2>1 DEF ClockPacket, ClockTypes
    <2> QED BY <2>2, <2>3
<1> QED BY <1>1, <1>2

(* An interval is charged only if a PCR was lost, or the signal of a time  *)
(* base.                                                                   *)
LEMMA IntervalCharged ==
    ASSUME ClockTypes, CadenceKnown, OnBase, Spaced, NEW p, NEW hasPcr, ClockPacket(p, hasPcr),
           PcrCharges(p, hasPcr) # {}
    PROVE  recent.pcr \/ recent.base
<1> SUFFICES ASSUME ~recent.pcr, ~recent.base PROVE FALSE
    OBVIOUS
<1>1. hasPcr /\ ~Anchors(p) /\ ~(Delta(Tick, pcr.last.tick) <= Rate * MaxSpacing)
    <2>1. hasPcr /\ ~Anchors(p) /\ Delta(Tick, pcr.last.tick) > Rate * MaxSpacing
        BY Zenon DEF PcrCharges
    <2>2. Rate * MaxSpacing \in Nat
        BY ClockAssumption
    <2>3. pcr.last \in Samples /\ Tick \in 0 .. Modulus - 1
        BY <2>1, TickIsSample, Zenon DEF ClockTypes, Anchors
    <2>4. Delta(Tick, pcr.last.tick) \in Int
        BY <2>3, ClockAssumption DEF Delta, Samples
    <2> QED BY <2>1, <2>2, <2>4
<1>2. pcr.last # NoPcr /\ ~pendingDiscontinuity
    BY <1>1, Zenon DEF Anchors, ClockPacket
<1>3. pcr.last.tick = (base + pcr.last.at * Rate) % Modulus /\ pcr.last.at = offset - spacing
    BY <1>2, Zenon DEF OnBase, Spaced
<1>4. base \in Nat /\ offset \in Nat /\ spacing \in Nat /\ spacing <= MaxSpacing
      /\ pcr.last.at \in Nat
    BY <1>2, ClockAssumption DEF ClockTypes, CadenceKnown, Samples
<1> DEFINE i == pcr.last.at
<1>5. i \in Nat /\ i = offset - spacing
    BY <1>3, <1>4
<1> HIDE DEF i
<1>6. Delta((base + offset * Rate) % Modulus, (base + i * Rate) % Modulus)
          = ((offset - i) * Rate) % Modulus
    BY <1>4, <1>5, OneBase
<1> DEFINE k == offset - i
<1>7. k \in Nat /\ k <= MaxSpacing
    BY <1>4, <1>5
<1> HIDE DEF k
<1>8. (k * Rate) % Modulus <= Rate * MaxSpacing
    BY <1>7, WithinSpacing
<1> QED BY <1>1, <1>3, <1>6, <1>8 DEF k, i, Tick

(* A rate between two PCRs of one base is that of the base.                *)
LEMMA OnBaseIsTrueRate ==
    ASSUME ClockTypes, OnBase
    PROVE  RateIsTrue
<1> SUFFICES ASSUME pcr.last # NoPcr, ~recent.base
             PROVE  Delta(pcr.last.tick, pcr.anchor.tick) = ((pcr.last.at - pcr.anchor.at) * Rate) % Modulus
    BY DEF RateIsTrue, EstimatedRate
<1>1. PICK b \in Bases : /\ pcr.last.tick = (b + pcr.last.at * Rate) % Modulus
                         /\ pcr.anchor.tick = (b + pcr.anchor.at * Rate) % Modulus
    BY Zenon DEF OnBase
<1>2. b \in Nat /\ pcr.last.at \in Nat /\ pcr.anchor.at \in Nat /\ pcr.anchor.at <= pcr.last.at
    BY ClockAssumption DEF ClockTypes, Samples
<1> DEFINE i == pcr.anchor.at  j == pcr.last.at
<1>3. i \in Nat /\ j \in Nat /\ i <= j
    BY <1>2
<1> HIDE DEF i, j
<1>4. Delta((b + j * Rate) % Modulus, (b + i * Rate) % Modulus) = ((j - i) * Rate) % Modulus
    BY <1>2, <1>3, OneBase
<1> QED BY <1>1, <1>4 DEF i, j

(* The clock begins as the invariant says.                                 *)
LEMMA TimeBegins == ValInit => ClockInvariant
<1> SUFFICES ASSUME ValInit PROVE ClockInvariant
    OBVIOUS
<1>1. TypeOK
    BY InitialTypes DEF ValInit
<1>2. /\ pcr = [last |-> NoPcr, anchor |-> NoPcr, pending |-> FALSE]
      /\ recent = [splice |-> FALSE, pcr |-> FALSE, base |-> FALSE]
      /\ base \in Bases /\ offset = 0 /\ spacing = 0 /\ sentPcr = FALSE
      /\ sent = NoPacket /\ pendingDiscontinuity = FALSE
    BY DEF ValInit, Init
<1>3. CadenceKnown
    BY <1>2, ClockAssumption DEF CadenceKnown, NoPacket
<1>4. ClockTypes /\ OnBase /\ Spaced
    BY <1>2 DEF ClockTypes, OnBase, Spaced
<1> QED BY <1>1, <1>3, <1>4 DEF ClockInvariant

(* A packet sent keeps the cadence.                                        *)
LEMMA CadenceStep ==
    ASSUME ClockTypes, CadenceKnown, NEW hasPcr \in BOOLEAN,
           hasPcr \/ spacing < MaxSpacing, spacing' = IF hasPcr THEN 1 ELSE spacing + 1
    PROVE  /\ spacing' \in Nat /\ spacing' <= MaxSpacing
           /\ pendingDiscontinuity => hasPcr
    BY ClockAssumption DEF CadenceKnown, ClockTypes

(* What each action does to the clock of the sender, and of the packet     *)
(* that is sent.                                                           *)
LEMMA PayloadClock ==
    ASSUME TypeOK, NEW hasPcr \in BOOLEAN, StampPayload(hasPcr), Sent(hasPcr)
    PROVE  ClockPacket(PayloadPacket(hasPcr), hasPcr)
<1>1. PayloadPacket(hasPcr).di <=> hasPcr /\ pendingDiscontinuity
    BY Zenon DEF PayloadPacket
<1>2. PayloadPacket(hasPcr).di \in BOOLEAN
    BY DEF PayloadPacket, TypeOK
<1>3. pendingDiscontinuity' <=> pendingDiscontinuity /\ ~hasPcr
    BY Zenon DEF StampPayload
<1> QED BY <1>1, <1>2, <1>3, Zenon DEF ClockPacket, Sent

(* The same for a packet with a PCR and no payload. *)
LEMMA PcrOnlyClock ==
    ASSUME TypeOK, StampPcrOnly, Sent(TRUE)
    PROVE  ClockPacket(PcrOnlyPacket, TRUE)
<1>1. PcrOnlyPacket.di = pendingDiscontinuity
    BY DEF PcrOnlyPacket
<1> QED BY <1>1, Zenon DEF ClockPacket, Sent, StampPcrOnly, TypeOK

(* A repeated packet repeats the PCR the clock has just seen. *)
LEMMA RepeatClock ==
    ASSUME TypeOK, ClockTypes, CadenceKnown, RepeatArrives
    PROVE  /\ ClockPacket(sent, sentPcr)
           /\ sentPcr \/ spacing < MaxSpacing
           /\ ~pendingDiscontinuity
<1>1. /\ offset' = offset + 1 /\ spacing' = IF sentPcr THEN 1 ELSE spacing + 1
      /\ base' = base /\ (pendingDiscontinuity' <=> pendingDiscontinuity)
      /\ (pendingDiscontinuity => ~sentPcr)
      /\ spacing < MaxSpacing \/ sentPcr
    BY Zenon DEF RepeatArrives, Repeat, mux
<1>2. ~pendingDiscontinuity
    BY <1>1 DEF CadenceKnown, ClockTypes, TypeOK
<1>3. sent.di \in BOOLEAN /\ sentPcr \in BOOLEAN
    BY DEF TypeOK, Packets, ClockTypes
<1> QED BY <1>1, <1>2, <1>3, Zenon DEF ClockPacket, CadenceKnown

(* What a packet that arrives leaves to be accounted for.                  *)
LEMMA SettledRecord ==
    ASSUME NEW r \in [splice : BOOLEAN, pcr : BOOLEAN, base : BOOLEAN], NEW splice,
           NEW hasPcr \in BOOLEAN, NEW di \in BOOLEAN
    PROVE  /\ Settled(r, splice, hasPcr, di) \in [splice : BOOLEAN, pcr : BOOLEAN, base : BOOLEAN]
           /\ Settled(r, splice, hasPcr, di).splice <=> r.splice /\ splice = Silent
           /\ Settled(r, splice, hasPcr, di).pcr <=> r.pcr /\ ~hasPcr
           /\ Settled(r, splice, hasPcr, di).base <=> r.base /\ ~di
<1>1. Settled(r, splice, hasPcr, di) \in [splice : BOOLEAN, pcr : BOOLEAN, base : BOOLEAN]
    BY DEF Settled
<1> QED BY <1>1, Zenon DEF Settled

(* What a packet that is lost leaves to be accounted for.                  *)
LEMMA LostRecord ==
    ASSUME ClockTypes, NEW hasPcr \in BOOLEAN, NEW di \in BOOLEAN, Lost(hasPcr, di)
    PROVE  /\ recent' \in [splice : BOOLEAN, pcr : BOOLEAN, base : BOOLEAN]
           /\ recent'.splice
           /\ recent'.pcr <=> recent.pcr \/ hasPcr
           /\ recent'.base <=> recent.base \/ di
           /\ UNCHANGED <<run, pcr>> /\ charges' = {} /\ faults' # {}
<1>1. recent' = [splice |-> TRUE, pcr |-> recent.pcr \/ hasPcr, base |-> recent.base \/ di]
    BY Zenon DEF Lost
<1>2. recent.pcr \in BOOLEAN /\ recent.base \in BOOLEAN
    BY DEF ClockTypes
<1>3. recent' \in [splice : BOOLEAN, pcr : BOOLEAN, base : BOOLEAN]
    BY <1>1, <1>2
<1>4. faults' # {} /\ charges' = {} /\ UNCHANGED <<run, pcr>>
    BY DEF Lost
<1> QED BY <1>1, <1>3, <1>4, Zenon

(* Every step keeps what is known of the clock.                            *)
LEMMA TimeStep ==
    ASSUME ClockInvariant, [ValNext]_valVars
    PROVE  ClockInvariant'
<1> USE DEF ClockInvariant
<1>t. TypeOK'
    BY CounterStep, TypeStep
<1>r. recent \in [splice : BOOLEAN, pcr : BOOLEAN, base : BOOLEAN]
    BY DEF ClockTypes
<1>1. CASE ArmSplice \/ UNCHANGED valVars
    <2>1. UNCHANGED <<pcr, recent, base, offset, spacing, sentPcr, sent, pendingDiscontinuity>>
        BY <1>1 DEF ArmSplice, valVars, vars, mux, history, sender, validator, record
    <2> QED BY <1>t, <2>1, Zenon DEF ClockTypes, CadenceKnown, OnBase, Spaced
<1>2. CASE NewTimeBase
    <2>1. /\ UNCHANGED <<pcr, recent, offset, sentPcr, sent>>
          /\ spacing' = MaxSpacing /\ base' \in Bases /\ pendingDiscontinuity'
          /\ ~pendingDiscontinuity
        BY <1>2 DEF NewTimeBase, SignalDiscontinuity, history, validator, record
    <2>2. spacing' \in Nat /\ spacing' <= MaxSpacing
        BY <2>1, ClockAssumption
    <2>3. OnBase' /\ Spaced'
        BY <2>1, Zenon DEF OnBase, Spaced
    <2>4. CadenceKnown'
        BY <2>1, <2>2, Zenon DEF CadenceKnown
    <2> QED BY <1>t, <2>1, <2>2, <2>3, <2>4, Zenon DEF ClockTypes
<1>3. ASSUME NEW p \in Packets, NEW hasPcr \in BOOLEAN, NEW splice, NEW r,
             r = recent \/ \E b \in BOOLEAN : r = [recent EXCEPT !.splice = b],
             ClockPacket(p, hasPcr), hasPcr \/ spacing < MaxSpacing,
             WalkPcr(p, hasPcr), recent' = Settled(r, splice, hasPcr, p.di),
             sent' = p, sentPcr' = hasPcr
      PROVE  ClockInvariant'
    <2>1. r \in [splice : BOOLEAN, pcr : BOOLEAN, base : BOOLEAN]
          /\ (r.pcr <=> recent.pcr) /\ (r.base <=> recent.base)
        BY <1>3, <1>r
    <2>2. p.di \in BOOLEAN
        BY DEF Packets
    <2>3. /\ recent' \in [splice : BOOLEAN, pcr : BOOLEAN, base : BOOLEAN]
          /\ recent'.pcr <=> recent.pcr /\ ~hasPcr
          /\ recent'.base <=> recent.base /\ ~p.di
        BY <1>3, <2>1, <2>2, SettledRecord, Zenon
    <2>4. /\ OnBase' /\ Spaced'
          /\ pcr' = [last |-> pcr'.last, anchor |-> pcr'.anchor, pending |-> FALSE]
          /\ \/ pcr'.last = NoPcr /\ pcr'.anchor = NoPcr
             \/ /\ pcr'.last \in Samples /\ pcr'.anchor \in Samples
                /\ pcr'.anchor.at <= pcr'.last.at /\ pcr'.last.at <= offset'
        BY <1>3, <2>3, ClockArrives
    <2>5. spacing' \in Nat /\ spacing' <= MaxSpacing /\ (pendingDiscontinuity => hasPcr)
        BY <1>3, CadenceStep DEF ClockPacket
    <2>6. CadenceKnown'
        BY <1>3, <2>5, Zenon DEF CadenceKnown, ClockPacket
    <2>7. offset' \in Nat /\ base' \in Bases
        BY <1>3 DEF ClockPacket, ClockTypes
    <2> QED BY <1>3, <1>t, <2>3, <2>4, <2>5, <2>6, <2>7, Zenon DEF ClockTypes
<1>4. ASSUME NEW p \in Packets, NEW hasPcr \in BOOLEAN,
             ClockPacket(p, hasPcr), hasPcr \/ spacing < MaxSpacing,
             Lost(hasPcr, p.di), sent' = p, sentPcr' = hasPcr
      PROVE  ClockInvariant'
    <2>1. p.di \in BOOLEAN
        BY DEF Packets
    <2>2. /\ recent' \in [splice : BOOLEAN, pcr : BOOLEAN, base : BOOLEAN]
          /\ recent'.pcr <=> recent.pcr \/ hasPcr
          /\ recent'.base <=> recent.base \/ p.di
          /\ UNCHANGED pcr
        BY <1>4, <2>1, LostRecord
    <2>3. OnBase' /\ Spaced'
        BY <1>4, <2>2, ClockVanishes
    <2>4. spacing' \in Nat /\ spacing' <= MaxSpacing /\ (pendingDiscontinuity => hasPcr)
        BY <1>4, CadenceStep DEF ClockPacket
    <2>5. CadenceKnown'
        BY <1>4, <2>4, Zenon DEF CadenceKnown, ClockPacket
    <2>6. offset' \in Nat /\ base' \in Bases /\ (pcr.last \in Samples /\ pcr.last.at <= offset
              => pcr.last.at <= offset')
        BY <1>4 DEF ClockPacket, ClockTypes, Samples
    <2> QED BY <1>4, <1>t, <2>2, <2>3, <2>4, <2>5, <2>6, Zenon DEF ClockTypes
<1>5. ASSUME NEW hasPcr \in BOOLEAN, PayloadArrives(hasPcr)
      PROVE  ClockInvariant'
    <2> DEFINE p == PayloadPacket(hasPcr)
    <2>1. p \in Packets
        BY DEF TypeOK, PayloadPacket, Packets
    <2>2. /\ StampPayload(hasPcr) /\ sent' = p /\ Sent(hasPcr) /\ WalkPcr(p, hasPcr)
          /\ recent' = Settled(recent, Annotation, hasPcr, p.di)
        BY <1>5, Zenon DEF PayloadArrives, PayloadDelivered, Inspect
    <2>3. ClockPacket(p, hasPcr)
        BY <2>2, PayloadClock
    <2>4. (hasPcr \/ spacing < MaxSpacing) /\ sentPcr' = hasPcr
        BY <2>2, Zenon DEF Sent
    <2> HIDE DEF p
    <2> QED BY <1>3, <2>1, <2>2, <2>3, <2>4
<1>6. ASSUME NEW hasPcr \in BOOLEAN, PayloadVanishes(hasPcr)
      PROVE  ClockInvariant'
    <2> DEFINE p == PayloadPacket(hasPcr)
    <2>1. p \in Packets
        BY DEF TypeOK, PayloadPacket, Packets
    <2>2. StampPayload(hasPcr) /\ sent' = p /\ Sent(hasPcr) /\ Lost(hasPcr, p.di)
        BY <1>6, Zenon DEF PayloadVanishes, PayloadLost
    <2>3. ClockPacket(p, hasPcr)
        BY <2>2, PayloadClock
    <2>4. (hasPcr \/ spacing < MaxSpacing) /\ sentPcr' = hasPcr
        BY <2>2, Zenon DEF Sent
    <2> HIDE DEF p
    <2> QED BY <1>4, <2>1, <2>2, <2>3, <2>4
<1>7. CASE PcrArrives
    <2>1. PcrOnlyPacket \in Packets
        BY CounterRange DEF TypeOK, PcrOnlyPacket, Packets
    <2>2. /\ StampPcrOnly /\ sent' = PcrOnlyPacket /\ Sent(TRUE) /\ WalkPcr(PcrOnlyPacket, TRUE)
          /\ recent' = Settled(recent, Silent, TRUE, PcrOnlyPacket.di)
        BY <1>7, Zenon DEF PcrArrives, PcrOnlyDelivered, Inspect
    <2>3. ClockPacket(PcrOnlyPacket, TRUE) /\ sentPcr' = TRUE
        BY <2>2, PcrOnlyClock DEF Sent
    <2> QED BY <1>3, <2>1, <2>2, <2>3
<1>8. CASE PcrVanishes
    <2>1. PcrOnlyPacket \in Packets
        BY CounterRange DEF TypeOK, PcrOnlyPacket, Packets
    <2>2. StampPcrOnly /\ sent' = PcrOnlyPacket /\ Sent(TRUE) /\ Lost(TRUE, PcrOnlyPacket.di)
        BY <1>8, Zenon DEF PcrVanishes, PcrOnlyLost
    <2>3. ClockPacket(PcrOnlyPacket, TRUE) /\ sentPcr' = TRUE
        BY <2>2, PcrOnlyClock DEF Sent
    <2> QED BY <1>4, <2>1, <2>2, <2>3
<1>9. CASE RepeatArrives
    <2>1. /\ WalkPcr(sent, sentPcr) /\ sent' = sent /\ sentPcr' = sentPcr
          /\ recent' = Settled([recent EXCEPT !.splice = @ \/ RepeatFault # {}],
                               sentSplice, sentPcr, sent.di)
        BY <1>9, Zenon DEF RepeatArrives, Repeat, Inspect
    <2>2. ClockPacket(sent, sentPcr) /\ (sentPcr \/ spacing < MaxSpacing)
        BY <1>9, RepeatClock
    <2>3. sent \in Packets /\ sentPcr \in BOOLEAN
        BY DEF TypeOK, ClockTypes
    <2> DEFINE r == [recent EXCEPT !.splice = @ \/ RepeatFault # {}]
    <2>4. r = [recent EXCEPT !.splice = (recent.splice \/ RepeatFault # {})]
        OBVIOUS
    <2>5. \E b \in BOOLEAN : r = [recent EXCEPT !.splice = b]
        BY <2>4, Zenon
    <2> HIDE DEF r
    <2>6. recent' = Settled(r, sentSplice, sentPcr, sent.di)
        BY <2>1 DEF r
    <2> QED BY <1>3, <2>1, <2>2, <2>3, <2>5, <2>6
<1> QED BY <1>1, <1>2, <1>5, <1>6, <1>7, <1>8, <1>9, Zenon DEF ValNext

(* Unless the signal of a time base was lost, the rate that is reported is *)
(* the rate of the stream, however often the clock wrapped and whatever    *)
(* else was lost (validate.rs: validate_ts).                               *)
THEOREM RateReported == ValSpec => [](ClockTypes /\ RateIsTrue)
<1>1. ClockInvariant => ClockTypes /\ RateIsTrue
    BY OnBaseIsTrueRate DEF ClockInvariant
<1>2. ClockInvariant /\ [ValNext]_valVars => ClockInvariant'
    BY TimeStep
<1> QED BY TimeBegins, <1>1, <1>2, PTL DEF ValSpec

------------------------------------------------------------------------------
(* The splice.                                                             *)

(* An annotation is not silence.                                           *)
LEMMA AnnotationIsCount ==
    ASSUME SpliceTypes
    PROVE  /\ countdown = NoCount => Annotation = Silent
           /\ countdown # NoCount =>
                  /\ Annotation # Silent /\ Annotation.count = countdown
                  /\ countdown >= 0 => Annotation.pair = pair
    BY DEF Annotation, Silent

(* An annotated packet that arrives: the run is at its annotation, which   *)
(* was expected if the run was one packet behind it.                       *)
LEMMA AnnotatedArrives ==
    ASSUME SpliceTypes, NEW p, NEW splice, splice # Silent, splice.count \in Int,
           WalkSplice(p, splice)
    PROVE  /\ run' = [count |-> run'.count, since |-> run'.since, seamless |-> run'.seamless]
           /\ run'.count = splice.count /\ run'.since = 0
           /\ run'.seamless = SeamlessAfter(splice)
<1>1. run' = [count |-> splice.count, since |-> 0, seamless |-> SeamlessAfter(splice)]
    BY Zenon DEF WalkSplice
<1> QED BY <1>1

(* A packet without an annotation that arrives: the run goes on, or is     *)
(* dropped as stale.                                                       *)
LEMMA SilentArrives ==
    ASSUME SpliceTypes, NEW p, WalkSplice(p, Silent)
    PROVE  /\ run'.count \in Int /\ run'.since \in Nat
           /\ run' = [count |-> run'.count, since |-> run'.since, seamless |-> run'.seamless]
           /\ \/ run' = NoRun
              \/ /\ run'.count = run.count
                 /\ ~Counts(p) => run'.since = run.since
                 /\ run'.seamless \in {run.seamless, NoPair}
                 /\ ~Counts(p) => run'.seamless = run.seamless
<1> DEFINE s == IF Counts(p) /\ run.count # NoCount THEN run.since + 1 ELSE run.since
<1>1. s \in Nat /\ (~Counts(p) => s = run.since)
    BY DEF SpliceTypes
<1>2. run' = IF run.count # NoCount /\ Expected(s) < -Stale THEN NoRun
             ELSE [run EXCEPT !.since = s,
                              !.seamless = IF MissedZero(s, Counts(p)) THEN NoPair ELSE @]
    BY Zenon DEF WalkSplice
<1>3. ~Counts(p) => ~MissedZero(s, Counts(p))
    BY Zenon DEF MissedZero
<1> HIDE DEF s
<1>4. CASE run' = NoRun
    <2>1. NoCount \in Int
        BY SpliceAssumption DEF NoCount
    <2> QED BY <1>4, <2>1 DEF NoRun
<1>5. CASE run' # NoRun
    <2> DEFINE m == IF MissedZero(s, Counts(p)) THEN NoPair ELSE run.seamless
    <2>1. m \in {run.seamless, NoPair} /\ (~Counts(p) => m = run.seamless)
        BY <1>3
    <2>2. run' = [run EXCEPT !.since = s, !.seamless = m]
        BY <1>2, <1>5
    <2> HIDE DEF m
    <2>3. run' = [count |-> run.count, since |-> s, seamless |-> m]
        BY <2>2 DEF SpliceTypes
    <2> QED BY <1>1, <2>1, <2>3 DEF SpliceTypes
<1> QED BY <1>4, <1>5

(* The next countdown, and the annotation of the packet that is sent.      *)
LEMMA CountedDown ==
    ASSUME SpliceTypes, CountDown
    PROVE  /\ countdown' \in Int /\ countdown' <= NoCount /\ post' \in Nat
           /\ sentSplice' = Annotation /\ pair' = pair
           /\ countdown = NoCount => countdown' = NoCount
           /\ countdown # NoCount =>
                  \/ countdown' # NoCount /\ countdown' = countdown - 1
                  \/ countdown <= 0 /\ countdown' = NoCount
<1>1. NoCount \in Nat
    BY SpliceAssumption DEF NoCount
<1> QED BY <1>1 DEF CountDown, SpliceTypes

(* What a payload packet leaves of the sender's annotations.               *)
LEMMA AnnotationSent ==
    ASSUME SpliceTypes, CountDown, sent'.payload
    PROVE  AnnotationKnown'
<1>1. countdown \in Int /\ countdown <= MaxRun + 1 /\ NoCount = MaxRun + 1 /\ MaxRun \in Nat
    BY SpliceAssumption DEF SpliceTypes, NoCount
<1>2. NoCount' = NoCount /\ Silent' = Silent
    BY DEF NoCount, Silent, NoPair
<1>3. CASE countdown = NoCount
    BY <1>2, <1>3, CountedDown, AnnotationIsCount DEF AnnotationKnown
<1>4. CASE countdown # NoCount
    <2>1. /\ sentSplice'.count = countdown /\ pair' = pair
          /\ countdown >= 0 => sentSplice'.pair = pair
          /\ \/ countdown' # NoCount /\ countdown' = countdown - 1
             \/ countdown <= 0 /\ countdown' = NoCount
        BY <1>4, CountedDown, AnnotationIsCount
    <2> QED BY <1>1, <1>2, <1>4, <2>1 DEF AnnotationKnown
<1> QED BY <1>3, <1>4

(* A packet that counts and is annotated as the sender counts is charged   *)
(* with its countdown only if something is left to account for.            *)
LEMMA CountNotCharged ==
    ASSUME SpliceTypes, CountKnown, ~recent.splice, countdown # NoCount, NEW p, Counts(p),
           NEW splice, splice.count = countdown
    PROVE  "countdown" \notin SpliceCharges(p, splice)
<1> DEFINE s == IF Counts(p) /\ run.count # NoCount THEN run.since + 1 ELSE run.since
<1>1. run.count \in Int /\ run.since \in Nat /\ countdown \in Int
    BY DEF SpliceTypes
<1>2. ~CountCharged(splice, s)
    <2>1. CASE run.count = NoCount
        BY <2>1 DEF CountCharged
    <2>2. CASE run.count # NoCount /\ run.count <= 0 /\ countdown > 0
        BY <1>1, <2>2 DEF CountCharged, Expected
    <2>3. CASE run.count # NoCount /\ run.count = countdown + 1 /\ run.since = 0
        BY <1>1, <2>3 DEF CountCharged, Expected
    <2> QED BY <2>1, <2>2, <2>3 DEF CountKnown
<1> QED BY <1>2, Zenon DEF SpliceCharges

(* Nor is a repeat that does not count, if the run is at its annotation.   *)
LEMMA RepeatNotCharged ==
    ASSUME SpliceTypes, NEW p, ~Counts(p), NEW splice,
           splice # Silent => run.count = splice.count /\ run.since = 0
    PROVE  "countdown" \notin SpliceCharges(p, splice)
<1>1. CASE splice = Silent
    BY <1>1, Zenon DEF SpliceCharges
<1>2. CASE splice # Silent
    <2>1. ~CountCharged(splice, run.since)
        BY <1>2 DEF CountCharged, Expected, SpliceTypes
    <2> QED BY <1>2, <2>1, Zenon DEF SpliceCharges
<1> QED BY <1>1, <1>2

(* An annotation as the sender counts leaves the run where the next one is *)
(* expected.                                                               *)
LEMMA CountKnownNext ==
    ASSUME AnnotationKnown', sent'.payload, sentSplice' # Silent,
           run'.count = sentSplice'.count, run'.since = 0
    PROVE  CountKnown' /\ RunIsSent'
<1>1. NoCount' = NoCount /\ Silent' = Silent
    BY DEF NoCount, Silent, NoPair
<1>2. RunIsSent'
    BY DEF RunIsSent
<1>3. CountKnown'
    BY <1>1 DEF CountKnown, AnnotationKnown
<1> QED BY <1>2, <1>3

(* A seamless pair is not charged, nor its end missed, in a sound stream.  *)
LEMMA SeamlessNotCharged ==
    ASSUME SpliceTypes, faults = {}, SeamlessKnown, CountKnown,
           NEW p, NEW splice,
           run.count # NoCount /\ run.count > 0 =>
               (splice # Silent => splice.pair = pair) /\ (splice = Silent => ~Counts(p))
    PROVE  "seamless" \notin SpliceCharges(p, splice)
<1>1. run.seamless # NoPair => run.count # NoCount /\ run.count > 0 /\ run.seamless = pair
    BY Zenon DEF SeamlessKnown
<1>2. splice # Silent => ~SeamlessCharged(splice)
    BY <1>1, Zenon DEF SeamlessCharged
<1>3. \A s : splice = Silent => ~MissedZero(s, Counts(p))
    BY <1>1, Zenon DEF MissedZero
<1>4. "countdown" # "seamless"
    OBVIOUS
<1> QED BY <1>2, <1>3, <1>4, Zenon DEF SpliceCharges

(* The seamless pair of the run after an annotation of the splice.         *)
LEMMA SeamlessNext ==
    ASSUME SpliceTypes, faults = {}, SeamlessKnown, NEW splice,
           splice.count \in Int, splice.count > 0 => splice.pair = pair
    PROVE  SeamlessAfter(splice) = IF splice.count > 0 THEN pair ELSE NoPair
<1>1. run.seamless \in {pair, NoPair}
    BY Zenon DEF SeamlessKnown
<1> QED BY <1>1 DEF SeamlessAfter

(* What a packet that arrives is charged with.                             *)
LEMMA ChargesAre ==
    ASSUME NEW p, NEW splice, NEW hasPcr, Inspect(p, splice, hasPcr)
    PROVE  /\ "countdown" \in charges' => "countdown" \in SpliceCharges(p, splice)
           /\ "interval" \in charges' => PcrCharges(p, hasPcr) # {}
           /\ Classify(p).kind # "Dropped" /\ PcrCharges(p, hasPcr) = {}
              /\ "countdown" \notin SpliceCharges(p, splice)
              /\ "seamless" \notin SpliceCharges(p, splice) => charges' = {}
<1>1. charges' = {c \in {"continuity"} : Classify(p).kind = "Dropped"}
                     \cup SpliceCharges(p, splice) \cup PcrCharges(p, hasPcr)
    BY Zenon DEF Inspect
<1>2. SpliceCharges(p, splice) \subseteq {"countdown", "seamless"}
    BY Zenon DEF SpliceCharges
<1>3. PcrCharges(p, hasPcr) \subseteq {"interval"}
    BY Zenon DEF PcrCharges
<1>4. "countdown" # "interval" /\ "countdown" # "continuity" /\ "interval" # "continuity"
      /\ "interval" # "seamless"
    OBVIOUS
<1> QED BY <1>1, <1>2, <1>3, <1>4

(* The splice half of the invariant.                                       *)
SpliceHalf == SpliceTypes /\ AnnotationKnown /\ RunIsSent /\ CountKnown /\ SeamlessKnown

(* What a step that sends a packet may be charged with: the two halves of  *)
(* ChargedOnce.                                                            *)
Accounted ==
    /\ "countdown" \in charges' => recent.splice \/ (RepeatArrives /\ RepeatFault # {})
    /\ "interval" \in charges' => recent.pcr \/ recent.base

(* A new run is armed when the last one is over.                           *)
LEMMA ArmStep ==
    ASSUME 0 \notin Starts, SpliceInvariant, ArmSplice
    PROVE  SpliceHalf'
<1>1. /\ countdown < 0 \/ countdown = NoCount
      /\ UNCHANGED <<vars, sentSplice, run, charges, faults, recent>>
      /\ countdown' \in Starts /\ post' \in Posts
    BY DEF ArmSplice, validator, record
<1>2. countdown' \in Int /\ countdown' > 0 /\ countdown' <= MaxRun /\ NoCount = MaxRun + 1
      /\ MaxRun \in Nat /\ post' \in Nat
    BY <1>1, SpliceAssumption DEF NoCount
<1>3. NoCount' = NoCount /\ Silent' = Silent /\ UNCHANGED <<sent, held>>
    BY <1>1 DEF NoCount, Silent, NoPair, vars, history
<1>t. SpliceTypes /\ AnnotationKnown /\ RunIsSent /\ CountKnown /\ SeamlessKnown
    BY DEF SpliceInvariant
<1>4. SpliceTypes'
    BY <1>1, <1>2, <1>3, <1>t DEF SpliceTypes
<1>5. AnnotationKnown'
    BY <1>1, <1>2, <1>3, <1>t DEF AnnotationKnown
<1>6. RunIsSent'
    BY <1>1, <1>3, <1>t DEF RunIsSent
<1>7. CountKnown'
    <2> SUFFICES ASSUME ~recent.splice, run.count # NoCount PROVE run.count <= 0
        BY <1>1, <1>2, <1>3 DEF CountKnown
    <2> QED BY <1>1, <1>t DEF CountKnown, SpliceTypes
<1>8. SeamlessKnown'
    <2> SUFFICES ASSUME faults = {} PROVE ~(run.count # NoCount /\ run.count > 0)
        BY <1>1, <1>3, <1>t DEF SeamlessKnown, NoPair
    <2>1. ~recent.splice
        BY <1>t DEF SeamlessKnown
    <2> QED BY <1>1, <1>t, <2>1 DEF CountKnown, SpliceTypes
<1> QED BY <1>4, <1>5, <1>6, <1>7, <1>8 DEF SpliceHalf

(* A time base, or nothing, changes nothing of the splice.                 *)
LEMMA QuietStep ==
    ASSUME SpliceInvariant, NewTimeBase \/ UNCHANGED valVars
    PROVE  SpliceHalf'
<1>1. UNCHANGED <<countdown, post, pair, sentSplice, run, charges, faults, recent, sent, held>>
    BY DEF NewTimeBase, SignalDiscontinuity, valVars, vars, history, sender, validator, record
<1>2. NoCount' = NoCount /\ Silent' = Silent
    BY DEF NoCount, Silent, NoPair
<1> QED BY <1>1, <1>2 DEF SpliceHalf, SpliceInvariant, SpliceTypes, AnnotationKnown, RunIsSent,
           CountKnown, SeamlessKnown, NoPair

(* A payload packet arrives.                                               *)
LEMMA PayloadStep ==
    ASSUME SpliceInvariant, NEW hasPcr \in BOOLEAN, PayloadArrives(hasPcr)
    PROVE  SpliceHalf' /\ Accounted
<1> DEFINE p == PayloadPacket(hasPcr)
<1>t. /\ SpliceTypes /\ CountKnown /\ SeamlessKnown /\ TypeOK /\ Anchored
      /\ ClockTypes /\ CadenceKnown /\ OnBase /\ Spaced
    BY DEF SpliceInvariant, ClockInvariant
<1>1. p \in Packets /\ p.payload /\ Counts(p) /\ (missing = 0 => Classify(p).kind # "Dropped")
    BY <1>t, FreshCounts
<1>2. /\ StampPayload(hasPcr) /\ sent' = p /\ Sent(hasPcr) /\ CountDown
      /\ Inspect(p, Annotation, hasPcr) /\ faults' = faults
      /\ recent' = Settled(recent, Annotation, hasPcr, p.di)
    BY Zenon DEF PayloadArrives, PayloadDelivered
<1>3. ClockPacket(p, hasPcr)
    BY <1>2, <1>t, PayloadClock
<1> HIDE DEF p
<1>4. PcrCharges(p, hasPcr) # {} => recent.pcr \/ recent.base
    BY <1>3, <1>t, IntervalCharged
<1>5. recent'.splice <=> recent.splice /\ Annotation = Silent
    <2>1. p.di \in BOOLEAN /\ recent \in [splice : BOOLEAN, pcr : BOOLEAN, base : BOOLEAN]
        BY <1>1, <1>t DEF Packets, ClockTypes
    <2> QED BY <1>2, <2>1, SettledRecord, Zenon
<1>6. WalkSplice(p, Annotation)
    BY <1>2, Zenon DEF Inspect
<1>7. AnnotationKnown'
    BY <1>1, <1>2, <1>t, AnnotationSent
<1>8. NoCount' = NoCount /\ Silent' = Silent /\ NoPair' = NoPair
    BY DEF NoCount, Silent, NoPair
<1>9. /\ countdown' \in Int /\ countdown' <= NoCount /\ post' \in Nat
      /\ sentSplice' = Annotation /\ pair' = pair
    BY <1>2, <1>t, CountedDown
<1>10. faults = {} => /\ recent = [splice |-> FALSE, pcr |-> FALSE, base |-> FALSE]
                      /\ recent' = recent /\ missing = 0
    <2> SUFFICES ASSUME faults = {}
                 PROVE  /\ recent = [splice |-> FALSE, pcr |-> FALSE, base |-> FALSE]
                        /\ recent' = recent /\ missing = 0
        OBVIOUS
    <2>1. recent = [splice |-> FALSE, pcr |-> FALSE, base |-> FALSE]
        BY <1>t DEF SeamlessKnown
    <2>2. recent' = recent
        BY <1>2, <2>1 DEF Settled
    <2>3. missing = 0
        BY <1>t, <2>1 DEF Anchored
    <2> QED BY <2>1, <2>2, <2>3
<1>11. CASE countdown # NoCount
    <2>1. /\ Annotation # Silent /\ Annotation.count = countdown
          /\ countdown >= 0 => Annotation.pair = pair
        BY <1>11, <1>t, AnnotationIsCount
    <2>2. countdown \in Int
        BY <1>t DEF SpliceTypes
    <2>3. /\ run' = [count |-> run'.count, since |-> run'.since, seamless |-> run'.seamless]
          /\ run'.count = countdown /\ run'.since = 0
          /\ run'.seamless = SeamlessAfter(Annotation)
        BY <1>6, <1>t, <2>1, <2>2, AnnotatedArrives
    <2>4. CountKnown' /\ RunIsSent'
        BY <1>1, <1>2, <1>7, <1>8, <1>9, <2>1, <2>3, CountKnownNext
    <2>5. ~recent.splice => "countdown" \notin SpliceCharges(p, Annotation)
        BY <1>1, <1>11, <1>t, <2>1, CountNotCharged
    <2>6. SeamlessKnown'
        <3> SUFFICES ASSUME faults = {}
                     PROVE  /\ run'.seamless = IF run'.count # NoCount /\ run'.count > 0
                                               THEN pair ELSE NoPair
                            /\ charges' = {}
            BY <1>2, <1>8, <1>9, <1>10 DEF SeamlessKnown
        <3>1. run'.seamless = IF countdown > 0 THEN pair ELSE NoPair
            BY <1>t, <2>1, <2>2, <2>3, SeamlessNext
        <3>2. run.count # NoCount /\ run.count > 0 => countdown >= 0
            BY <1>10, <1>11, <1>t DEF CountKnown, SpliceTypes
        <3>3. "seamless" \notin SpliceCharges(p, Annotation)
            BY <1>t, <2>1, <3>2, SeamlessNotCharged
        <3>4. charges' = {}
            BY <1>1, <1>2, <1>4, <1>10, <2>5, <3>3, ChargesAre
        <3> QED BY <1>11, <2>3, <3>1, <3>4
    <2>7. SpliceTypes'
        BY <1>8, <1>9, <2>2, <2>3 DEF SpliceTypes
    <2>8. Accounted
        BY <1>2, <1>4, <2>5, ChargesAre DEF Accounted
    <2> QED BY <1>7, <2>4, <2>6, <2>7, <2>8 DEF SpliceHalf
<1>12. CASE countdown = NoCount
    <2>1. Annotation = Silent /\ countdown' = NoCount
        BY <1>12, <1>2, <1>t, AnnotationIsCount, CountedDown
    <2>2. /\ run'.count \in Int /\ run'.since \in Nat
          /\ run' = [count |-> run'.count, since |-> run'.since, seamless |-> run'.seamless]
          /\ \/ run' = NoRun
             \/ run'.count = run.count /\ run'.seamless \in {run.seamless, NoPair}
        BY <1>6, <1>t, <2>1, SilentArrives
    <2>3. run' = NoRun => run'.count = NoCount /\ run'.seamless = NoPair
        BY DEF NoRun
    <2>4. RunIsSent'
        BY <1>8, <1>9, <2>1 DEF RunIsSent
    <2>5. ~recent.splice => run.count = NoCount \/ run.count <= 0
        BY <1>12, <1>t DEF CountKnown, SpliceTypes, NoCount
    <2>6. CountKnown'
        <3> SUFFICES ASSUME ~recent'.splice
                     PROVE  run'.count = NoCount \/ run'.count <= 0
            BY <1>8, <2>1, Zenon DEF CountKnown
        <3> QED BY <1>5, <2>1, <2>2, <2>3, <2>5
    <2>7. "countdown" \notin SpliceCharges(p, Annotation)
        BY <2>1, Zenon DEF SpliceCharges
    <2>8. SeamlessKnown'
        <3> SUFFICES ASSUME faults = {}
                     PROVE  /\ run'.seamless = NoPair /\ ~(run'.count # NoCount /\ run'.count > 0)
                            /\ charges' = {}
            BY <1>2, <1>8, <1>9, <1>10 DEF SeamlessKnown
        <3>1. ~recent.splice /\ run.count \in Int
            BY <1>10, <1>t DEF SpliceTypes
        <3>2. ~(run.count # NoCount /\ run.count > 0)
            BY <2>5, <3>1
        <3>3. run.seamless = NoPair
            BY <1>t, <3>2 DEF SeamlessKnown
        <3>4. "seamless" \notin SpliceCharges(p, Annotation)
            BY <1>t, <3>2, SeamlessNotCharged
        <3>5. charges' = {}
            BY <1>1, <1>2, <1>4, <1>10, <2>7, <3>4, ChargesAre
        <3> QED BY <2>2, <2>3, <3>2, <3>3, <3>5
    <2>9. SpliceTypes'
        BY <1>8, <1>9, <2>2 DEF SpliceTypes
    <2>10. Accounted
        BY <1>2, <1>4, <2>7, ChargesAre DEF Accounted
    <2> QED BY <1>7, <2>4, <2>6, <2>8, <2>9, <2>10 DEF SpliceHalf
<1> QED BY <1>11, <1>12

(* A packet is lost.                                                       *)
LEMMA LossStep ==
    ASSUME SpliceInvariant, PcrVanishes \/ \E hasPcr \in BOOLEAN : PayloadVanishes(hasPcr)
    PROVE  SpliceHalf' /\ charges' = {}
<1>t. SpliceTypes /\ TypeOK /\ ClockTypes
    BY DEF SpliceInvariant, ClockInvariant
<1>8. NoCount' = NoCount /\ Silent' = Silent /\ NoPair' = NoPair
    BY DEF NoCount, Silent, NoPair
<1>1. ASSUME NEW p, NEW hasPcr \in BOOLEAN, p.di \in BOOLEAN, Lost(hasPcr, p.di), held' = FALSE,
             AnnotationKnown', countdown' \in Int, countdown' <= NoCount, post' \in Nat
      PROVE  SpliceHalf' /\ charges' = {}
    <2>1. recent'.splice /\ run' = run /\ charges' = {} /\ faults' # {}
        BY <1>1, <1>t, LostRecord
    <2>2. SpliceTypes'
        BY <1>1, <1>8, <1>t, <2>1 DEF SpliceTypes
    <2>3. RunIsSent' /\ CountKnown' /\ SeamlessKnown'
        BY <1>1, <2>1, Zenon DEF RunIsSent, CountKnown, SeamlessKnown
    <2> QED BY <1>1, <2>1, <2>2, <2>3 DEF SpliceHalf
<1>2. CASE PcrVanishes
    <2>1. /\ UNCHANGED <<countdown, post>> /\ sent' = PcrOnlyPacket /\ held' = FALSE
          /\ Lost(TRUE, PcrOnlyPacket.di)
        BY <1>2, Zenon DEF PcrVanishes, PcrOnlyLost
    <2>2. PcrOnlyPacket.di \in BOOLEAN /\ ~PcrOnlyPacket.payload
        BY <1>t DEF TypeOK, PcrOnlyPacket
    <2>3. AnnotationKnown'
        BY <2>1, <2>2 DEF AnnotationKnown
    <2> QED BY <1>1, <1>t, <2>1, <2>2, <2>3 DEF SpliceTypes
<1>3. ASSUME NEW hasPcr \in BOOLEAN, PayloadVanishes(hasPcr)
      PROVE  SpliceHalf' /\ charges' = {}
    <2> DEFINE p == PayloadPacket(hasPcr)
    <2>1. sent' = p /\ held' = FALSE /\ CountDown /\ Lost(hasPcr, p.di)
        BY <1>3, Zenon DEF PayloadVanishes, PayloadLost
    <2>2. p.di \in BOOLEAN /\ p.payload
        BY <1>t DEF TypeOK, PayloadPacket
    <2> HIDE DEF p
    <2>3. AnnotationKnown'
        BY <1>t, <2>1, <2>2, AnnotationSent
    <2> QED BY <1>1, <1>t, <2>1, <2>2, <2>3, CountedDown
<1> QED BY <1>2, <1>3

(* A packet without a payload arrives.                                     *)
LEMMA PcrStep ==
    ASSUME SpliceInvariant, PcrArrives
    PROVE  SpliceHalf' /\ Accounted
<1> DEFINE p == PcrOnlyPacket
<1>t. /\ SpliceTypes /\ CountKnown /\ SeamlessKnown /\ TypeOK /\ Anchored
      /\ ClockTypes /\ CadenceKnown /\ OnBase /\ Spaced
    BY DEF SpliceInvariant, ClockInvariant
<1>1. ~p.payload /\ ~Counts(p) /\ Classify(p).kind # "Dropped" /\ p.di \in BOOLEAN
    BY <1>t, PcrOnlyIsQuiet DEF PcrOnlyPacket, TypeOK
<1>2. /\ StampPcrOnly /\ sent' = p /\ Sent(TRUE) /\ UNCHANGED <<countdown, post, pair>>
      /\ Inspect(p, Silent, TRUE) /\ faults' = faults
      /\ recent' = Settled(recent, Silent, TRUE, p.di)
    BY Zenon DEF PcrArrives, PcrOnlyDelivered
<1>3. ClockPacket(p, TRUE)
    BY <1>2, <1>t, PcrOnlyClock
<1> HIDE DEF p
<1>4. PcrCharges(p, TRUE) # {} => recent.pcr \/ recent.base
    BY <1>3, <1>t, IntervalCharged
<1>5. recent'.splice <=> recent.splice
    <2>1. recent \in [splice : BOOLEAN, pcr : BOOLEAN, base : BOOLEAN]
        BY <1>t DEF ClockTypes
    <2> QED BY <1>1, <1>2, <2>1, SettledRecord, Zenon
<1>6. WalkSplice(p, Silent)
    BY <1>2, Zenon DEF Inspect
<1>8. NoCount' = NoCount /\ Silent' = Silent /\ NoPair' = NoPair
    BY DEF NoCount, Silent, NoPair
<1>9. /\ run'.count \in Int /\ run'.since \in Nat
      /\ run' = [count |-> run'.count, since |-> run'.since, seamless |-> run'.seamless]
      /\ \/ run' = NoRun
         \/ run'.count = run.count /\ run'.since = run.since /\ run'.seamless = run.seamless
    BY <1>1, <1>6, <1>t, SilentArrives
<1>10. run' = NoRun => run'.count = NoCount /\ run'.seamless = NoPair
    BY DEF NoRun
<1>11. AnnotationKnown' /\ RunIsSent'
    BY <1>1, <1>2 DEF AnnotationKnown, RunIsSent
<1>12. SpliceTypes'
    BY <1>2, <1>8, <1>9, <1>t DEF SpliceTypes
<1>13. CountKnown'
    BY <1>2, <1>5, <1>8, <1>9, <1>10, <1>t DEF CountKnown
<1>14. "countdown" \notin SpliceCharges(p, Silent)
    BY Zenon DEF SpliceCharges
<1>15. SeamlessKnown'
    <2> SUFFICES ASSUME faults = {}
                 PROVE  /\ run'.seamless = IF run'.count # NoCount /\ run'.count > 0
                                           THEN pair ELSE NoPair
                        /\ recent' = [splice |-> FALSE, pcr |-> FALSE, base |-> FALSE]
                        /\ charges' = {}
        BY <1>2, <1>8 DEF SeamlessKnown
    <2>1. recent = [splice |-> FALSE, pcr |-> FALSE, base |-> FALSE]
        BY <1>t DEF SeamlessKnown
    <2>2. recent' = recent
        BY <1>2, <2>1 DEF Settled
    <2>3. run'.seamless = IF run'.count # NoCount /\ run'.count > 0 THEN pair ELSE NoPair
        BY <1>9, <1>10, <1>t DEF SeamlessKnown
    <2>4. "seamless" \notin SpliceCharges(p, Silent)
        BY <1>1, <1>t, SeamlessNotCharged
    <2>5. charges' = {}
        BY <1>1, <1>2, <1>4, <1>14, <2>1, <2>4, ChargesAre
    <2> QED BY <2>1, <2>2, <2>3, <2>5
<1>16. Accounted
    BY <1>2, <1>4, <1>14, ChargesAre DEF Accounted
<1> QED BY <1>11, <1>12, <1>13, <1>15, <1>16 DEF SpliceHalf

(* A repeat arrives: of a packet that arrived, or of one that was lost.    *)
LEMMA RepeatStep ==
    ASSUME SpliceInvariant, RepeatArrives
    PROVE  SpliceHalf' /\ Accounted
<1> DEFINE r == [recent EXCEPT !.splice = @ \/ RepeatFault # {}]
<1>t. /\ SpliceTypes /\ CountKnown /\ SeamlessKnown /\ AnnotationKnown /\ RunIsSent
      /\ TypeOK /\ Anchored /\ ClockTypes /\ CadenceKnown /\ OnBase /\ Spaced
    BY DEF SpliceInvariant, ClockInvariant
<1>1. /\ sent.payload /\ sent' = sent /\ held' = TRUE
      /\ UNCHANGED <<countdown, post, pair, sentSplice, sentPcr>>
      /\ Inspect(sent, sentSplice, sentPcr) /\ faults' = faults \cup RepeatFault
      /\ recent' = Settled(r, sentSplice, sentPcr, sent.di)
    BY Zenon DEF RepeatArrives, Repeat
<1>2. sent.di \in BOOLEAN /\ sentPcr \in BOOLEAN /\ copies \in Nat /\ held \in BOOLEAN
      /\ recent \in [splice : BOOLEAN, pcr : BOOLEAN, base : BOOLEAN]
    BY <1>t, MaxCopiesAssumption DEF TypeOK, Packets, ClockTypes
<1>3. PcrCharges(sent, sentPcr) # {} => recent.pcr \/ recent.base
    BY <1>t, RepeatClock, IntervalCharged
<1>4. r \in [splice : BOOLEAN, pcr : BOOLEAN, base : BOOLEAN]
      /\ (r.splice <=> recent.splice \/ RepeatFault # {})
      /\ r.pcr = recent.pcr /\ r.base = recent.base
    <2> DEFINE b == recent.splice \/ RepeatFault # {}
    <2>1. b \in BOOLEAN /\ r = [recent EXCEPT !.splice = b]
        OBVIOUS
    <2> HIDE DEF b, r
    <2>2. r \in [splice : BOOLEAN, pcr : BOOLEAN, base : BOOLEAN] /\ r.splice = b
          /\ r.pcr = recent.pcr /\ r.base = recent.base
        BY <1>2, <2>1
    <2> QED BY <2>2, Zenon DEF b
<1> HIDE DEF r
<1>5. recent'.splice <=> (recent.splice \/ RepeatFault # {}) /\ sentSplice = Silent
    BY <1>1, <1>2, <1>4, SettledRecord, Zenon
<1>6. WalkSplice(sent, sentSplice)
    BY <1>1, Zenon DEF Inspect
<1>7. ~recent.splice /\ RepeatFault = {} =>
          held /\ Classify(sent).kind = "Duplicate" /\ ~Counts(sent)
    <2> SUFFICES ASSUME ~recent.splice, RepeatFault = {}
                 PROVE  held /\ Classify(sent).kind = "Duplicate" /\ ~Counts(sent)
        OBVIOUS
    <2>1. held
        BY <1>1, <1>t, Zenon DEF Anchored
    <2>2. ~sent.di /\ ~(copies > 0)
        BY <2>1 DEF RepeatFault
    <2>3. copies = 0
        BY <1>2, <2>2
    <2> QED BY <1>1, <1>t, <2>1, <2>2, <2>3, FirstRepeat
<1>8. NoCount' = NoCount /\ Silent' = Silent /\ NoPair' = NoPair
    BY DEF NoCount, Silent, NoPair
<1>9. AnnotationKnown'
    BY <1>1, <1>8, <1>t DEF AnnotationKnown
<1>10. ~recent.splice /\ RepeatFault = {} =>
           "countdown" \notin SpliceCharges(sent, sentSplice)
    BY <1>1, <1>7, <1>t, RepeatNotCharged DEF RunIsSent
<1>11. Accounted
    BY <1>1, <1>3, <1>10, ChargesAre, Zenon DEF Accounted
<1>12. faults' = {} => /\ faults = {} /\ RepeatFault = {} /\ recent' = recent /\ ~recent.splice
                       /\ recent = [splice |-> FALSE, pcr |-> FALSE, base |-> FALSE]
    <2> SUFFICES ASSUME faults' = {}
                 PROVE  /\ faults = {} /\ RepeatFault = {} /\ recent' = recent /\ ~recent.splice
                        /\ recent = [splice |-> FALSE, pcr |-> FALSE, base |-> FALSE]
        OBVIOUS
    <2>1. faults = {} /\ RepeatFault = {}
        BY <1>1
    <2>2. recent = [splice |-> FALSE, pcr |-> FALSE, base |-> FALSE]
        BY <1>t, <2>1 DEF SeamlessKnown
    <2>3. r = recent
        <3>1. r.splice = FALSE /\ r.pcr = FALSE /\ r.base = FALSE
            BY <1>4, <2>1, <2>2
        <3>2. r = [splice |-> r.splice, pcr |-> r.pcr, base |-> r.base]
            BY <1>4
        <3> QED BY <3>1, <3>2, <2>2, Zenon
    <2>4. recent' = recent
        BY <1>1, <2>2, <2>3 DEF Settled
    <2> QED BY <2>1, <2>2, <2>4
<1>13. CASE sentSplice # Silent
    <2>1. sentSplice.count \in Int /\ sentSplice.count <= MaxRun
          /\ (sentSplice.count > 0 => sentSplice.pair = pair)
        BY <1>1, <1>13, <1>t DEF AnnotationKnown
    <2>2. /\ run' = [count |-> run'.count, since |-> run'.since, seamless |-> run'.seamless]
          /\ run'.count = sentSplice.count /\ run'.since = 0
          /\ run'.seamless = SeamlessAfter(sentSplice)
        BY <1>6, <1>13, <1>t, <2>1, AnnotatedArrives
    <2>3. CountKnown' /\ RunIsSent'
        BY <1>1, <1>8, <1>9, <1>13, <2>2, CountKnownNext
    <2>4. SpliceTypes'
        BY <1>1, <1>8, <1>t, <2>1, <2>2 DEF SpliceTypes
    <2>5. SeamlessKnown'
        <3> SUFFICES ASSUME faults' = {}
                     PROVE  /\ run'.seamless = IF run'.count # NoCount /\ run'.count > 0
                                               THEN pair ELSE NoPair
                            /\ charges' = {}
            BY <1>1, <1>8, <1>12 DEF SeamlessKnown
        <3>1. run'.seamless = IF sentSplice.count > 0 THEN pair ELSE NoPair
            BY <1>12, <1>t, <2>1, <2>2, SeamlessNext
        <3>2. run.count = sentSplice.count
            BY <1>1, <1>7, <1>12, <1>13, <1>t DEF RunIsSent
        <3>3. "seamless" \notin SpliceCharges(sent, sentSplice)
            BY <1>12, <1>13, <1>t, <2>1, <3>2, SeamlessNotCharged
        <3>4. charges' = {}
            <4>1. Classify(sent).kind # "Dropped"
                BY <1>7, <1>12
            <4> QED BY <1>1, <1>3, <1>10, <1>12, <3>3, <4>1, ChargesAre
        <3>5. sentSplice.count # NoCount
            BY <2>1, SpliceAssumption DEF NoCount
        <3> QED BY <2>2, <3>1, <3>4, <3>5
    <2> QED BY <1>9, <1>11, <2>3, <2>4, <2>5 DEF SpliceHalf
<1>14. CASE sentSplice = Silent
    <2>1. /\ run'.count \in Int /\ run'.since \in Nat
          /\ run' = [count |-> run'.count, since |-> run'.since, seamless |-> run'.seamless]
          /\ \/ run' = NoRun
             \/ /\ run'.count = run.count
                /\ ~Counts(sent) => run'.since = run.since /\ run'.seamless = run.seamless
        BY <1>6, <1>14, <1>t, SilentArrives
    <2>2. run' = NoRun => run'.count = NoCount /\ run'.seamless = NoPair
        BY DEF NoRun
    <2>3. RunIsSent'
        BY <1>1, <1>8, <1>14 DEF RunIsSent
    <2>4. SpliceTypes'
        BY <1>1, <1>8, <1>t, <2>1 DEF SpliceTypes
    <2>5. CountKnown'
        <3> SUFFICES ASSUME ~recent'.splice PROVE CountKnown'
            BY DEF CountKnown
        <3>1. ~recent.splice /\ ~Counts(sent)
            BY <1>5, <1>7, <1>14
        <3> QED BY <1>1, <1>8, <1>t, <2>1, <2>2, <3>1 DEF CountKnown
    <2>6. SeamlessKnown'
        <3> SUFFICES ASSUME faults' = {}
                     PROVE  /\ run'.seamless = IF run'.count # NoCount /\ run'.count > 0
                                               THEN pair ELSE NoPair
                            /\ charges' = {}
            BY <1>1, <1>8, <1>12 DEF SeamlessKnown
        <3>1. ~Counts(sent) /\ Classify(sent).kind # "Dropped"
            BY <1>7, <1>12
        <3>2. run'.seamless = IF run'.count # NoCount /\ run'.count > 0 THEN pair ELSE NoPair
            BY <1>12, <1>t, <2>1, <2>2, <3>1 DEF SeamlessKnown
        <3>3. "seamless" \notin SpliceCharges(sent, sentSplice)
            BY <1>12, <1>14, <1>t, <3>1, SeamlessNotCharged
        <3>4. charges' = {}
            BY <1>1, <1>3, <1>10, <1>12, <3>1, <3>3, ChargesAre
        <3> QED BY <3>2, <3>4
    <2> QED BY <1>9, <1>11, <2>3, <2>4, <2>5, <2>6 DEF SpliceHalf
<1> QED BY <1>13, <1>14

(* The invariant is inductive.                                             *)
LEMMA SpliceStep ==
    ASSUME 0 \notin Starts, SpliceInvariant, [ValNext]_valVars
    PROVE  SpliceInvariant'
<1>1. ClockInvariant' /\ Anchored'
    BY TimeStep, AnchoredStep DEF SpliceInvariant, ClockInvariant
<1>2. SpliceHalf'
    BY ArmStep, QuietStep, PayloadStep, LossStep, PcrStep, RepeatStep DEF ValNext
<1> QED BY <1>1, <1>2 DEF SpliceInvariant, SpliceHalf

(* The invariant holds of a stream that begins.                            *)
LEMMA SpliceBegins == ValInit => SpliceInvariant
<1> SUFFICES ASSUME ValInit PROVE SpliceInvariant
    OBVIOUS
<1>1. ClockInvariant
    BY TimeBegins
<1>2. /\ countdown = NoCount /\ post = 0 /\ run = NoRun /\ sentSplice = Silent
      /\ sent = NoPacket /\ lastPayloadCC = NoCC /\ missing = 0 /\ faults = {} /\ charges = {}
      /\ recent = [splice |-> FALSE, pcr |-> FALSE, base |-> FALSE]
    BY DEF ValInit, Init
<1>3. NoCount \in Nat
    BY SpliceAssumption DEF NoCount
<1>4. SpliceTypes
    BY <1>2, <1>3 DEF SpliceTypes, NoRun
<1>5. Anchored
    BY <1>2 DEF Anchored, AnchorTracksSender, NoPacket
<1>6. AnnotationKnown /\ RunIsSent
    BY <1>2 DEF AnnotationKnown, RunIsSent, NoPacket
<1>7. CountKnown /\ SeamlessKnown
    BY <1>2 DEF CountKnown, SeamlessKnown, NoRun
<1> QED BY <1>1, <1>4, <1>5, <1>6, <1>7 DEF SpliceInvariant

(* A stream nothing happened to is charged with nothing: not for its       *)
(* counters, its countdowns, its seamless pairs or its PCRs, whatever runs *)
(* and time bases the sender signals, if no run starts at its own splicing *)
(* point (validate.rs: validate_ts; muxer.rs: signal_splice_after,         *)
(* signal_time_base_discontinuity, write_pes_bytes_as_ts).                 *)
THEOREM SoundStreamIsClean ==
    ASSUME 0 \notin Starts
    PROVE  ValSpec => []SoundIsClean
<1>1. SpliceInvariant => SoundIsClean
    BY DEF SpliceInvariant, SeamlessKnown, SoundIsClean
<1>2. SpliceInvariant /\ [ValNext]_valVars => SpliceInvariant'
    BY SpliceStep
<1> QED BY SpliceBegins, <1>1, <1>2, PTL DEF ValSpec

(* And of a stream faults happened to, each is charged once: a countdown   *)
(* only by the first annotated packet behind a loss, or a repeat too many  *)
(* itself, an interval only behind a lost PCR or signal of a time base     *)
(* (validate.rs: validate_ts).                                             *)
THEOREM FaultsChargedOnce ==
    ASSUME 0 \notin Starts
    PROVE  ValSpec => ChargedOnce
<1> DEFINE Once == offset' # offset =>
                      /\ "countdown" \in charges' =>
                             recent.splice \/ (RepeatArrives /\ RepeatFault # {})
                      /\ "interval" \in charges' => recent.pcr \/ recent.base
<1>1. SpliceInvariant /\ [ValNext]_valVars => SpliceInvariant' /\ [Once]_valVars
    <2> SUFFICES ASSUME SpliceInvariant, [ValNext]_valVars, offset' # offset
                 PROVE  Accounted
        BY SpliceStep DEF Accounted
    <2>1. ~(ArmSplice \/ NewTimeBase \/ UNCHANGED valVars)
        BY DEF ArmSplice, NewTimeBase, valVars, sender
    <2>2. CASE PcrVanishes \/ \E hasPcr \in BOOLEAN : PayloadVanishes(hasPcr)
        BY <2>2, LossStep DEF Accounted
    <2> QED BY <2>1, <2>2, PayloadStep, PcrStep, RepeatStep DEF ValNext
<1>2. SpliceInvariant /\ [ValNext]_valVars => [Once]_valVars
    BY <1>1
<1>3. SpliceInvariant /\ [ValNext]_valVars => SpliceInvariant'
    BY SpliceStep
<1>4. ValSpec => [][Once]_valVars
    BY SpliceBegins, <1>2, <1>3, PTL DEF ValSpec
<1> QED BY <1>4 DEF ChargedOnce

------------------------------------------------------------------------------

(* Every non-empty set of natural numbers has a least element: induction   *)
(* over the PCRs of a stream, in the form the provers can use.             *)
LEMMA LeastElement ==
    ASSUME NEW S, S \subseteq Nat, S # {}
    PROVE  \E x \in S : \A y \in S : x <= y
<1>1. PICK x \in S : \A y \in S : <<y, x>> \notin OpToRel(<, Nat)
    BY NatLessThanWellFounded, WFMin, Zenon
<1>2. ASSUME NEW y \in S PROVE <<y, x>> \in Nat \X Nat
    OBVIOUS
<1>3. ASSUME NEW y \in S PROVE ~ (y < x)
    BY <1>1, <1>2, Zenon DEF OpToRel
<1>4. ASSUME NEW y \in S PROVE x <= y
    BY <1>3
<1> QED BY <1>4

(* Quotient and residue.                                                   *)
LEMMA Division ==
    ASSUME NEW m \in Nat, m > 0, NEW x \in Int
    PROVE  /\ x % m \in 0 .. m - 1 /\ x \div m \in Int /\ (x \div m) * m \in Int
           /\ x = ((x \div m) * m) + (x % m)
           /\ x >= 0 => x \div m >= 0
    OBVIOUS

LEMMA Apart ==
    ASSUME NEW m \in Nat, m > 0, NEW p \in Int, NEW q \in Int, p < q
    PROVE  /\ p * m \in Int /\ q * m \in Int /\ (p * m) + m <= q * m
           /\ p + 1 < q => (p * m) + 2 * m <= q * m
<1>1. (q - p) * m >= m
    OBVIOUS
<1>2. p + 1 < q => (q - p) * m >= 2 * m
    OBVIOUS
<1>3. q * m = p * m + (q - p) * m
    OBVIOUS
<1>4. p * m \in Int /\ q * m \in Int /\ (q - p) * m \in Int
    OBVIOUS
<1> QED BY <1>1, <1>2, <1>3, <1>4

LEMMA OnlyDivision ==
    ASSUME NEW m \in Nat, m > 0, NEW x \in Int, NEW q \in Int, NEW r \in 0 .. m - 1,
           x = (q * m) + r
    PROVE  x % m = r /\ x \div m = q
<1>1. q * m \in Int
    OBVIOUS
<1> DEFINE k == x \div m
           s == x % m
<1>2. k \in Int /\ k * m \in Int /\ s \in 0 .. m - 1 /\ x = (k * m) + s
    BY Division
<1> HIDE DEF k, s
<1>3. ~ (q < k)
    BY <1>1, <1>2, Apart
<1>4. ~ (k < q)
    BY <1>1, <1>2, Apart
<1>5. q = k
    BY <1>2, <1>3, <1>4
<1>6. k * m = q * m
    BY <1>5
<1>7. s = r
    BY <1>1, <1>2, <1>6
<1> QED BY <1>5, <1>7 DEF k, s

LEMMA ExactDivision ==
    ASSUME NEW m \in Nat, m > 0, NEW c \in Int
    PROVE  (m * c) \div m = c /\ (c * m) \div m = c
<1>1. c * m \in Int /\ c * m = (c * m) + 0 /\ m * c = c * m /\ 0 \in 0 .. m - 1
    OBVIOUS
<1> QED BY <1>1, OnlyDivision

(* What the constants of the two clocks are.                               *)
LEMMA ClockNumbers ==
    /\ M \in Nat /\ M > 0 /\ Ratio \in Nat /\ Ratio > 0
    /\ C!Modulus27 = Ratio * M /\ C!Modulus27 \in Nat /\ C!Modulus27 > 0
    /\ \A p \in Phases : p \in Nat
    /\ \A gap \in Gaps : gap \in Nat /\ gap > 0
    /\ \A pace \in Paces : pace \in Nat /\ pace > 0
    /\ \A a \in Leads : a \in Int
<1>1. M \in Nat /\ M > 0 /\ Ratio \in Nat /\ Ratio > 0
    BY PcrAssumption DEF C!PaceAssumption
<1>2. Ratio * M \in Nat /\ Ratio * M > 0
    BY <1>1
<1> QED BY <1>1, <1>2, PcrAssumption DEF C!PaceAssumption, C!Modulus27

LEMMA Intervals ==
    ASSUME NEW gap \in Gaps, NEW pace \in Paces
    PROVE  /\ gap * pace \in Nat /\ gap * pace > 0 /\ gap * pace < C!Modulus27
           /\ \E g \in Nat : /\ gap * pace <= g * Ratio
                             /\ \A a \in Leads : -M < 2 * a /\ 2 * (a + g) < M
<1>1. gap \in Nat /\ gap > 0 /\ pace \in Nat /\ pace > 0 /\ M \in Nat
    BY ClockNumbers
<1>2. gap * pace \in Nat /\ gap * pace > 0
    BY <1>1
<1>3. /\ gap * pace < Ratio * M
      /\ \E g \in 0 .. M : /\ gap * pace <= g * Ratio
                           /\ \A a \in Leads : -M < 2 * a /\ 2 * (a + g) < M
    BY PcrAssumption DEF C!PaceAssumption
<1>4. \A g \in 0 .. M : g \in Nat
    BY <1>1
<1> QED BY <1>2, <1>3, <1>4, ClockNumbers

(* extend_near: a time less than half a turn from the reference is found   *)
(* again.                                                                  *)
LEMMA NearIsExact ==
    ASSUME NEW x \in Nat, NEW near \in Nat, 2 * (x - near) < M, 2 * (near - x) < M
    PROVE  C!ExtendNear(x % M, near) = x
<1> DEFINE raw   == x % M
           true  == x \div M
           epoch == near \div M
           cand  == {IF epoch = 0 THEN 0 ELSE epoch - 1, epoch, epoch + 1}
           times == {k * M + raw : k \in cand}
<1>1. M \in Nat /\ M > 0
    BY ClockNumbers
<1>2. /\ raw \in 0 .. M - 1 /\ true \in Int /\ true >= 0 /\ true * M \in Int
      /\ x = (true * M) + raw
    BY <1>1, Division
<1>3. /\ epoch \in Int /\ epoch >= 0 /\ epoch * M \in Int
      /\ epoch * M <= near /\ near < (epoch * M) + M
    BY <1>1, Division
<1>4. \A k \in cand : k \in Int
    BY <1>3
<1>5. true \in cand
    <2>1. ~ (epoch + 1 < true)
        <3> SUFFICES ASSUME epoch + 1 < true PROVE FALSE
            OBVIOUS
        <3> HIDE DEF epoch, true, raw
        <3>1. (epoch * M) + 2 * M <= true * M
            BY <1>1, <1>2, <1>3, Apart
        <3> QED BY <1>1, <1>2, <1>3, <3>1
    <2>2. ~ (true + 1 < epoch)
        <3> SUFFICES ASSUME true + 1 < epoch PROVE FALSE
            OBVIOUS
        <3> HIDE DEF epoch, true, raw
        <3>1. (true * M) + 2 * M <= epoch * M
            BY <1>1, <1>2, <1>3, Apart
        <3> QED BY <1>1, <1>2, <1>3, <3>1
    <2>3. true \in Int /\ true >= 0 /\ epoch \in Int /\ epoch >= 0
        BY <1>2, <1>3
    <2> HIDE DEF true, epoch
    <2> QED BY <2>1, <2>2, <2>3
<1>6. x \in times
    BY <1>2, <1>5
<1>7. ASSUME NEW f \in times, f # x
      PROVE  C!Distance(x, near) < C!Distance(f, near)
             /\ C!Distance(x, near) \in Int /\ C!Distance(f, near) \in Int
    <2>1. PICK k \in cand : f = k * M + raw
        OBVIOUS
    <2>2. k \in Int
        BY <1>4
    <2>3. k * M \in Int
        BY <1>1, <2>2
    <2>4. k < true \/ true < k
        <3>1. k # true
            BY <1>7, <2>1, <1>2
        <3> HIDE DEF true
        <3> QED BY <3>1, <2>2, <1>2
    <2> HIDE DEF true, raw, cand, times, epoch
    <2>5. (k * M) + M <= true * M \/ (true * M) + M <= k * M
        BY <1>1, <1>2, <2>2, <2>4, Apart
    <2> DEFINE c == k * M
               d == true * M
    <2>6. /\ c \in Int /\ d \in Int /\ (c + M <= d \/ d + M <= c) /\ f = c + raw /\ x = d + raw
          /\ raw \in Int
        BY <1>2, <2>1, <2>3, <2>5
    <2> HIDE DEF c, d
    <2> QED BY <1>1, <2>6 DEF C!Distance
<1>8. C!ExtendNear(raw, near) =
          CHOOSE e \in times : \A f \in times :
              \/ C!Distance(e, near) < C!Distance(f, near)
              \/ C!Distance(e, near) = C!Distance(f, near) /\ e <= f
    BY DEF C!ExtendNear
<1> HIDE DEF times, raw
<1>9. \A f \in times : \/ C!Distance(x, near) < C!Distance(f, near)
                       \/ C!Distance(x, near) = C!Distance(f, near) /\ x <= f
    BY <1>7
<1>10. ASSUME NEW e \in times, e # x,
              \A f \in times : \/ C!Distance(e, near) < C!Distance(f, near)
                               \/ C!Distance(e, near) = C!Distance(f, near) /\ e <= f
       PROVE  FALSE
    BY <1>6, <1>7, <1>10
<1>11. C!ExtendNear(raw, near) = x
    BY <1>6, <1>8, <1>9, <1>10
<1> QED BY <1>11 DEF raw

(* What the clock went on by since a time it is known from, when that is   *)
(* less than a turn ago.                                                   *)
LEMMA ForwardIsExact ==
    ASSUME NEW x \in Nat, NEW d \in Nat, d < C!Modulus27, NEW y \in Int, NEW q \in Int,
           x = y - (q * C!Modulus27)
    PROVE  C!Forward(x, (y + d) % C!Modulus27) = d
<1> DEFINE m == C!Modulus27
           e == x % m
           i == x \div m
           r == (y + d) % m
           j == (y + d) \div m
           k == (q + i) + (1 - j)
<1>1. m \in Nat /\ m > 0
    BY ClockNumbers
<1>2. e \in 0 .. m - 1 /\ i \in Int /\ i * m \in Int /\ x = (i * m) + e
    BY <1>1, Division
<1>3. r \in 0 .. m - 1 /\ j \in Int /\ j * m \in Int /\ y + d = (j * m) + r
    <2> HIDE DEF m
    <2>1. y + d \in Int
        OBVIOUS
    <2> QED BY <1>1, <2>1, Division
<1>4. d < m /\ x = y - (q * m)
    OBVIOUS
<1>5. C!Forward(x, r) = ((r + m) - e) % m
    BY <1>1, <1>2, <1>3 DEF C!Forward
<1> HIDE DEF m, e, i, r, j
<1>6. k \in Int /\ k * m = ((q * m) + (i * m)) + (m - (j * m)) /\ q * m \in Int /\ k * m \in Int
    BY <1>1, <1>2, <1>3
<1> HIDE DEF k
<1>7. (r + m) - e = (k * m) + d /\ (r + m) - e \in Int /\ d \in 0 .. m - 1
    BY <1>1, <1>2, <1>3, <1>4, <1>6
<1>8. ((r + m) - e) % m = d
    BY <1>1, <1>6, <1>7, OnlyDivision
<1> QED BY <1>5, <1>8 DEF r, m

------------------------------------------------------------------------------
(* The PCRs of a stream.                                                   *)

(* PCR k came gap bytes after the one before, at pace ticks a byte.        *)
Paced(k, gap, pace) ==
    /\ samples[k].pos = samples[k - 1].pos + gap
    /\ arrived[k].time = arrived[k - 1].time + gap * pace

(* It came as the code of ArrivalClock assumes: in front of a new time     *)
(* base at the pace before it, and on the time base of the one before      *)
(* unless it says otherwise.                                               *)
SampleOK(k) ==
    /\ \E gap \in Gaps, pace \in Paces :
           /\ Paced(k, gap, pace)
           /\ samples[k].disc /\ k > 2 => \E before \in Gaps : Paced(k - 1, before, pace)
    /\ ~samples[k].disc => arrived[k].phase = arrived[k - 1].phase

SamplesOK ==
    /\ samples \in Seq([pos : Nat, disc : BOOLEAN, raw : Nat])
    /\ arrived \in Seq([time : Nat, phase : Nat])
    /\ Len(arrived) = Len(samples)
    /\ \A k \in 1 .. Len(samples) :
           samples[k].raw = (arrived[k].time + arrived[k].phase) % C!Modulus27
    /\ \A k \in 2 .. Len(samples) : SampleOK(k)

SenderOK ==
    /\ flagged \in BOOLEAN /\ phase \in Phases
    /\ samples # << >> =>
           /\ arrived[1].time = 0
           /\ ~flagged => phase = arrived[Len(samples)].phase

(* The inductive invariant.                                                *)
ClockHeld == SamplesOK /\ SenderOK

LEMMA SampleTypes ==
    ASSUME SamplesOK, NEW k \in 1 .. Len(samples)
    PROVE  /\ samples[k].pos \in Nat /\ samples[k].disc \in BOOLEAN /\ samples[k].raw \in Nat
           /\ arrived[k].time \in Nat /\ arrived[k].phase \in Nat
           /\ samples[k].raw = (arrived[k].time + arrived[k].phase) % C!Modulus27
<1>1. samples[k] \in [pos : Nat, disc : BOOLEAN, raw : Nat]
    BY ElementOfSeq, Zenon DEF SamplesOK
<1>2. arrived[k] \in [time : Nat, phase : Nat]
    BY ElementOfSeq, Zenon DEF SamplesOK
<1> QED BY <1>1, <1>2 DEF SamplesOK

(* The gap and the pace are those of the PCR.                              *)
LEMMA OnePace ==
    ASSUME SamplesOK, NEW k \in 2 .. Len(samples),
           NEW g1 \in Gaps, NEW p1 \in Paces, Paced(k, g1, p1),
           NEW g2 \in Gaps, NEW p2 \in Paces, Paced(k, g2, p2)
    PROVE  g1 = g2 /\ p1 = p2
<1>1. Len(samples) \in Nat
    BY DEF SamplesOK
<1>2. k \in 1 .. Len(samples) /\ k - 1 \in 1 .. Len(samples)
    BY <1>1
<1>3. /\ g1 \in Nat /\ g1 > 0 /\ p1 \in Nat /\ g2 \in Nat /\ g2 > 0 /\ p2 \in Nat
      /\ g1 * p1 \in Nat /\ g2 * p2 \in Nat
    BY ClockNumbers, Intervals
<1>4. samples[k - 1].pos \in Nat /\ arrived[k - 1].time \in Nat
    BY <1>2, SampleTypes
<1>5. g1 = g2
    BY <1>3, <1>4 DEF Paced
<1>6. g1 * p1 = g2 * p2
    BY <1>3, <1>4 DEF Paced
<1>7. (g1 * p1) \div g1 = p1 /\ (g1 * p2) \div g1 = p2
    BY <1>3, ExactDivision
<1> QED BY <1>5, <1>6, <1>7

LEMMA SampleAppended ==
    ASSUME SamplesOK, NEW pos \in Nat, NEW disc \in BOOLEAN, NEW time \in Nat, NEW ph \in Nat,
           NEW last, last = Len(samples) + 1, Len(samples) > 0 => SampleOK(last)',
           samples' = Append(samples, [pos |-> pos, disc |-> disc,
                                       raw |-> (time + ph) % C!Modulus27]),
           arrived' = Append(arrived, [time |-> time, phase |-> ph])
    PROVE  /\ SamplesOK'
           /\ Len(samples') = Len(samples) + 1
           /\ arrived'[Len(samples')].phase = ph
           /\ IF samples = << >> THEN arrived'[1].time = time
              ELSE arrived'[1].time = arrived[1].time
<1> DEFINE n == Len(samples)
           raw == (time + ph) % C!Modulus27
           s == [pos |-> pos, disc |-> disc, raw |-> raw]
           a == [time |-> time, phase |-> ph]
<1>1. raw \in Nat
    <2>1. time + ph \in Int
        OBVIOUS
    <2>2. raw \in 0 .. C!Modulus27 - 1
        BY <2>1, ClockNumbers, Division
    <2> QED BY <2>2, ClockNumbers
<1> HIDE DEF raw
<1>2. /\ s \in [pos : Nat, disc : BOOLEAN, raw : Nat] /\ a \in [time : Nat, phase : Nat]
      /\ s.raw = raw /\ a.time = time /\ a.phase = ph
    BY <1>1
<1>3. samples' = Append(samples, s) /\ arrived' = Append(arrived, a)
    BY DEF raw
<1> HIDE DEF s, a
<1>4. /\ samples \in Seq([pos : Nat, disc : BOOLEAN, raw : Nat])
      /\ arrived \in Seq([time : Nat, phase : Nat]) /\ Len(arrived) = n /\ n \in Nat
    BY DEF SamplesOK
<1>5. /\ samples' \in Seq([pos : Nat, disc : BOOLEAN, raw : Nat])
      /\ arrived' \in Seq([time : Nat, phase : Nat])
      /\ Len(samples') = n + 1 /\ Len(arrived') = n + 1
      /\ \A k \in 1 .. n : samples'[k] = samples[k] /\ arrived'[k] = arrived[k]
      /\ samples'[n + 1] = s /\ arrived'[n + 1] = a
    <2>1. /\ samples' \in Seq([pos : Nat, disc : BOOLEAN, raw : Nat]) /\ Len(samples') = n + 1
          /\ \A k \in 1 .. n : samples'[k] = samples[k]
          /\ samples'[n + 1] = s
        BY <1>2, <1>3, <1>4, AppendProperties
    <2>2. /\ arrived' \in Seq([time : Nat, phase : Nat]) /\ Len(arrived') = n + 1
          /\ \A k \in 1 .. n : arrived'[k] = arrived[k]
          /\ arrived'[n + 1] = a
        BY <1>2, <1>3, <1>4, AppendProperties
    <2> QED BY <2>1, <2>2
<1> HIDE DEF n
<1>6. C!Modulus27' = C!Modulus27
    BY DEF C!Modulus27
<1>7. ASSUME NEW k \in 1 .. n + 1
      PROVE  samples'[k].raw = (arrived'[k].time + arrived'[k].phase) % C!Modulus27
    <2>1. CASE k = n + 1
        BY <2>1, <1>2, <1>5 DEF raw
    <2>2. CASE k # n + 1
        <3>1. k \in 1 .. n
            BY <2>2, <1>4
        <3> QED BY <3>1, <1>5 DEF SamplesOK, n
    <2> QED BY <2>1, <2>2
<1>8. ASSUME NEW k \in 2 .. n + 1
      PROVE  SampleOK(k)'
    <2>1. CASE k = n + 1
        <3>1. Len(samples) > 0 /\ k = last
            BY <2>1, <1>4 DEF n
        <3> QED BY <3>1
    <2>2. CASE k # n + 1
        <3>1. k \in 2 .. n /\ k \in 1 .. n /\ k - 1 \in 1 .. n
            BY <2>2, <1>4
        <3>2. SampleOK(k)
            BY <3>1 DEF SamplesOK, n
        <3>3. /\ samples'[k] = samples[k] /\ samples'[k - 1] = samples[k - 1]
              /\ arrived'[k] = arrived[k] /\ arrived'[k - 1] = arrived[k - 1]
            BY <3>1, <1>5
        <3>4. k > 2 => /\ samples'[(k - 1) - 1] = samples[(k - 1) - 1]
                       /\ arrived'[(k - 1) - 1] = arrived[(k - 1) - 1]
            <4>1. k > 2 => (k - 1) - 1 \in 1 .. n
                BY <3>1, <1>4
            <4> QED BY <4>1, <1>5
        <3>5. \A gap, pace : Paced(k, gap, pace) => Paced(k, gap, pace)'
            BY <3>3 DEF Paced
        <3>6. k > 2 => \A gap, pace : Paced(k - 1, gap, pace) => Paced(k - 1, gap, pace)'
            BY <3>3, <3>4 DEF Paced
        <3> QED BY <3>2, <3>3, <3>5, <3>6 DEF SampleOK
    <2> QED BY <2>1, <2>2
<1>9. SamplesOK'
    BY <1>5, <1>6, <1>7, <1>8 DEF SamplesOK
<1>10. arrived'[Len(samples')].phase = ph
    BY <1>2, <1>5
<1>11. CASE samples = << >>
    <2>1. n = 0
        BY <1>11 DEF n
    <2> QED BY <2>1, <1>2, <1>5, <1>9, <1>10, <1>11 DEF n
<1>12. CASE samples # << >>
    <2>1. 1 \in 1 .. n
        BY <1>4, <1>12 DEF n
    <2> QED BY <2>1, <1>5, <1>9, <1>10, <1>12 DEF n
<1> QED BY <1>11, <1>12

LEMMA ClockBegins == C!ClockInit => ClockHeld
<1> SUFFICES ASSUME C!ClockInit PROVE ClockHeld
    OBVIOUS
<1>1. samples = << >> /\ arrived = << >> /\ flagged = FALSE /\ phase \in Phases
    BY DEF C!ClockInit
<1>2. \A k \in 1 .. 0 : FALSE
    OBVIOUS
<1>3. \A k \in 2 .. 0 : FALSE
    OBVIOUS
<1>4. Len(samples) = 0 /\ Len(arrived) = 0
    BY <1>1
<1>5. SamplesOK
    BY <1>1, <1>2, <1>3, <1>4 DEF SamplesOK
<1> QED BY <1>1, <1>5 DEF ClockHeld, SenderOK

(* A new PCR: gap bytes after the last, on the pace before it if it starts *)
(* a time base.                                                            *)
LEMMA PcrKeeps ==
    ASSUME ClockHeld, NEW gap \in Gaps, NEW pace \in Paces, NEW disc \in BOOLEAN,
           C!PcrArrives(gap, pace, disc)
    PROVE  ClockHeld'
<1>0. PICK n \in Nat, last \in Nat : n = Len(samples) /\ last = n + 1
    <2>1. Len(samples) \in Nat
        BY DEF ClockHeld, SamplesOK
    <2> QED BY <2>1
<1> DEFINE pos == samples[n].pos + gap
           time == arrived[n].time + gap * pace
           flag == disc \/ flagged
           ph == phase'
<1>1. /\ samples # << >> /\ phase' \in Phases
      /\ ~flag => phase' = phase
      /\ flag /\ n > 1 => pace = C!PaceBefore
      /\ samples' = Append(samples, [pos |-> pos, disc |-> flag,
                                     raw |-> (time + ph) % C!Modulus27])
      /\ arrived' = Append(arrived, [time |-> time, phase |-> ph])
      /\ flagged' = FALSE
    <2>1. C!Final(samples) = samples[n] /\ C!Final(arrived) = arrived[n]
        BY <1>0 DEF C!Final, ClockHeld, SamplesOK
    <2> QED BY <2>1, <1>0 DEF C!PcrArrives, C!SampleAt, ClockHeld, SenderOK
<1>2. SamplesOK /\ n \in Nat /\ n > 0 /\ n \in 1 .. n /\ SenderOK
    <2>1. samples \in Seq([pos : Nat, disc : BOOLEAN, raw : Nat]) /\ SamplesOK /\ SenderOK
        BY DEF ClockHeld, SamplesOK
    <2>2. n \in Nat /\ n # 0
        BY <2>1, <1>0, <1>1, EmptySeq
    <2> QED BY <2>1, <2>2
<1>3. samples[n].pos \in Nat /\ arrived[n].time \in Nat
    BY <1>0, <1>2, SampleTypes
<1>4. /\ gap \in Nat /\ pace \in Nat /\ gap > 0 /\ pace > 0 /\ gap * pace \in Nat /\ ph \in Nat
    BY <1>1, ClockNumbers, Intervals
<1>5. pos \in Nat /\ time \in Nat /\ flag \in BOOLEAN
    <2>1. flag \in BOOLEAN
        BY <1>2, Zenon DEF SenderOK
    <2> QED BY <2>1, <1>3, <1>4
<1>6. last \in Nat /\ last = Len(samples) + 1
    BY <1>0
<1> DEFINE s == [pos |-> pos, disc |-> flag, raw |-> (time + ph) % C!Modulus27]
           a == [time |-> time, phase |-> ph]
<1>7. /\ samples' = Append(samples, s) /\ arrived' = Append(arrived, a)
      /\ s.pos = pos /\ s.disc = flag /\ a.time = time /\ a.phase = ph
    BY <1>1
<1>8. flag /\ n > 1 => \E before \in Gaps : Paced(n, before, pace)
    <2> SUFFICES ASSUME flag, n > 1 PROVE \E before \in Gaps : Paced(n, before, pace)
        OBVIOUS
    <2>1. n \in 2 .. n /\ n - 1 \in 1 .. n
        BY <1>2
    <2>2. PICK g \in Gaps, p \in Paces : Paced(n, g, p)
        BY <2>1, <1>0, <1>2 DEF SamplesOK, SampleOK
    <2>3. /\ samples[n - 1].pos \in Nat /\ arrived[n - 1].time \in Nat
        BY <2>1, <1>0, <1>2, SampleTypes
    <2>4. g \in Nat /\ g > 0 /\ p \in Nat /\ g * p \in Nat
        BY ClockNumbers, Intervals
    <2>5. C!PaceBefore = (g * p) \div g
        <3>1. /\ samples[n].pos - samples[n - 1].pos = g
              /\ arrived[n].time - arrived[n - 1].time = g * p
            BY <2>2, <2>3, <2>4 DEF Paced
        <3> QED BY <3>1, <1>0 DEF C!PaceBefore
    <2>6. pace = p
        BY <2>4, <2>5, <1>1, ExactDivision
    <2> QED BY <2>2, <2>6
<1> HIDE DEF pos, time, flag, s, a
<1>9. /\ samples'[last] = s /\ arrived'[last] = a
      /\ \A k \in 1 .. n : samples'[k] = samples[k] /\ arrived'[k] = arrived[k]
    <2>1. /\ samples \in Seq([pos : Nat, disc : BOOLEAN, raw : Nat])
          /\ arrived \in Seq([time : Nat, phase : Nat]) /\ Len(arrived) = n
        BY <1>0, <1>2 DEF SamplesOK
    <2> QED BY <2>1, <1>0, <1>2, <1>7
<1>10. SampleOK(last)'
    <2>1. last - 1 = n
        BY <1>0
    <2>2. Paced(last, gap, pace)'
        BY <2>1, <1>2, <1>7, <1>9 DEF Paced, pos, time
    <2>3. flag /\ last > 2 => \E before \in Gaps : Paced(last - 1, before, pace)'
        <3> SUFFICES ASSUME flag, last > 2 PROVE \E before \in Gaps : Paced(last - 1, before, pace)'
            OBVIOUS
        <3>1. n > 1 /\ n - 1 \in 1 .. n
            BY <1>0, <1>2
        <3>2. PICK before \in Gaps : Paced(n, before, pace)
            BY <3>1, <1>8
        <3>3. Paced(n, before, pace)'
            BY <3>1, <3>2, <1>2, <1>9 DEF Paced
        <3> QED BY <3>3, <2>1
    <2>4. ~flag => arrived'[last].phase = arrived'[last - 1].phase
        <3> SUFFICES ASSUME ~flag PROVE arrived'[last].phase = arrived'[last - 1].phase
            OBVIOUS
        <3>1. phase' = phase /\ ~flagged
            BY <1>1 DEF flag
        <3>2. phase = arrived[n].phase
            BY <3>1, <1>0, <1>1, <1>2 DEF SenderOK
        <3> QED BY <3>1, <3>2, <2>1, <1>2, <1>7, <1>9
    <2>5. samples'[last].disc = flag
        BY <1>7, <1>9
    <2> QED BY <2>2, <2>3, <2>4, <2>5 DEF SampleOK
<1>11. /\ samples' = Append(samples, [pos |-> pos, disc |-> flag,
                                      raw |-> (time + ph) % C!Modulus27])
       /\ arrived' = Append(arrived, [time |-> time, phase |-> ph])
    BY <1>7 DEF s, a
<1> HIDE DEF ph
<1>12. /\ SamplesOK' /\ Len(samples') = Len(samples) + 1
       /\ arrived'[Len(samples')].phase = ph /\ arrived'[1].time = arrived[1].time
    BY <1>1, <1>2, <1>4, <1>5, <1>6, <1>10, <1>11, SampleAppended
<1>13. SenderOK'
    <2>1. arrived[1].time = 0
        BY <1>1, <1>2 DEF SenderOK
    <2> QED BY <2>1, <1>1, <1>12 DEF SenderOK, ph
<1> QED BY <1>12, <1>13 DEF ClockHeld

LEMMA ClockStep == ClockHeld /\ [C!ClockNext]_(C!clockVars) => ClockHeld'
<1> SUFFICES ASSUME ClockHeld, [C!ClockNext]_(C!clockVars) PROVE ClockHeld'
    OBVIOUS
<1>1. CASE C!FirstPcr
    <2>1. PICK gap \in Gaps : C!SampleAt(gap, 0, flagged)
        BY <1>1 DEF C!FirstPcr
    <2>2. samples = << >> /\ phase' = phase /\ flagged \in BOOLEAN /\ phase \in Phases /\ SamplesOK
        BY <1>1 DEF C!FirstPcr, ClockHeld, SenderOK
    <2>3. gap \in Nat /\ phase \in Nat
        BY <2>2, ClockNumbers
    <2> DEFINE time == 0
               last == Len(samples) + 1
    <2>4. time \in Nat /\ last = Len(samples) + 1 /\ ~ (Len(samples) > 0)
        BY <2>2
    <2>5. /\ samples' = Append(samples, [pos |-> gap, disc |-> flagged,
                                         raw |-> (time + phase) % C!Modulus27])
          /\ arrived' = Append(arrived, [time |-> time, phase |-> phase])
          /\ flagged' = FALSE
        BY <2>1, <2>2 DEF C!SampleAt
    <2> HIDE DEF time, last
    <2>6. /\ SamplesOK' /\ arrived'[Len(samples')].phase = phase /\ arrived'[1].time = time
        BY <2>2, <2>3, <2>4, <2>5, SampleAppended
    <2> QED BY <2>2, <2>5, <2>6 DEF ClockHeld, SenderOK, time
<1>2. CASE C!FlagArrives
    <2>1. flagged' = TRUE /\ phase' \in Phases /\ samples' = samples /\ arrived' = arrived
        BY <1>2 DEF C!FlagArrives
    <2> QED BY <2>1 DEF ClockHeld, SenderOK, SamplesOK, SampleOK, Paced, C!Modulus27
<1>3. CASE \E gap \in Gaps, pace \in Paces, disc \in BOOLEAN : C!PcrArrives(gap, pace, disc)
    BY <1>3, PcrKeeps
<1>4. CASE UNCHANGED C!clockVars
    <2>1. /\ flagged' = flagged /\ phase' = phase /\ samples' = samples /\ arrived' = arrived
        BY <1>4 DEF C!clockVars
    <2> QED BY <2>1 DEF ClockHeld, SenderOK, SamplesOK, SampleOK, Paced, C!Modulus27
<1> QED BY <1>1, <1>2, <1>3, <1>4 DEF C!ClockNext

------------------------------------------------------------------------------
(* The schedule.                                                           *)

(* The fold of ArrivalClock::build over m PCRs, one step of it.            *)
FoldFirst == [time |-> 0, ext |-> samples[1].raw, ticks |-> 0, bytes |-> 0]
FoldStep(b, k) ==
    LET s     == samples[k]
        bytes == s.pos - samples[k - 1].pos
        delta == C!Forward(b.ext, s.raw)
    IN  [ext   |-> IF s.disc THEN s.raw ELSE b.ext + delta,
         time  |-> b.time + C!Elapsed(s, delta, bytes, b),
         ticks |-> IF s.disc THEN b.ticks ELSE delta,
         bytes |-> IF s.disc THEN b.bytes ELSE bytes]
Folds(f, m) == f = [k \in 1 .. m |-> IF k = 1 THEN FoldFirst ELSE FoldStep(f[k - 1], k)]

(* The fold is defined for any number of PCRs.                             *)
LEMMA FoldExists ==
    ASSUME NEW m \in Nat
    PROVE  \E f : Folds(f, m)
<1> DEFINE Bad == {k \in Nat : ~ \E f : Folds(f, k)}
<1>1. SUFFICES ASSUME Bad # {} PROVE FALSE
    OBVIOUS
<1>2. PICK k \in Bad : \A y \in Bad : k <= y
    BY <1>1, LeastElement
<1>3. CASE k = 0
    <2> DEFINE f == [i \in 1 .. 0 |-> FoldFirst]
    <2>1. f = [i \in 1 .. 0 |-> IF i = 1 THEN FoldFirst ELSE FoldStep(f[i - 1], i)]
        OBVIOUS
    <2> HIDE DEF f
    <2>2. Folds(f, 0)
        BY <2>1, Zenon DEF Folds
    <2> QED BY <2>2, <1>2, <1>3
<1>4. CASE k # 0
    <2>1. k - 1 \in Nat /\ k \in Nat /\ ~ (k <= k - 1)
        BY <1>2, <1>4
    <2>2. PICK f : Folds(f, k - 1)
        BY <2>1, <1>2
    <2> DEFINE last == IF k = 1 THEN FoldFirst ELSE FoldStep(f[k - 1], k)
               h == [i \in 1 .. k |-> IF i = k THEN last ELSE f[i]]
    <2>3. ASSUME NEW i \in 1 .. k
          PROVE  h[i] = IF i = 1 THEN FoldFirst ELSE FoldStep(h[i - 1], i)
        <3>1. CASE i = k /\ i # 1
            <4>1. i - 1 \in 1 .. k /\ i - 1 # k
                BY <3>1, <2>1
            <4> QED BY <4>1, <3>1
        <3>2. CASE i = k /\ i = 1
            BY <3>2
        <3>3. CASE i # k
            <4>1. i \in 1 .. k - 1
                BY <3>3, <2>1
            <4>2. f[i] = IF i = 1 THEN FoldFirst ELSE FoldStep(f[i - 1], i)
                BY <4>1, <2>2 DEF Folds
            <4>3. h[i] = f[i]
                BY <3>3
            <4>4. i = 1 \/ h[i - 1] = f[i - 1]
                <5>1. i = 1 \/ (i - 1 \in 1 .. k /\ i - 1 # k)
                    BY <4>1, <2>1
                <5> QED BY <5>1
            <4> HIDE DEF h
            <4> QED BY <4>2, <4>3, <4>4, Zenon
        <3> QED BY <3>1, <3>2, <3>3
    <2>4. Folds(h, k)
        BY <2>3, Zenon DEF Folds
    <2> QED BY <2>4, <1>2
<1> QED BY <1>3, <1>4

LEMMA FoldIsFold ==
    ASSUME SamplesOK
    PROVE  /\ Folds(C!SamplesFolded, Len(samples))
           /\ \A k \in 1 .. Len(samples) :
                  C!SamplesFolded[k] = IF k = 1 THEN FoldFirst
                                       ELSE FoldStep(C!SamplesFolded[k - 1], k)
<1>1. PICK f : Folds(f, Len(samples))
    BY FoldExists DEF SamplesOK
<1>2. C!SamplesFolded = CHOOSE g : Folds(g, Len(samples))
    BY DEF C!SamplesFolded, Folds, FoldFirst, FoldStep
<1>3. Folds(C!SamplesFolded, Len(samples))
    BY <1>1, <1>2, Zenon
<1> DEFINE F == C!SamplesFolded
<1> HIDE DEF F
<1>4. Folds(F, Len(samples))
    BY <1>3 DEF F
<1>5. \A k \in 1 .. Len(samples) : F[k] = IF k = 1 THEN FoldFirst ELSE FoldStep(F[k - 1], k)
    BY <1>4 DEF Folds
<1> QED BY <1>3, <1>5 DEF F

(* PCR j is the first of the time base PCR k is on.                        *)
FirstOfBase(j, k) ==
    /\ j \in 1 .. k /\ (j = 1 \/ samples[j].disc)
    /\ \A i \in j + 1 .. k : ~samples[i].disc

(* What the fold knows at PCR k: when it came, where its clock is on its   *)
(* time base but for the turns before the base began, and the pace of the  *)
(* bytes before it.                                                        *)
Extended(ext, k) ==
    \E j, q \in Int :
        /\ FirstOfBase(j, k) /\ arrived[j].phase = arrived[k].phase
        /\ samples[j].raw = (arrived[j].time + arrived[j].phase) - (q * C!Modulus27)
        /\ ext = (arrived[k].time + arrived[k].phase) - (q * C!Modulus27)
PaceKnown(took, bytes, k) ==
    /\ bytes \in Nat /\ bytes > 0
    /\ \A gap \in Gaps, pace \in Paces : Paced(k, gap, pace) => took = bytes * pace
Known(b, k) ==
    /\ b.time = arrived[k].time
    /\ b.ext \in Nat /\ Extended(b.ext, k)
    /\ k > 1 => PaceKnown(b.ticks, b.bytes, k)

(* A time base begins with its residue.                                    *)
LEMMA BaseBegins ==
    ASSUME SamplesOK, NEW k \in 1 .. Len(samples), k = 1 \/ samples[k].disc
    PROVE  Extended(samples[k].raw, k)
<1> DEFINE x == arrived[k].time + arrived[k].phase
           q == x \div C!Modulus27
<1>1. x \in Int /\ samples[k].raw = x % C!Modulus27 /\ k \in Int /\ k \in 1 .. k
    BY SampleTypes
<1> HIDE DEF x
<1>2. q \in Int /\ q * C!Modulus27 \in Int /\ x % C!Modulus27 \in Int
      /\ x = (q * C!Modulus27) + (x % C!Modulus27)
    BY <1>1, ClockNumbers, Division
<1>3. samples[k].raw = x - (q * C!Modulus27)
    BY <1>1, <1>2
<1>4. FirstOfBase(k, k)
    BY <1>1 DEF FirstOfBase
<1> HIDE DEF q
<1> QED BY <1>1, <1>2, <1>3, <1>4 DEF Extended, x

LEMMA FirstKnown ==
    ASSUME SamplesOK, SenderOK, Len(samples) >= 1
    PROVE  Known(FoldFirst, 1)
<1>1. 1 \in 1 .. Len(samples) /\ samples # << >>
    BY DEF SamplesOK
<1>2. samples[1].raw \in Nat /\ arrived[1].time = 0
    BY <1>1, SampleTypes DEF SenderOK
<1>3. FoldFirst.time = 0 /\ FoldFirst.ext = samples[1].raw
    BY DEF FoldFirst
<1>4. Extended(samples[1].raw, 1)
    BY <1>1, BaseBegins
<1> QED BY <1>2, <1>3, <1>4 DEF Known

(* The clock goes on by what it truly went on by.                          *)
LEMMA StepOnBase ==
    ASSUME SamplesOK, NEW k \in 2 .. Len(samples), ~samples[k].disc, NEW b, Known(b, k - 1)
    PROVE  Known(FoldStep(b, k), k)
<1>1. Len(samples) \in Nat /\ k \in 1 .. Len(samples) /\ k - 1 \in 1 .. Len(samples) /\ k \in Int
    BY DEF SamplesOK
<1>2. PICK gap \in Gaps, pace \in Paces : Paced(k, gap, pace)
    BY DEF SamplesOK, SampleOK
<1> DEFINE d == gap * pace
           m == C!Modulus27
           then == arrived[k - 1].time
           ph == arrived[k].phase
           y == then + ph
           delta == C!Forward(b.ext, samples[k].raw)
           bytes == samples[k].pos - samples[k - 1].pos
<1>3. /\ d \in Nat /\ d > 0 /\ d < m /\ gap \in Nat /\ gap > 0
      /\ m \in Nat /\ m > 0
    BY Intervals, ClockNumbers
<1>4. /\ then \in Nat /\ ph \in Nat /\ ph = arrived[k - 1].phase
      /\ samples[k - 1].pos \in Nat /\ arrived[k].time \in Nat
      /\ samples[k].raw = (arrived[k].time + ph) % m
    BY <1>1, SampleTypes DEF SamplesOK, SampleOK
<1>5. arrived[k].time = then + d /\ bytes = gap
    BY <1>2, <1>3, <1>4, SMTT(30) DEF Paced
<1>6. PICK j \in Int, q \in Int :
          /\ FirstOfBase(j, k - 1) /\ arrived[j].phase = ph
          /\ samples[j].raw = (arrived[j].time + arrived[j].phase) - (q * m)
          /\ b.ext = y - (q * m)
    BY <1>4 DEF Known, Extended, FirstOfBase
<1>7. b.ext \in Nat /\ b.time = then
    BY DEF Known
<1>8. samples[k].raw = (y + d) % m
    <2>1. (then + d) + ph = y + d
        BY <1>3, <1>4, SMTT(30)
    <2> QED BY <2>1, <1>4, <1>5
<1>9. y \in Int /\ (then + d) + ph = y + d
    BY <1>3, <1>4, SMTT(30)
<1> HIDE DEF d, y
<1>10. delta = d
    <2>1. C!Forward(b.ext, (y + d) % C!Modulus27) = d
        BY <1>3, <1>6, <1>7, <1>9, ForwardIsExact
    <2> QED BY <2>1, <1>8
<1> HIDE DEF delta, bytes
<1>11. C!Elapsed(samples[k], delta, bytes, b) = delta
    BY DEF C!Elapsed
<1> DEFINE n == FoldStep(b, k)
<1>12. /\ n.time = b.time + delta /\ n.ext = b.ext + delta
       /\ n.ticks = delta /\ n.bytes = bytes
    BY <1>11 DEF FoldStep, delta, bytes
<1> HIDE DEF n
<1>13. n.time = arrived[k].time
    BY <1>5, <1>7, <1>10, <1>12
<1>14. n.ext \in Nat
    BY <1>3, <1>7, <1>10, <1>12
<1>15. Extended(n.ext, k)
    <2>1. q * m \in Int
        BY <1>3
    <2> DEFINE turns == q * m
    <2>4. /\ turns \in Int /\ b.ext = y - turns /\ n.ext = b.ext + d
          /\ arrived[k].time + ph = y + d
        <3>1. arrived[k].time + ph = (then + d) + ph
            BY <1>5
        <3>2. turns \in Int /\ b.ext = y - turns /\ n.ext = b.ext + d
            BY <2>1, <1>6, <1>10, <1>12
        <3> QED BY <3>1, <3>2, <1>9
    <2> HIDE DEF turns
    <2>2. n.ext = (arrived[k].time + ph) - turns
        BY <2>4, <1>3, <1>9
    <2>3. FirstOfBase(j, k)
        <3>1. j \in 1 .. k
            BY <1>1, <1>6 DEF FirstOfBase
        <3>2. \A i \in j + 1 .. k : i = k \/ i \in j + 1 .. k - 1
            BY <1>1
        <3> QED BY <3>1, <3>2, <1>6 DEF FirstOfBase
    <2> QED BY <2>2, <2>3, <1>6 DEF Extended, turns
<1>16. PaceKnown(n.ticks, n.bytes, k)
    <2>1. ASSUME NEW g \in Gaps, NEW p \in Paces, Paced(k, g, p)
          PROVE  n.ticks = n.bytes * p
        <3>1. g = gap /\ p = pace
            BY <2>1, <1>2, OnePace
        <3> QED BY <3>1, <1>5, <1>10, <1>12 DEF d
    <2>2. n.bytes \in Nat /\ n.bytes > 0
        BY <1>3, <1>5, <1>12
    <2> QED BY <2>1, <2>2 DEF PaceKnown
<1> QED BY <1>13, <1>14, <1>15, <1>16 DEF Known, n

(* Over a new time base the bytes came at the pace before it.              *)
LEMMA StepOverBase ==
    ASSUME SamplesOK, NEW k \in 3 .. Len(samples), samples[k].disc, NEW b, Known(b, k - 1)
    PROVE  Known(FoldStep(b, k), k)
<1>1. /\ Len(samples) \in Nat /\ k \in 1 .. Len(samples) /\ k - 1 \in 1 .. Len(samples)
      /\ k \in 2 .. Len(samples) /\ k - 1 \in 2 .. Len(samples) /\ k > 2 /\ k \in Int
    BY DEF SamplesOK
<1>2. PICK gap \in Gaps, pace \in Paces :
          Paced(k, gap, pace) /\ \E before \in Gaps : Paced(k - 1, before, pace)
    BY <1>1 DEF SamplesOK, SampleOK
<1>3. PICK before \in Gaps : Paced(k - 1, before, pace)
    BY <1>2
<1> DEFINE delta == C!Forward(b.ext, samples[k].raw)
           bytes == samples[k].pos - samples[k - 1].pos
           n == FoldStep(b, k)
<1>4. /\ gap \in Nat /\ gap > 0 /\ pace \in Nat /\ pace > 0 /\ gap * pace \in Nat
    BY Intervals, ClockNumbers
<1>5. /\ samples[k].raw \in Nat /\ samples[k - 1].pos \in Nat
      /\ arrived[k].time \in Nat /\ arrived[k - 1].time \in Nat
    BY <1>1, SampleTypes
<1>6. bytes = gap /\ arrived[k].time = arrived[k - 1].time + gap * pace
    BY <1>2, <1>4, <1>5, SMTT(30) DEF Paced
<1>7. /\ b.bytes \in Nat /\ b.bytes > 0 /\ b.ticks = b.bytes * pace
      /\ b.time = arrived[k - 1].time
    BY <1>1, <1>3 DEF Known, PaceKnown
<1> HIDE DEF delta, bytes
<1>8. C!Elapsed(samples[k], delta, bytes, b) = gap * pace
    <2>1. C!Elapsed(samples[k], delta, bytes, b) = (gap * (b.bytes * pace)) \div b.bytes
        BY <1>6, <1>7 DEF C!Elapsed
    <2> DEFINE c == b.bytes
    <2>2. gap * (c * pace) = c * (gap * pace)
        BY <1>4, <1>7
    <2>3. (c * (gap * pace)) \div c = gap * pace
        BY <1>4, <1>7, ExactDivision
    <2> QED BY <2>1, <2>2, <2>3
<1>9. /\ n.time = b.time + gap * pace /\ n.ext = samples[k].raw
      /\ n.ticks = b.ticks /\ n.bytes = b.bytes
    BY <1>8 DEF FoldStep, delta, bytes
<1> HIDE DEF n
<1>10. n.time = arrived[k].time
    BY <1>6, <1>7, <1>9
<1>11. Extended(n.ext, k)
    BY <1>1, <1>9, BaseBegins
<1>12. PaceKnown(n.ticks, n.bytes, k)
    <2>1. ASSUME NEW g \in Gaps, NEW p \in Paces, Paced(k, g, p)
          PROVE  n.ticks = n.bytes * p
        <3>1. p = pace
            BY <2>1, <1>1, <1>2, OnePace
        <3> QED BY <3>1, <1>7, <1>9
    <2> QED BY <2>1, <1>7, <1>9 DEF PaceKnown
<1> QED BY <1>5, <1>9, <1>10, <1>11, <1>12 DEF Known, n

(* The fold is right at every PCR, unless the second one already starts a  *)
(* time base, which build() refuses.                                       *)
LEMMA FoldIsTrue ==
    ASSUME ClockHeld, C!Built, NEW k \in 1 .. Len(samples)
    PROVE  Known(C!SamplesFolded[k], k)
<1> DEFINE F == C!SamplesFolded
           Bad == {i \in 1 .. Len(samples) : ~Known(F[i], i)}
<1>1. /\ Len(samples) \in Nat /\ Len(samples) >= 2 /\ ~samples[2].disc /\ SamplesOK /\ SenderOK
    <2>1. SamplesOK /\ SenderOK /\ Len(samples) \in Nat
        BY DEF ClockHeld, SamplesOK
    <2>2. Len(samples) >= 2 /\ ~samples[2].disc
        BY Zenon DEF C!Built, C!Refused
    <2> QED BY <2>1, <2>2
<1>2. \A i \in 1 .. Len(samples) : F[i] = IF i = 1 THEN FoldFirst ELSE FoldStep(F[i - 1], i)
    BY <1>1, FoldIsFold
<1> HIDE DEF F
<1>3. SUFFICES ASSUME Bad # {} PROVE FALSE
    BY DEF F
<1>4. PICK i \in Bad : \A y \in Bad : i <= y
    <2>1. Bad \subseteq Nat
        BY <1>1
    <2> QED BY <2>1, <1>3, LeastElement
<1>5. CASE i = 1
    <2>1. F[1] = FoldFirst
        BY <1>1, <1>2
    <2> QED BY <2>1, <1>1, <1>4, <1>5, FirstKnown
<1>6. CASE i # 1
    <2>1. i \in 2 .. Len(samples) /\ i - 1 \in 1 .. Len(samples) /\ ~ (i <= i - 1)
        BY <1>1, <1>4, <1>6
    <2>2. Known(F[i - 1], i - 1)
        BY <2>1, <1>4
    <2>3. F[i] = FoldStep(F[i - 1], i)
        BY <2>1, <1>2, <1>6
    <2>4. samples[i].disc => i \in 3 .. Len(samples)
        BY <2>1, <1>1
    <2>5. CASE samples[i].disc
        BY <2>1, <2>2, <2>3, <2>4, <2>5, <1>1, <1>4, StepOverBase
    <2>6. CASE ~samples[i].disc
        BY <2>1, <2>2, <2>3, <2>6, <1>1, <1>4, StepOnBase
    <2> QED BY <2>5, <2>6
<1> QED BY <1>5, <1>6

(* A set of numbers below a bound has a greatest element.                  *)
LEMMA GreatestElement ==
    ASSUME NEW top \in Nat, NEW S, S \subseteq 0 .. top, S # {}
    PROVE  \E x \in S : \A y \in S : y <= x
<1> DEFINE T == {top - x : x \in S}
<1>1. T \subseteq Nat /\ T # {}
    <2>1. ASSUME NEW x \in S PROVE top - x \in Nat
        <3>1. x \in 0 .. top
            OBVIOUS
        <3> QED BY <3>1
    <2>2. PICK x \in S : TRUE
        OBVIOUS
    <2>3. top - x \in T
        OBVIOUS
    <2> QED BY <2>1, <2>3
<1>2. PICK t \in T : \A u \in T : t <= u
    BY <1>1, LeastElement
<1>3. PICK x \in S : t = top - x
    OBVIOUS
<1>4. ASSUME NEW y \in S PROVE y <= x
    <2>1. top - y \in T
        OBVIOUS
    <2>2. t <= top - y
        BY <2>1, <1>2
    <2>3. x \in 0 .. top /\ y \in 0 .. top
        OBVIOUS
    <2> HIDE DEF T
    <2> QED BY <2>2, <2>3, <1>3
<1> QED BY <1>4

(* PCRs stand one behind the other.                                        *)
LEMMA OneBehind ==
    ASSUME SamplesOK, NEW k \in 2 .. Len(samples)
    PROVE  samples[k - 1].pos < samples[k].pos
<1>1. PICK gap \in Gaps, pace \in Paces : Paced(k, gap, pace)
    BY DEF SamplesOK, SampleOK
<1>2. Len(samples) \in Nat
    BY DEF SamplesOK
<1>3. k - 1 \in 1 .. Len(samples)
    BY <1>2
<1>4. samples[k - 1].pos \in Nat /\ gap \in Nat /\ gap > 0
    BY <1>3, SampleTypes, ClockNumbers
<1> QED BY <1>1, <1>4 DEF Paced

LEMMA Ordered ==
    ASSUME SamplesOK, NEW i \in 1 .. Len(samples), NEW j \in 1 .. Len(samples), i < j
    PROVE  samples[i].pos < samples[j].pos
<1> DEFINE Bad == {k \in 1 .. Len(samples) : i < k /\ ~ (samples[i].pos < samples[k].pos)}
<1>1. Len(samples) \in Nat
    BY DEF SamplesOK
<1>2. SUFFICES ASSUME Bad # {} PROVE FALSE
    OBVIOUS
<1>3. PICK k \in Bad : \A y \in Bad : k <= y
    <2>1. Bad \subseteq Nat
        BY <1>1
    <2> QED BY <2>1, <1>2, LeastElement
<1>4. k \in 2 .. Len(samples) /\ k - 1 \in 1 .. Len(samples) /\ ~ (k <= k - 1) /\ i < k
    BY <1>1, <1>3
<1>5. samples[k - 1].pos < samples[k].pos
    BY <1>4, OneBehind
<1>6. k - 1 = i \/ samples[i].pos < samples[k - 1].pos
    <2>1. k - 1 # i => i < k - 1
        BY <1>1, <1>4
    <2>2. k - 1 \notin Bad
        BY <1>3, <1>4
    <2> QED BY <2>1, <2>2, <1>4
<1>7. /\ samples[i].pos \in Nat /\ samples[k].pos \in Nat /\ samples[k - 1].pos \in Nat
    BY <1>4, SampleTypes
<1>8. samples[i].pos < samples[k].pos
    BY <1>5, <1>6, <1>7
<1> QED BY <1>3, <1>8

(* The byte at pos comes in the interval from PCR k to the next, the last  *)
(* of which reaches up to the last PCR.                                    *)
Between(pos, k) ==
    /\ k \in 1 .. Len(samples) - 1
    /\ samples[k].pos <= pos
    /\ pos < samples[k + 1].pos \/ (pos = samples[k + 1].pos /\ k + 1 = Len(samples))

LEMMA IntervalFound ==
    ASSUME ClockHeld, Len(samples) >= 2,
           NEW pos \in samples[1].pos .. C!Final(samples).pos
    PROVE  \E k \in Nat : Between(pos, k)
                          /\ C!IntervalAt(pos) = C!Interval(C!SamplesFolded, k)
<1>1. PICK n \in Nat : n = Len(samples)
    BY DEF ClockHeld, SamplesOK
<1>2. SamplesOK /\ n >= 2 /\ C!Final(samples) = samples[n]
    BY <1>1 DEF ClockHeld, C!Final
<1>3. \A i \in 1 .. n : samples[i].pos \in Nat
    BY <1>1, <1>2, SampleTypes
<1>4. samples[1].pos \in Nat /\ samples[n].pos \in Nat
    <2>1. 1 \in 1 .. n /\ n \in 1 .. n
        BY <1>2
    <2> QED BY <2>1, <1>3
<1>5. pos \in Nat /\ samples[1].pos <= pos /\ pos <= samples[n].pos
    BY <1>2, <1>4
<1> DEFINE behind == {k \in 2 .. n - 1 : samples[k].pos <= pos}
           most == CHOOSE k \in behind : \A j \in behind : j <= k
<1>6. C!IntervalAt(pos) = C!Interval(C!SamplesFolded, IF behind = {} THEN 1 ELSE most)
    BY <1>1 DEF C!IntervalAt
<1>7. CASE behind = {}
    <2>1. 2 = n \/ ~ (samples[2].pos <= pos)
        <3>1. 2 = n \/ 2 \in 2 .. n - 1
            BY <1>2
        <3> QED BY <3>1, <1>7
    <2>2. 1 \in 1 .. n - 1 /\ 1 \in Nat /\ 1 + 1 = 2 /\ 2 \in 1 .. n
        BY <1>2
    <2>3. samples[2].pos \in Nat
        BY <2>2, <1>3
    <2>4. Between(pos, 1)
        BY <2>1, <2>2, <2>3, <1>1, <1>5 DEF Between
    <2> QED BY <2>4, <2>2, <1>6, <1>7
<1>8. CASE behind # {}
    <2>1. behind \subseteq 0 .. n
        OBVIOUS
    <2>2. \E k \in behind : \A j \in behind : j <= k
        BY <2>1, <1>8, GreatestElement
    <2>3. most \in behind /\ \A j \in behind : j <= most
        BY <2>2, Zenon
    <2>4. PICK k \in behind : k = most /\ \A j \in behind : j <= k
        BY <2>3
    <2> HIDE DEF most
    <2>5. /\ k \in 2 .. n - 1 /\ samples[k].pos <= pos /\ k \in Nat /\ k \in 1 .. n - 1
          /\ k + 1 \in 1 .. n /\ k + 1 \in Nat
        BY <1>2
    <2>6. k + 1 = n \/ ~ (samples[k + 1].pos <= pos)
        <3>1. k + 1 = n \/ k + 1 \in 2 .. n - 1
            BY <2>5, <1>2
        <3>2. k + 1 \notin behind
            BY <2>4, <2>5
        <3> QED BY <3>1, <3>2
    <2>7. samples[k + 1].pos \in Nat
        BY <2>5, <1>3
    <2>8. Between(pos, k)
        BY <2>5, <2>6, <2>7, <1>1, <1>5 DEF Between
    <2> QED BY <2>4, <2>5, <2>8, <1>6, <1>8
<1> QED BY <1>7, <1>8

(* Where it truly is.                                                      *)
LEMMA PcrBefore ==
    ASSUME SamplesOK, NEW k \in Nat, NEW pos \in Nat, Between(pos, k), pos < samples[k + 1].pos
    PROVE  C!SampleBefore(pos) = k
<1>1. PICK n \in Nat : n = Len(samples)
    BY DEF SamplesOK
<1> DEFINE before == {j \in 1 .. n : samples[j].pos <= pos}
<1>2. k \in before /\ k + 1 \in 1 .. n
    BY <1>1 DEF Between
<1>3. ASSUME NEW j \in before PROVE j <= k
    <2>1. SUFFICES ASSUME ~ (j <= k) PROVE FALSE
        OBVIOUS
    <2>2. j \in 1 .. n /\ samples[j].pos <= pos
        OBVIOUS
    <2>3. j = k + 1 \/ k + 1 < j
        BY <2>1, <2>2
    <2>4. samples[k + 1].pos \in Nat /\ samples[j].pos \in Nat
        BY <2>2, <1>1, <1>2, SampleTypes
    <2>5. samples[k + 1].pos <= samples[j].pos
        BY <2>2, <2>3, <2>4, <1>1, <1>2, Ordered
    <2> QED BY <2>2, <2>4, <2>5
<1>4. C!SampleBefore(pos) = CHOOSE i \in before : \A j \in before : j <= i
    BY <1>1, <1>2 DEF C!SampleBefore
<1>5. ASSUME NEW i \in before, \A j \in before : j <= i PROVE i = k
    <2>1. i <= k /\ k <= i
        BY <1>2, <1>3, <1>5
    <2> QED BY <2>1
<1> HIDE DEF before
<1> QED BY <1>2, <1>3, <1>4, <1>5, Zenon

LEMMA TruthFound ==
    ASSUME SamplesOK, NEW k \in Nat, NEW pos \in Nat, Between(pos, k),
           NEW gap \in Gaps, NEW pace \in Paces, Paced(k + 1, gap, pace)
    PROVE  /\ C!TrulyAt(pos) = arrived[k].time + (pos - samples[k].pos) * pace
           /\ pos - samples[k].pos \in 0 .. gap
<1>1. PICK n \in Nat : n = Len(samples)
    BY DEF SamplesOK
<1>2. k \in 1 .. n /\ k + 1 \in 1 .. n /\ (k + 1) - 1 = k /\ n \in 1 .. n
    BY <1>1 DEF Between
<1>3. /\ samples[k].pos \in Nat /\ samples[k + 1].pos \in Nat /\ samples[n].pos \in Nat
      /\ arrived[k].time \in Nat /\ arrived[k + 1].time \in Nat
    BY <1>1, <1>2, SampleTypes
<1>4. gap \in Nat /\ gap > 0 /\ pace \in Nat /\ gap * pace \in Nat
    BY ClockNumbers, Intervals
<1>5. /\ samples[k + 1].pos = samples[k].pos + gap
      /\ arrived[k + 1].time = arrived[k].time + gap * pace
    BY <1>2 DEF Paced
<1>6. (arrived[k + 1].time - arrived[k].time) \div (samples[k + 1].pos - samples[k].pos) = pace
    <2>1. /\ arrived[k + 1].time - arrived[k].time = gap * pace
          /\ samples[k + 1].pos - samples[k].pos = gap
        BY <1>3, <1>4, <1>5
    <2> QED BY <2>1, <1>4, ExactDivision
<1> DEFINE here == IF pos = C!Final(samples).pos THEN Len(samples) - 1 ELSE C!SampleBefore(pos)
<1>7. here = k
    <2>1. C!Final(samples) = samples[n]
        BY <1>1 DEF C!Final
    <2>2. CASE k + 1 = n
        <3>1. CASE pos = samples[n].pos
            BY <2>1, <2>2, <3>1, <1>1, <1>2
        <3>2. CASE pos # samples[n].pos
            <4>1. pos < samples[k + 1].pos
                BY <2>2, <3>2 DEF Between
            <4> QED BY <2>1, <3>2, <4>1, PcrBefore
        <3> QED BY <3>1, <3>2
    <2>3. CASE k + 1 # n
        <3>1. pos < samples[k + 1].pos
            BY <2>3, <1>1 DEF Between
        <3>2. samples[k + 1].pos < samples[n].pos
            <4>1. k + 1 < n
                BY <2>3, <1>2
            <4> QED BY <4>1, <1>1, <1>2, Ordered
        <3>3. pos # samples[n].pos
            BY <3>1, <3>2, <1>3
        <3> QED BY <2>1, <3>1, <3>3, PcrBefore
    <2> QED BY <2>2, <2>3
<1>8. C!TrulyAt(pos) =
          arrived[here].time + (pos - samples[here].pos)
              * ((arrived[here + 1].time - arrived[here].time)
                  \div (samples[here + 1].pos - samples[here].pos))
    BY DEF C!TrulyAt
<1> HIDE DEF here
<1>9. pos - samples[k].pos \in 0 .. gap
    <2>1. samples[k].pos <= pos /\ pos <= samples[k + 1].pos
        BY <1>3 DEF Between
    <2> DEFINE start == samples[k].pos
    <2>2. start \in Nat /\ start <= pos /\ pos <= start + gap
        BY <2>1, <1>3, <1>5
    <2> HIDE DEF start
    <2>3. pos - start \in 0 .. gap
        BY <2>2, <1>4
    <2> QED BY <2>3 DEF start
<1> QED BY <1>6, <1>7, <1>8, <1>9

(* Every byte is given the time it came at.                                *)
LEMMA TimesOfBytes ==
    ASSUME ClockHeld, C!Built, NEW pos \in samples[1].pos .. C!Final(samples).pos
    PROVE  C!TimeOf(C!IntervalAt(pos), pos) = C!TrulyAt(pos)
<1>1. SamplesOK /\ Len(samples) >= 2 /\ Len(samples) \in Nat
    BY SMTT(30) DEF ClockHeld, SamplesOK, C!Built
<1>2. PICK k \in Nat : /\ Between(pos, k)
                       /\ C!IntervalAt(pos) = C!Interval(C!SamplesFolded, k)
    BY <1>1, IntervalFound
<1>3. /\ k \in 1 .. Len(samples) /\ k + 1 \in 1 .. Len(samples) /\ k + 1 \in 2 .. Len(samples)
      /\ k + 1 > 1
    BY <1>1, <1>2 DEF Between
<1>4. pos \in Nat
    <2>1. 1 \in 1 .. Len(samples) /\ Len(samples) \in 1 .. Len(samples)
        BY <1>1
    <2>2. samples[1].pos \in Nat /\ C!Final(samples).pos \in Nat
        BY <1>1, <2>1, SampleTypes DEF C!Final
    <2> QED BY <2>2
<1>5. PICK gap \in Gaps, pace \in Paces : Paced(k + 1, gap, pace)
    BY <1>1, <1>3 DEF SamplesOK, SampleOK
<1> DEFINE F == C!SamplesFolded
           bytes == F[k + 1].bytes
           off == pos - samples[k].pos
<1>6. Known(F[k], k) /\ Known(F[k + 1], k + 1)
    BY <1>3, FoldIsTrue
<1> HIDE DEF F
<1>7. F[k].time = arrived[k].time /\ bytes \in Nat /\ bytes > 0 /\ F[k + 1].ticks = bytes * pace
    BY <1>3, <1>5, <1>6 DEF Known, PaceKnown
<1>8. C!TrulyAt(pos) = arrived[k].time + off * pace /\ off \in 0 .. gap
    BY <1>1, <1>2, <1>4, <1>5, TruthFound
<1>9. pace \in Nat /\ gap \in Nat
    BY ClockNumbers
<1>10. C!TimeOf(C!Interval(F, k), pos) = F[k].time + (off * F[k + 1].ticks) \div bytes
    BY DEF C!TimeOf, C!Interval
<1> HIDE DEF off, bytes
<1>11. (off * (bytes * pace)) \div bytes = off * pace
    <2>1. off \in Int /\ off * pace \in Int /\ off * (bytes * pace) = bytes * (off * pace)
        BY <1>7, <1>8, <1>9
    <2> QED BY <2>1, <1>7, ExactDivision
<1> QED BY <1>2, <1>7, <1>8, <1>10, <1>11 DEF F

(* How far a quotient moves.                                               *)
LEMMA QuotientMoves ==
    ASSUME NEW m \in Nat, m > 0, NEW a \in Int, NEW e \in Nat, NEW g \in Nat, e <= g * m
    PROVE  /\ a \div m \in Int /\ (a + e) \div m \in Int
           /\ a \div m <= (a + e) \div m /\ (a + e) \div m <= (a \div m) + g
<1> DEFINE p == a \div m
           q == (a + e) \div m
           r == a % m
           s == (a + e) % m
<1>1. p \in Int /\ r \in 0 .. m - 1 /\ p * m \in Int /\ a = (p * m) + r
    BY Division
<1>2. q \in Int /\ s \in 0 .. m - 1 /\ q * m \in Int /\ a + e = (q * m) + s
    <2>1. a + e \in Int
        OBVIOUS
    <2> QED BY <2>1, Division
<1> HIDE DEF p, q, r, s
<1>3. ~ (q < p)
    <2>1. q < p => (q * m) + m <= p * m
        BY <1>1, <1>2, Apart
    <2> QED BY <2>1, <1>1, <1>2
<1>4. ~ (p + g < q)
    <2>1. p + g \in Int /\ (p + g) * m = (p * m) + (g * m) /\ g * m \in Int
        BY <1>1
    <2>2. p + g < q => ((p + g) * m) + m <= q * m
        BY <2>1, <1>2, Apart
    <2> QED BY <2>1, <2>2, <1>1, <1>2
<1>5. p <= q /\ q <= p + g
    BY <1>1, <1>2, <1>3, <1>4
<1> QED BY <1>1, <1>2, <1>5 DEF p, q

LEMMA QuotientShifts ==
    ASSUME NEW m \in Nat, m > 0, NEW a \in Int, NEW c \in Int
    PROVE  (a - (c * m)) \div m = (a \div m) - c
<1> DEFINE p == a \div m
           r == a % m
<1>1. p \in Int /\ r \in 0 .. m - 1 /\ p * m \in Int /\ a = (p * m) + r
    BY Division
<1> HIDE DEF p, r
<1>2. c * m \in Int /\ (p - c) * m = (p * m) - (c * m) /\ p - c \in Int
    BY <1>1
<1>3. a - (c * m) \in Int /\ a - (c * m) = ((p - c) * m) + r
    BY <1>1, <1>2
<1> QED BY <1>1, <1>2, <1>3, OnlyDivision DEF p

LEMMA ResidueShifts ==
    ASSUME NEW m \in Nat, m > 0, NEW a \in Int, NEW c \in Int
    PROVE  (a - (c * m)) % m = a % m
<1> DEFINE p == a \div m
           r == a % m
<1>1. p \in Int /\ r \in 0 .. m - 1 /\ p * m \in Int /\ a = (p * m) + r
    BY Division
<1> HIDE DEF p, r
<1>2. c * m \in Int /\ (p - c) * m = (p * m) - (c * m) /\ p - c \in Int
    BY <1>1
<1>3. a - (c * m) \in Int /\ a - (c * m) = ((p - c) * m) + r
    BY <1>1, <1>2
<1> QED BY <1>1, <1>2, <1>3, OnlyDivision DEF r

(* A time base has one first PCR.                                          *)
LEMMA OneFirst ==
    ASSUME NEW k \in Nat, NEW j, FirstOfBase(j, k)
    PROVE  (CHOOSE i \in 1 .. k : /\ i = 1 \/ samples[i].disc
                                  /\ \A h \in i + 1 .. k : ~samples[h].disc) = j
<1>1. ASSUME NEW i \in 1 .. k, i = 1 \/ samples[i].disc, \A h \in i + 1 .. k : ~samples[h].disc
      PROVE  i = j
    <2>1. j \in 1 .. k
        BY DEF FirstOfBase
    <2>2. ~ (i < j)
        <3> SUFFICES ASSUME i < j PROVE FALSE
            OBVIOUS
        <3>1. j \in i + 1 .. k /\ j # 1
            BY <2>1
        <3> QED BY <3>1, <1>1 DEF FirstOfBase
    <2>3. ~ (j < i)
        <3> SUFFICES ASSUME j < i PROVE FALSE
            OBVIOUS
        <3>1. i \in j + 1 .. k /\ i # 1
            BY <2>1
        <3> QED BY <3>1, <1>1 DEF FirstOfBase
    <2> QED BY <2>1, <2>2, <2>3
<1> QED BY <1>1, Zenon DEF FirstOfBase

(* Every decode timestamp is mapped to the time it names.                  *)
LEMMA TimesOfDecoding ==
    ASSUME ClockHeld, C!Built, NEW pos \in samples[1].pos .. C!Final(samples).pos - 1,
           NEW k, k = C!SampleBefore(pos), NEW t \in C!DecodeTimes(k, C!TrulyAt(pos))
    PROVE  C!DecodeTimeAt(C!IntervalAt(pos), t % M) = Ratio * t - arrived[k].phase
<1>1. SamplesOK /\ Len(samples) >= 2 /\ Len(samples) \in Nat
    BY DEF ClockHeld, SamplesOK, C!Built
<1>2. pos \in Nat /\ pos \in samples[1].pos .. C!Final(samples).pos /\ pos < C!Final(samples).pos
    <2>1. 1 \in 1 .. Len(samples) /\ Len(samples) \in 1 .. Len(samples)
        BY <1>1
    <2>2. samples[1].pos \in Nat /\ C!Final(samples).pos \in Nat
        BY <1>1, <2>1, SampleTypes DEF C!Final
    <2> QED BY <2>2
<1>3. PICK i \in Nat : /\ Between(pos, i)
                       /\ C!IntervalAt(pos) = C!Interval(C!SamplesFolded, i)
    BY <1>1, <1>2, IntervalFound
<1>4. /\ i \in 1 .. Len(samples) /\ i + 1 \in 1 .. Len(samples) /\ i + 1 \in 2 .. Len(samples)
    BY <1>1, <1>3 DEF Between
<1>5. pos < samples[i + 1].pos
    BY <1>2, <1>3 DEF Between, C!Final
<1>6. i = k
    BY <1>1, <1>2, <1>3, <1>5, PcrBefore
<1>7. k \in Nat /\ k \in 1 .. Len(samples) /\ k + 1 \in 2 .. Len(samples) /\ Between(pos, k)
    BY <1>3, <1>4, <1>6
<1> HIDE DEF C!SampleBefore
<1>8. PICK gap \in Gaps, pace \in Paces : Paced(k + 1, gap, pace)
    BY <1>1, <1>7 DEF SamplesOK, SampleOK
<1>9. PICK g \in Nat : /\ gap * pace <= g * Ratio
                       /\ \A a \in Leads : -M < 2 * a /\ 2 * (a + g) < M
    BY Intervals
<1> DEFINE F == C!SamplesFolded
           off == pos - samples[k].pos
           then == arrived[k].time
           ph == arrived[k].phase
           passed == off * pace
<1>10. C!TrulyAt(pos) = then + passed /\ off \in 0 .. gap
    BY <1>1, <1>2, <1>7, <1>8, TruthFound
<1>11. passed \in Nat /\ passed <= g * Ratio
    <2>1. gap \in Nat /\ pace \in Nat /\ g * Ratio \in Int /\ off \in Nat /\ off <= gap
        BY <1>10, ClockNumbers
    <2> HIDE DEF off
    <2>2. passed \in Nat /\ gap * pace \in Nat /\ passed <= gap * pace
        BY <2>1
    <2> QED BY <2>1, <2>2, <1>9
<1> HIDE DEF passed
<1>12. then \in Nat /\ ph \in Nat /\ samples[k].raw \in Nat
    BY <1>1, <1>7, SampleTypes
<1>13. F[k].time = then /\ F[k].ext \in Nat /\ Extended(F[k].ext, k)
    BY <1>7, FoldIsTrue DEF Known
<1> HIDE DEF F
<1>14. PICK j \in Int, q \in Int :
           /\ FirstOfBase(j, k) /\ arrived[j].phase = ph
           /\ samples[j].raw = (arrived[j].time + arrived[j].phase) - (q * C!Modulus27)
           /\ F[k].ext = (then + ph) - (q * C!Modulus27)
    BY <1>13 DEF Extended
<1>15. j \in 1 .. Len(samples)
    BY <1>1, <1>7, <1>14 DEF FirstOfBase
<1>16. PICK a \in Leads :
           /\ t = ((then + passed) + ph) \div Ratio + a
           /\ Ratio * t >= arrived[j].time + arrived[j].phase
    <2>1. (CHOOSE h \in 1 .. k : /\ h = 1 \/ samples[h].disc
                                 /\ \A l \in h + 1 .. k : ~samples[l].disc) = j
        BY <1>7, <1>14, OneFirst
    <2>2. t \in {x \in {((C!TrulyAt(pos) + ph) \div Ratio) + a : a \in Leads} :
                    Ratio * x >= arrived[j].time + arrived[j].phase}
        BY <2>1 DEF C!DecodeTimes
    <2> QED BY <2>2, <1>10
<1> DEFINE begun == then + ph
           now0 == begun \div Ratio
           now1 == (begun + passed) \div Ratio
           turns == q * M
           near == F[k].ext \div Ratio
           x == t - turns
<1>17. Ratio \in Nat /\ Ratio > 0 /\ M \in Nat /\ M > 0 /\ C!Modulus27 = Ratio * M /\ begun \in Int
       /\ a \in Int
    BY <1>12, ClockNumbers
<1>18. turns \in Int /\ q * C!Modulus27 = turns * Ratio /\ turns * Ratio \in Int
    BY <1>17
<1> HIDE DEF begun
<1>19. now0 \in Int /\ now1 \in Int /\ now0 <= now1 /\ now1 <= now0 + g
    BY <1>11, <1>17, QuotientMoves
<1>20. t = now1 + a
    <2>1. (then + passed) + ph = begun + passed
        BY <1>11, <1>12 DEF begun
    <2> QED BY <2>1, <1>16
<1>21. near = now0 - turns
    <2>1. F[k].ext = begun - (turns * Ratio)
        BY <1>14, <1>18 DEF begun
    <2>2. (begun - (turns * Ratio)) \div Ratio = (begun \div Ratio) - turns
        <3> HIDE DEF turns
        <3> QED BY <1>17, <1>18, QuotientShifts
    <2> QED BY <2>1, <2>2
<1>22. near \in Nat
    <2>1. near \in Int /\ near >= 0
        BY <1>13, <1>17, Division
    <2> QED BY <2>1
<1> HIDE DEF turns, now0, now1, near
<1>23. t \in Int /\ t >= turns
    <2>1. t \in Int
        BY <1>17, <1>19, <1>20
    <2>2. samples[j].raw \in Nat /\ arrived[j].time \in Nat /\ arrived[j].phase \in Nat
        BY <1>1, <1>15, SampleTypes
    <2>3. Ratio * t >= turns * Ratio
        <3>1. Ratio * t \in Int
            BY <2>1, <1>17
        <3> QED BY <3>1, <2>2, <1>14, <1>16, <1>18
    <2>4. t < turns => (t * Ratio) + Ratio <= turns * Ratio
        BY <2>1, <1>17, <1>18, Apart
    <2>5. Ratio * t = t * Ratio /\ t * Ratio \in Int
        BY <2>1, <1>17
    <2> QED BY <2>1, <2>3, <2>4, <2>5, <1>17, <1>18
<1>24. x \in Nat /\ 2 * (x - near) < M /\ 2 * (near - x) < M
    <2>1. -M < 2 * a /\ 2 * (a + g) < M
        BY <1>9
    <2>2. x - near = (now1 - now0) + a /\ x \in Nat /\ x \in Int /\ near \in Int
        BY <1>17, <1>18, <1>19, <1>20, <1>21, <1>22, <1>23
    <2> HIDE DEF x
    <2> QED BY <2>1, <2>2, <1>9, <1>17, <1>19
<1> HIDE DEF x
<1>25. C!ExtendNear(x % M, near) = x
    BY <1>22, <1>24, NearIsExact
<1>26. x % M = t % M
    <2>1. t - (q * M) = x
        BY DEF x, turns
    <2> QED BY <2>1, <1>17, <1>23, ResidueShifts
<1>27. C!DecodeTimeAt(C!Interval(F, k), t % M)
           = Ratio * C!ExtendNear(t % M, near) + (F[k].time - F[k].ext)
    BY DEF C!DecodeTimeAt, C!Interval, near
<1>28. Ratio * x + (then - ((then + ph) - (turns * Ratio))) = Ratio * t - ph
    <2>1. Ratio * x = (Ratio * t) - (turns * Ratio)
        BY <1>17, <1>18, <1>23 DEF x
    <2>2. Ratio * t \in Int
        BY <1>17, <1>23
    <2> QED BY <2>1, <2>2, <1>12, <1>18
<1>29. C!IntervalAt(pos) = C!Interval(F, k)
    BY <1>3, <1>6 DEF F
<1> QED BY <1>13, <1>14, <1>18, <1>25, <1>26, <1>27, <1>28, <1>29

------------------------------------------------------------------------------
(* PCR recovery.                                                           *)

LEMMA RingNumbers ==
    /\ RingSize \in Nat /\ RingSize > 0 /\ BytePace \in Nat /\ Wobble \in Nat
    /\ MaxGap \in Nat /\ MaxGap > 0 /\ MaxJitter \in Nat
    /\ 0 < Wobble /\ Wobble < BytePace
    /\ Wobble * (MaxGap + 1) <= MaxJitter /\ Wobble * (MaxGap + 1) \in Nat
    /\ BytePace * MaxGap \in Nat /\ 2 * (BytePace * MaxGap + Wobble) < RingSize
    /\ Jumps \subseteq 0 .. RingSize - 1 /\ Origins \subseteq 0 .. RingSize - 1
    /\ \A jump \in Jumps :
           /\ jump \in Nat /\ MaxJitter + Wobble * (MaxGap + 1) < jump
           /\ jump < RingSize - (MaxJitter + Wobble * (MaxGap + 1))
<1>1. /\ RingSize \in Nat /\ BytePace \in Nat /\ Wobble \in Nat /\ MaxGap \in Nat
      /\ MaxJitter \in Nat /\ Jumps \subseteq 0 .. RingSize - 1 /\ Origins \subseteq 0 .. RingSize - 1
    BY PcrAssumption DEF R!JitterAssumption
<1>2. /\ 0 < Wobble /\ Wobble < BytePace /\ 0 < MaxGap
      /\ Wobble * (MaxGap + 1) <= MaxJitter
      /\ 2 * (BytePace * MaxGap + Wobble) < RingSize
      /\ \A jump \in Jumps :
           /\ MaxJitter + Wobble * (MaxGap + 1) < jump
           /\ jump < RingSize - (MaxJitter + Wobble * (MaxGap + 1))
    BY PcrAssumption DEF R!JitterAssumption
<1>3. BytePace * MaxGap \in Nat /\ Wobble * (MaxGap + 1) \in Nat
    BY <1>1
<1>4. RingSize > 0
    <2> DEFINE u == BytePace * MaxGap
    <2>1. u \in Nat /\ 2 * (u + Wobble) < RingSize
        BY <1>2, <1>3
    <2> HIDE DEF u
    <2> QED BY <2>1, <1>1, <1>2
<1>5. \A jump \in Jumps : jump \in Nat
    BY <1>1
<1> QED BY <1>1, <1>2, <1>3, <1>4, <1>5

(* What the sender's clock goes on by between two PCRs.                    *)
LEMMA PaceBounds ==
    ASSUME NEW n \in 1 .. MaxGap, NEW d \in -Wobble .. Wobble
    PROVE  /\ BytePace * n \in Nat /\ BytePace * n + d > 0 /\ 2 * (BytePace * n + d) < RingSize
           /\ Wobble * n \in Nat /\ Wobble * n + Wobble <= Wobble * (MaxGap + 1)
<1>1. n \in Nat /\ n > 0 /\ d \in Int /\ -Wobble <= d /\ d <= Wobble
    BY RingNumbers
<1>2. BytePace * n \in Nat /\ BytePace * n >= BytePace /\ BytePace * n <= BytePace * MaxGap
    BY <1>1, RingNumbers
<1>3. Wobble * n \in Nat /\ Wobble * n <= Wobble * MaxGap /\ Wobble * (MaxGap + 1) = Wobble * MaxGap + Wobble
      /\ Wobble * MaxGap \in Nat
    BY <1>1, RingNumbers
<1> DEFINE u == BytePace * n
           v == BytePace * MaxGap
<1>4. u \in Nat /\ v \in Nat /\ u >= BytePace /\ u <= v /\ 2 * (v + Wobble) < RingSize
    BY <1>2, RingNumbers
<1> HIDE DEF u, v
<1>5. u + d > 0 /\ 2 * (u + d) < RingSize
    BY <1>1, <1>4, RingNumbers
<1>6. Wobble * n + Wobble <= Wobble * (MaxGap + 1)
    <2> DEFINE x == Wobble * n
               y == Wobble * MaxGap
               z == Wobble * (MaxGap + 1)
    <2>1. x \in Nat /\ y \in Nat /\ x <= y /\ z = y + Wobble
        BY <1>3
    <2> HIDE DEF x, y, z
    <2>2. x + Wobble <= z
        BY <2>1, RingNumbers
    <2> QED BY <2>2 DEF x, z
<1> QED BY <1>2, <1>3, <1>5, <1>6 DEF u

(* The difference of two PCRs, less than half a turn ahead; and of any two *)
(* but for whole turns.                                                    *)
LEMMA DeltaIsExact ==
    ASSUME NEW a \in 0 .. RingSize - 1, NEW b \in 0 .. RingSize - 1, NEW x \in Int, NEW c \in Int,
           a - b = x + (c * RingSize), 0 < x, 2 * x < RingSize
    PROVE  R!DeltaTicks(a, b) = x
<1> DEFINE t == c * RingSize
           half == R!Half
<1>1. RingSize \in Nat /\ RingSize > 0 /\ t \in Int /\ a \in Int /\ b \in Int
    BY RingNumbers
<1>2. half \in Int /\ 2 * half <= RingSize /\ RingSize <= (2 * half) + 1
    BY <1>1 DEF R!Half
<1>3. t = 0 \/ t = -RingSize
    <2>1. c = 0 \/ c = -1 \/ 1 <= c \/ c <= -2
        OBVIOUS
    <2>2. c = 0 => t = 0
        BY <1>1
    <2>3. c = -1 => t = -RingSize
        BY <1>1
    <2>4. 1 <= c => t >= RingSize
        BY <1>1
    <2>5. c <= -2 => t <= -(2 * RingSize)
        BY <1>1
    <2>6. a - b = x + t
        OBVIOUS
    <2> HIDE DEF t
    <2> QED BY <2>1, <2>2, <2>3, <2>4, <2>5, <2>6, <1>1
<1>4. a - b = x + t
    OBVIOUS
<1> HIDE DEF t, half
<1>5. R!DeltaTicks(a, b) = IF a - b > half THEN (a - b) - RingSize
                           ELSE IF a - b < -half THEN (a - b) + RingSize ELSE a - b
    BY DEF R!DeltaTicks, half
<1> QED BY <1>1, <1>2, <1>3, <1>4, <1>5

LEMMA DeltaIsNear ==
    ASSUME NEW a \in 0 .. RingSize - 1, NEW b \in 0 .. RingSize - 1
    PROVE  \E e \in {-RingSize, 0, RingSize} : R!DeltaTicks(a, b) = (a - b) + e
<1> DEFINE half == R!Half
<1>1. RingSize \in Nat /\ RingSize > 0
    BY RingNumbers
<1>2. half \in Int
    BY <1>1 DEF R!Half
<1> HIDE DEF half
<1>3. R!DeltaTicks(a, b) = IF a - b > half THEN (a - b) - RingSize
                           ELSE IF a - b < -half THEN (a - b) + RingSize ELSE a - b
    BY DEF R!DeltaTicks, half
<1> QED BY <1>1, <1>2, <1>3

(* What is extrapolated from PCRs that are off by a wobble is off by the   *)
(* wobble times as many packets.                                           *)
LEMMA ExtrapolationIsNear ==
    ASSUME NEW m \in Nat, m > 0, NEW n \in Nat, NEW v \in -Wobble .. Wobble,
           BytePace * m \in Nat, BytePace * m + v > 0
    PROVE  \E z \in -(Wobble * n) .. (Wobble * n) :
               R!Quotient((BytePace * m + v) * n, m) = BytePace * n + z
<1>1. BytePace \in Nat /\ Wobble \in Nat /\ v \in Int /\ -Wobble <= v /\ v <= Wobble
    BY RingNumbers
<1> DEFINE s == v * n
           z == s \div m
           r == s % m
           w == Wobble * n
           p == BytePace * n
           all == (BytePace * m + v) * n
<1>2. /\ s \in Int /\ w \in Nat /\ p \in Nat /\ -w <= s /\ s <= w
      /\ w * m \in Int /\ w * m >= w /\ (-w) * m = -(w * m)
    <2>1. s \in Int /\ w \in Nat /\ p \in Nat /\ (Wobble - v) * n >= 0 /\ (Wobble + v) * n >= 0
        BY <1>1
    <2>2. (Wobble - v) * n = w - s /\ (Wobble + v) * n = w + s
        BY <1>1
    <2>3. -w <= s /\ s <= w
        <3> HIDE DEF w, s
        <3> QED BY <2>1, <2>2
    <2> HIDE DEF w
    <2>4. w * m \in Int /\ w * m >= w /\ (-w) * m = -(w * m)
        BY <2>1
    <2> QED BY <2>1, <2>3, <2>4
<1>3. all = (p * m) + s /\ p * m \in Int /\ all \in Int /\ all >= 0
    <2>1. all = ((BytePace * m) * n) + s /\ (BytePace * m) * n = p * m
        BY <1>1
    <2>2. all >= 0 /\ all \in Int
        <3> DEFINE g == BytePace * m + v
        <3>1. g \in Int /\ g > 0
            BY <1>1
        <3> HIDE DEF g
        <3>2. g * n \in Int /\ g * n >= 0
            BY <3>1
        <3> QED BY <3>2 DEF g
    <2> HIDE DEF all, p, s
    <2>3. p * m \in Int
        BY <1>2
    <2> QED BY <2>1, <2>2, <2>3
<1>4. z \in Int /\ r \in 0 .. m - 1 /\ z * m \in Int /\ s = (z * m) + r
    BY <1>2, Division
<1> HIDE DEF s, r, w, p, all, z
<1>5. ~ (w < z)
    <2>1. w < z => (w * m) + m <= z * m
        BY <1>2, <1>4, Apart
    <2> QED BY <2>1, <1>2, <1>4
<1>6. ~ (z < -w)
    <2>1. -w \in Int
        BY <1>2
    <2>2. z < -w => (z * m) + m <= (-w) * m
        BY <2>1, <1>4, Apart
    <2> QED BY <2>2, <1>2, <1>4
<1>7. z \in -w .. w
    BY <1>2, <1>4, <1>5, <1>6
<1>8. all \div m = p + z
    <2> DEFINE k == p + z
    <2>1. k * m = (p * m) + (z * m) /\ k \in Int
        BY <1>2, <1>4
    <2> HIDE DEF k
    <2>2. all = (k * m) + r
        BY <2>1, <1>3, <1>4
    <2>3. all \div m = k
        BY <2>1, <2>2, <1>3, <1>4, OnlyDivision
    <2> QED BY <2>3 DEF k
<1>9. R!Quotient(all, m) = p + z
    BY <1>3, <1>8 DEF R!Quotient
<1> QED BY <1>7, <1>9 DEF all, p, w

(* What the tracker and the sender are made of.                            *)
PcrTypes ==
    /\ ticks \in 0 .. RingSize - 1 /\ distance \in 0 .. MaxGap - 1 /\ received \in Nat
    /\ announced \in BOOLEAN
    /\ since \in [samples : 0 .. 2, before : BOOLEAN, lost : BOOLEAN,
                  jump : 0 .. RingSize - 1, flag : BOOLEAN]
    /\ newest # R!NoPcr => newest \in [pcr : 0 .. RingSize - 1, at : Nat]
    /\ older # R!NoPcr => older \in [pcr : 0 .. RingSize - 1, at : Nat]

(* A signal is pending if one came, or was lost; a jump that no PCR told   *)
(* of was lost.                                                            *)
SignalsKept ==
    /\ announced => since.flag
    /\ since.flag /\ ~since.lost => announced
    /\ ~since.lost => since.jump = 0

(* Whole turns from the PCR seen last, a wobble early, to the clock.       *)
KnownInterval ==
    /\ received - newest.at = distance + 1
    /\ \E w \in 0 .. Wobble, c \in Int :
           ticks = ((newest.pcr - w) + BytePace * (distance + 1)) - c * RingSize

KnownRate ==
    \E v \in -Wobble .. Wobble, m \in 1 .. MaxGap :
        /\ newest.at - older.at = m
        /\ R!DeltaTicks(newest.pcr, older.pcr) = BytePace * m + v

RateKept ==
    /\ newest = R!NoPcr <=> since.samples = 0
    /\ older # R!NoPcr <=> since.samples = 2
    /\ since.samples # 0 /\ ~since.lost => KnownInterval
    /\ since.samples = 2 /\ ~since.before => KnownRate

(* The inductive invariant.                                                *)
RecoveryHeld == PcrTypes /\ SignalsKept /\ RateKept /\ R!RecoveryIsTrue

(* The clock, some ticks on, wraps.                                        *)
LEMMA Turned ==
    ASSUME NEW x \in Int
    PROVE  /\ x % RingSize \in 0 .. RingSize - 1
           /\ \E c \in Int : c * RingSize \in Int /\ x % RingSize = x - (c * RingSize)
<1>1. RingSize \in Nat /\ RingSize > 0
    BY RingNumbers
<1> DEFINE c == x \div RingSize
           r == x % RingSize
<1>2. c \in Int /\ c * RingSize \in Int /\ r \in 0 .. RingSize - 1 /\ x = (c * RingSize) + r
    BY <1>1, Division
<1> HIDE DEF c, r
<1>3. r = x - (c * RingSize)
    BY <1>1, <1>2
<1> QED BY <1>2, <1>3 DEF r

LEMMA RecoveryBegins == R!RecoveryInit => RecoveryHeld
<1> SUFFICES ASSUME R!RecoveryInit PROVE RecoveryHeld
    OBVIOUS
<1>1. /\ ticks \in Origins /\ distance = 0 /\ received = 0 /\ newest = R!NoPcr
      /\ older = R!NoPcr /\ announced = FALSE /\ since = R!Fresh(0, FALSE)
      /\ outcome = R!Nothing
    BY DEF R!RecoveryInit
<1>2. 0 \in 0 .. RingSize - 1 /\ 0 \in 0 .. MaxGap - 1 /\ 0 \in Nat /\ ticks \in 0 .. RingSize - 1
    BY <1>1, RingNumbers
<1>3. since = [samples |-> 0, before |-> FALSE, lost |-> FALSE, jump |-> 0, flag |-> FALSE]
    BY <1>1 DEF R!Fresh
<1>4. /\ since \in [samples : 0 .. 2, before : BOOLEAN, lost : BOOLEAN,
                     jump : 0 .. RingSize - 1, flag : BOOLEAN]
      /\ since.samples = 0 /\ since.flag = FALSE /\ since.jump = 0
    BY <1>2, <1>3
<1>5. PcrTypes
    BY <1>1, <1>2, <1>4, Zenon DEF PcrTypes
<1>6. SignalsKept /\ RateKept
    <2>1. SignalsKept
        BY <1>1, <1>4, Zenon DEF SignalsKept
    <2>2. 0 # 2
        OBVIOUS
    <2>3. RateKept
        BY <2>2, <1>1, <1>4, Zenon DEF RateKept
    <2> QED BY <2>1, <2>3
<1>7. R!RecoveryIsTrue
    BY <1>1 DEF R!RecoveryIsTrue
<1> QED BY <1>5, <1>6, <1>7 DEF RecoveryHeld

(* A packet goes out.                                                      *)
LEMMA SenderMoves ==
    ASSUME PcrTypes, NEW jump \in Jumps \cup {0}, NEW withPcr \in BOOLEAN,
           R!Advance(jump, withPcr)
    PROVE  /\ ticks' \in 0 .. RingSize - 1 /\ distance' \in 0 .. MaxGap - 1
           /\ \E c \in Int : ticks' = ((ticks + jump) + BytePace) - (c * RingSize)
           /\ distance' = IF withPcr THEN 0 ELSE distance + 1
<1>1. /\ withPcr \/ distance + 1 < MaxGap
      /\ ticks' = (ticks + jump + BytePace) % RingSize
      /\ distance' = IF withPcr THEN 0 ELSE distance + 1
    BY DEF R!Advance
<1>2. distance \in Nat /\ jump \in Nat /\ ticks \in Nat
    BY RingNumbers DEF PcrTypes
<1>3. distance' \in 0 .. MaxGap - 1
    BY <1>1, <1>2, RingNumbers
<1>4. ticks + jump + BytePace \in Int /\ ticks + jump + BytePace = (ticks + jump) + BytePace
    BY <1>2, RingNumbers
<1> QED BY <1>1, <1>3, <1>4, Turned

LEMMA TruthIs ==
    ASSUME PcrTypes, NEW flag \in BOOLEAN, NEW jump \in Jumps \cup {0}
    PROVE  /\ R!Truth(flag, jump) \in [samples : 0 .. 2, before : BOOLEAN, lost : BOOLEAN,
                                       jump : 0 .. RingSize - 1, flag : BOOLEAN]
           /\ R!Truth(flag, jump).samples = since.samples
           /\ R!Truth(flag, jump).before = since.before
           /\ R!Truth(flag, jump).lost = since.lost
           /\ R!Truth(flag, jump).flag = (since.flag \/ flag)
           /\ since.jump = 0 => R!Truth(flag, jump).jump = jump
<1> DEFINE s == since
           t == R!Truth(flag, jump)
           sum == (s.jump + jump) % RingSize
<1>1. s \in [samples : 0 .. 2, before : BOOLEAN, lost : BOOLEAN,
             jump : 0 .. RingSize - 1, flag : BOOLEAN]
    BY DEF PcrTypes
<1>2. /\ s.samples \in 0 .. 2 /\ s.before \in BOOLEAN /\ s.lost \in BOOLEAN
      /\ s.jump \in 0 .. RingSize - 1 /\ s.flag \in BOOLEAN
    BY <1>1
<1>3. jump \in 0 .. RingSize - 1
    BY RingNumbers
<1>4. sum \in 0 .. RingSize - 1
    <2>1. s.jump + jump \in Int
        BY <1>2, <1>3
    <2> QED BY <2>1, RingNumbers, Division
<1>5. t = [s EXCEPT !.flag = @ \/ flag, !.jump = sum]
    BY DEF R!Truth
<1>6. s.jump = 0 => sum = jump
    <2> SUFFICES ASSUME s.jump = 0 PROVE sum = jump
        OBVIOUS
    <2>1. s.jump + jump = (0 * RingSize) + jump /\ s.jump + jump \in Int
        BY <1>3, RingNumbers
    <2> QED BY <2>1, <1>3, RingNumbers, OnlyDivision
<1> HIDE DEF s, sum
<1>7. (s.flag \/ flag) \in BOOLEAN
    BY Zenon
<1>8. /\ t \in [samples : 0 .. 2, before : BOOLEAN, lost : BOOLEAN,
                jump : 0 .. RingSize - 1, flag : BOOLEAN]
      /\ t.samples = s.samples /\ t.before = s.before /\ t.lost = s.lost
      /\ t.jump = sum
    BY <1>1, <1>2, <1>4, <1>5, <1>7
<1>9. t.flag = (s.flag \/ flag)
    BY <1>1, <1>5, Zenon
<1> QED BY <1>6, <1>8, <1>9 DEF s

(* The interval goes on with a packet that does not carry a PCR.           *)
LEMMA IntervalGoesOn ==
    ASSUME PcrTypes, KnownInterval, newest # R!NoPcr, received' = received + 1,
           newest' = newest, R!Advance(0, FALSE)
    PROVE  KnownInterval'
<1>1. 0 \in Jumps \cup {0} /\ FALSE \in BOOLEAN
    OBVIOUS
<1>2. PICK e \in Int : ticks' = ((ticks + 0) + BytePace) - (e * RingSize)
    BY <1>1, SenderMoves
<1>3. distance' = distance + 1
    BY <1>1, SenderMoves
<1>4. PICK w \in 0 .. Wobble, c \in Int :
          ticks = ((newest.pcr - w) + BytePace * (distance + 1)) - c * RingSize
    BY DEF KnownInterval
<1>5. /\ RingSize \in Nat /\ BytePace \in Nat /\ w \in Int
      /\ ticks \in Int /\ distance \in Int /\ received \in Int
      /\ newest.pcr \in Int /\ newest.at \in Int
    BY RingNumbers DEF PcrTypes
<1> DEFINE k == c + e
           x == BytePace * (distance + 1)
           y == BytePace * (distance' + 1)
<1>6. /\ k \in Int /\ k * RingSize = (c * RingSize) + (e * RingSize)
      /\ c * RingSize \in Int /\ e * RingSize \in Int
    BY <1>5
<1>7. x \in Int /\ y \in Int /\ y = x + BytePace
    BY <1>3, <1>5
<1> HIDE DEF k, x, y
<1> DEFINE z == newest.pcr
<1>8. ticks' = ((z - w) + y) - (k * RingSize)
    <2> DEFINE u == c * RingSize
               v == e * RingSize
    <2>1. ticks = ((z - w) + x) - u /\ ticks' = ((ticks + 0) + BytePace) - v
        BY <1>2, <1>4 DEF x
    <2>2. k * RingSize = u + v /\ u \in Int /\ v \in Int /\ z \in Int
        BY <1>5, <1>6
    <2> HIDE DEF u, v, z
    <2> QED BY <2>1, <2>2, <1>5, <1>7
<1>9. received' - newest'.at = distance' + 1
    <2> DEFINE a == newest.at
    <2>1. received - a = distance + 1 /\ a \in Int /\ newest'.at = a
        BY <1>5 DEF KnownInterval
    <2> HIDE DEF a
    <2>2. received' - a = distance' + 1
        BY <2>1, <1>3, <1>5
    <2> QED BY <2>1, <2>2
<1> QED BY <1>6, <1>8, <1>9 DEF KnownInterval, y

LEMMA PlainKeeps ==
    ASSUME RecoveryHeld, NEW flag \in BOOLEAN, R!PlainArrives(flag)
    PROVE  RecoveryHeld'
<1>1. PcrTypes /\ SignalsKept /\ RateKept /\ R!RecoveryIsTrue
    BY DEF RecoveryHeld
<1>2. /\ R!Advance(0, FALSE) /\ received' = received + 1
      /\ announced' = (announced \/ flag) /\ since' = R!Truth(flag, 0)
      /\ newest' = newest /\ older' = older /\ outcome' = outcome
    BY DEF R!PlainArrives
<1>3. 0 \in Jumps \cup {0} /\ FALSE \in BOOLEAN
    OBVIOUS
<1>4. /\ since' \in [samples : 0 .. 2, before : BOOLEAN, lost : BOOLEAN,
                     jump : 0 .. RingSize - 1, flag : BOOLEAN]
      /\ since'.samples = since.samples /\ since'.before = since.before
      /\ since'.lost = since.lost /\ since'.flag = (since.flag \/ flag)
      /\ since.jump = 0 => since'.jump = 0
    BY <1>1, <1>2, <1>3, TruthIs
<1>5. PcrTypes'
    <2>1. ticks' \in 0 .. RingSize - 1 /\ distance' \in 0 .. MaxGap - 1
        BY <1>1, <1>2, <1>3, SenderMoves
    <2>2. announced' \in BOOLEAN
        BY <1>2, Zenon
    <2>3. received' \in Nat
        BY <1>1, <1>2 DEF PcrTypes
    <2> QED BY <2>1, <2>2, <2>3, <1>1, <1>2, <1>4 DEF PcrTypes, R!NoPcr
<1>6. SignalsKept'
    BY <1>1, <1>2, <1>4, Zenon DEF SignalsKept
<1>7. RateKept'
    <2>1. since'.samples # 0 /\ ~since'.lost => KnownInterval'
        BY <1>1, <1>2, <1>4, IntervalGoesOn DEF RateKept
    <2>2. KnownRate => KnownRate'
        BY <1>2 DEF KnownRate, R!DeltaTicks, R!Half
    <2>3. R!NoPcr' = R!NoPcr
        BY DEF R!NoPcr
    <2> QED BY <2>1, <2>2, <2>3, <1>1, <1>2, <1>4 DEF RateKept
<1>8. R!RecoveryIsTrue'
    BY <1>1, <1>2 DEF R!RecoveryIsTrue, R!Nothing
<1> QED BY <1>5, <1>6, <1>7, <1>8 DEF RecoveryHeld

(* A packet that is lost leaves the tracker as it is.                      *)
LEMMA LossKeeps ==
    ASSUME RecoveryHeld, NEW flag \in BOOLEAN, NEW jump \in Jumps \cup {0}, NEW withPcr \in BOOLEAN,
           R!Vanishes(flag, jump, withPcr)
    PROVE  RecoveryHeld'
<1>1. PcrTypes /\ SignalsKept /\ RateKept /\ R!RecoveryIsTrue
    BY DEF RecoveryHeld
<1> DEFINE t == R!Truth(flag, jump)
<1>2. /\ R!Advance(jump, withPcr) /\ received' = received
      /\ announced' = announced /\ since' = [t EXCEPT !.lost = TRUE]
      /\ newest' = newest /\ older' = older /\ outcome' = outcome
    BY DEF R!Vanishes
<1>3. /\ t \in [samples : 0 .. 2, before : BOOLEAN, lost : BOOLEAN,
                jump : 0 .. RingSize - 1, flag : BOOLEAN]
      /\ t.samples = since.samples /\ t.before = since.before
      /\ t.flag = (since.flag \/ flag)
    BY <1>1, TruthIs
<1> HIDE DEF t
<1>4. /\ since' \in [samples : 0 .. 2, before : BOOLEAN, lost : BOOLEAN,
                     jump : 0 .. RingSize - 1, flag : BOOLEAN]
      /\ since'.samples = t.samples /\ since'.before = t.before
      /\ since'.lost = TRUE /\ since'.flag = t.flag
    BY <1>2, <1>3
<1>5. PcrTypes'
    <2>1. ticks' \in 0 .. RingSize - 1 /\ distance' \in 0 .. MaxGap - 1
        BY <1>1, <1>2, SenderMoves
    <2> QED BY <2>1, <1>1, <1>2, <1>4 DEF PcrTypes, R!NoPcr
<1>6. SignalsKept'
    BY <1>1, <1>2, <1>3, <1>4, Zenon DEF SignalsKept
<1>7. RateKept'
    <2>1. since'.samples = since.samples /\ since'.before = since.before /\ since'.lost = TRUE
        BY <1>3, <1>4
    <2>2. KnownRate => KnownRate'
        BY <1>2 DEF KnownRate, R!DeltaTicks, R!Half
    <2>3. R!NoPcr' = R!NoPcr
        BY DEF R!NoPcr
    <2> QED BY <2>1, <2>2, <2>3, <1>1, <1>2 DEF RateKept
<1>8. R!RecoveryIsTrue'
    BY <1>1, <1>2 DEF R!RecoveryIsTrue, R!Nothing
<1> QED BY <1>5, <1>6, <1>7, <1>8 DEF RecoveryHeld

(* A PCR, less than a wobble late on the clock of the one before, but for  *)
(* the jump between them.                                                  *)
LEMMA OnTheClock ==
    ASSUME PcrTypes, KnownInterval, newest # R!NoPcr,
           NEW jump \in Jumps \cup {0}, NEW wobble \in 0 .. Wobble
    PROVE  \E d \in -Wobble .. Wobble, n \in 1 .. MaxGap, c \in Int :
               /\ received - newest.at = n
               /\ ((ticks + jump + wobble) % RingSize) - newest.pcr
                      = ((BytePace * n + d) + jump) + c * RingSize
<1>1. PICK w \in 0 .. Wobble, e \in Int :
          ticks = ((newest.pcr - w) + BytePace * (distance + 1)) - e * RingSize
    BY DEF KnownInterval
<1>2. /\ RingSize \in Nat /\ BytePace \in Nat /\ w \in Int /\ wobble \in Int /\ jump \in Int
      /\ Wobble \in Nat /\ MaxGap \in Nat /\ w \in 0 .. Wobble
      /\ ticks \in Int /\ distance \in 0 .. MaxGap - 1 /\ received \in Int
      /\ newest.pcr \in Int /\ newest.at \in Int
    BY RingNumbers DEF PcrTypes
<1> DEFINE here == (ticks + jump + wobble) % RingSize
           n == distance + 1
           d == wobble - w
           x == BytePace * n
<1>3. ticks + jump + wobble \in Int
    BY <1>2
<1>4. PICK f \in Int : f * RingSize \in Int /\ here = (ticks + jump + wobble) - (f * RingSize)
    BY <1>3, Turned
<1>5. n \in 1 .. MaxGap /\ n \in Int /\ received - newest.at = n
    BY <1>2 DEF KnownInterval
<1>6. d \in -Wobble .. Wobble /\ d \in Int
    BY <1>2
<1> DEFINE c == (-e) - f
           u == e * RingSize
           v == f * RingSize
           z == newest.pcr
<1>7. c \in Int /\ c * RingSize = (-u) - v /\ u \in Int /\ v \in Int
    BY <1>2
<1>8. ticks = ((z - w) + x) - u /\ here = (ticks + jump + wobble) - v /\ z \in Int
    BY <1>1, <1>2, <1>4
<1>9. x \in Int
    BY <1>2, <1>5
<1> DEFINE turns == c * RingSize
<1>10. turns = (-u) - v
    BY <1>7
<1> HIDE DEF turns, u, v, z, x, here
<1>11. here - z = ((x + d) + jump) + turns
    BY <1>2, <1>7, <1>8, <1>9, <1>10
<1> QED BY <1>5, <1>6, <1>7, <1>11 DEF here, x, z, turns

(* The rate between two PCRs that nothing came between.                    *)
LEMMA ObservedOnBase ==
    ASSUME NEW a \in 0 .. RingSize - 1, NEW b \in 0 .. RingSize - 1,
           NEW d \in -Wobble .. Wobble, NEW n \in 1 .. MaxGap, NEW c \in Int,
           a - b = ((BytePace * n + d) + 0) + c * RingSize
    PROVE  R!DeltaTicks(a, b) = BytePace * n + d /\ BytePace * n + d > 0
<1> DEFINE x == BytePace * n + d
<1>1. x \in Int /\ 0 < x /\ 2 * x < RingSize
    <2>1. BytePace * n \in Nat /\ d \in Int
        BY PaceBounds, RingNumbers
    <2> QED BY <2>1, PaceBounds
<1>2. a - b = (x + 0) + (c * RingSize) /\ c * RingSize \in Int
    BY RingNumbers
<1> HIDE DEF x
<1>3. a - b = x + (c * RingSize)
    BY <1>1, <1>2
<1>4. R!DeltaTicks(a, b) = x
    BY <1>1, <1>3, DeltaIsExact
<1> QED BY <1>1, <1>4 DEF x

(* A jump that is none to the arithmetic would be a whole turn.            *)
LEMMA JumpIsFar ==
    ASSUME NEW jump \in Jumps, NEW e \in Int, NEW c \in Int,
           -(Wobble * (MaxGap + 1)) <= e, e <= Wobble * (MaxGap + 1)
    PROVE  R!Abs((jump + e) + c * RingSize) > MaxJitter
<1> DEFINE far == Wobble * (MaxGap + 1)
           turns == c * RingSize
<1>1. /\ jump \in Nat /\ MaxJitter + far < jump /\ jump < RingSize - (MaxJitter + far)
      /\ far \in Nat /\ MaxJitter \in Nat /\ RingSize \in Nat /\ RingSize > 0
    BY RingNumbers
<1>2. turns \in Int /\ (turns >= 0 \/ turns <= -RingSize)
    <2>1. c >= 0 \/ c <= -1
        OBVIOUS
    <2>2. c >= 0 => turns >= 0
        BY <1>1
    <2>3. c <= -1 => turns <= -RingSize
        BY <1>1
    <2>4. turns \in Int
        BY <1>1
    <2> QED BY <2>1, <2>2, <2>3, <2>4
<1>3. -far <= e /\ e <= far
    OBVIOUS
<1> HIDE DEF far, turns
<1> DEFINE x == (jump + e) + turns
<1>4. x \in Int /\ (x > MaxJitter \/ x < -MaxJitter)
    BY <1>1, <1>2, <1>3
<1> HIDE DEF x
<1>5. R!Abs(x) > MaxJitter
    BY <1>1, <1>4 DEF R!Abs
<1> QED BY <1>5 DEF x, turns

(* Between PCRs that came one after the other, a new time base is told     *)
(* from a wobble.                                                          *)
LEMMA JumpIsTold ==
    ASSUME PcrTypes, KnownInterval, KnownRate, newest # R!NoPcr, older # R!NoPcr,
           NEW jump \in Jumps \cup {0}, NEW wobble \in 0 .. Wobble,
           NEW here, here.pcr = (ticks + jump + wobble) % RingSize, here.at = received
    PROVE  R!IsJump(here) <=> jump # 0
<1>1. PICK d \in -Wobble .. Wobble, n \in 1 .. MaxGap, c \in Int :
          /\ received - newest.at = n
          /\ ((ticks + jump + wobble) % RingSize) - newest.pcr
                 = ((BytePace * n + d) + jump) + c * RingSize
    BY OnTheClock
<1>2. PICK v \in -Wobble .. Wobble, m \in 1 .. MaxGap :
          /\ newest.at - older.at = m
          /\ R!DeltaTicks(newest.pcr, older.pcr) = BytePace * m + v
    BY DEF KnownRate
<1>3. /\ newest.pcr \in 0 .. RingSize - 1 /\ newest.at \in Nat /\ older.at \in Nat
      /\ ticks \in Int /\ received \in Nat
    BY DEF PcrTypes
<1>4. here.pcr \in 0 .. RingSize - 1
    <2>1. ticks + jump + wobble \in Int
        BY <1>3, RingNumbers
    <2> QED BY <2>1, Turned
<1>5. /\ n \in Nat /\ m \in Nat /\ m > 0 /\ d \in Int /\ -Wobble <= d /\ d <= Wobble
      /\ Wobble \in Nat
    BY RingNumbers
<1>6. /\ BytePace * m \in Nat /\ BytePace * m + v > 0
      /\ BytePace * n \in Nat /\ BytePace * n + d > 0
      /\ Wobble * n \in Nat /\ Wobble * n + Wobble <= Wobble * (MaxGap + 1)
    BY PaceBounds
<1>7. PICK z \in -(Wobble * n) .. (Wobble * n) :
          R!Quotient((BytePace * m + v) * n, m) = BytePace * n + z
    BY <1>5, <1>6, ExtrapolationIsNear
<1>8. R!PredictedDelta(here) = BytePace * n + z
    <2>1. newest.at > older.at /\ here.at - newest.at = n
        BY <1>1, <1>2, <1>3, <1>5
    <2>2. R!PredictedDelta(here) =
              R!Quotient(R!DeltaTicks(newest.pcr, older.pcr) * (here.at - newest.at),
                         newest.at - older.at)
        BY <2>1 DEF R!PredictedDelta
    <2> QED BY <2>1, <2>2, <1>2, <1>7
<1> DEFINE p == BytePace * n
           far == Wobble * (MaxGap + 1)
           w == Wobble * n
           shown == R!ObservedDelta(here)
<1>9. /\ p \in Nat /\ far \in Nat /\ w \in Nat /\ w + Wobble <= far /\ far <= MaxJitter
      /\ z \in Int /\ -w <= z /\ z <= w /\ MaxJitter \in Nat
    BY <1>6, RingNumbers
<1>10. R!IsJump(here) <=> R!Abs(shown - (p + z)) > MaxJitter
    BY <1>8 DEF R!IsJump
<1>11. CASE jump = 0
    <2>1. here.pcr - newest.pcr = ((BytePace * n + d) + 0) + c * RingSize
        BY <1>1, <1>11
    <2>2. shown = p + d
        BY <2>1, <1>3, <1>4, ObservedOnBase DEF R!ObservedDelta
    <2> HIDE DEF p, far, w, shown
    <2>3. shown - (p + z) = d - z /\ d - z \in Int
        BY <2>2, <1>5, <1>9
    <2>4. -far <= d - z /\ d - z <= far
        BY <1>5, <1>9
    <2>5. ~ (R!Abs(d - z) > MaxJitter)
        BY <2>3, <2>4, <1>9 DEF R!Abs
    <2> QED BY <2>3, <2>5, <1>10, <1>11
<1>12. CASE jump # 0
    <2>1. jump \in Jumps /\ jump \in Nat
        BY <1>12, RingNumbers
    <2>2. PICK t \in {-RingSize, 0, RingSize} : shown = (here.pcr - newest.pcr) + t
        BY <1>3, <1>4, DeltaIsNear DEF R!ObservedDelta
    <2>3. PICK k \in Int : t = k * RingSize
        <3>1. -1 \in Int /\ 0 \in Int /\ 1 \in Int /\ RingSize \in Nat
            BY RingNumbers
        <3>2. -RingSize = (-1) * RingSize /\ 0 = 0 * RingSize /\ RingSize = 1 * RingSize
            BY <3>1
        <3> QED BY <3>1, <3>2
    <2> DEFINE u == c * RingSize
               e == d - z
               q == c + k
               x == here.pcr - newest.pcr
    <2>4. /\ u \in Int /\ q * RingSize = u + t /\ t \in Int /\ q * RingSize \in Int /\ q \in Int
        BY <2>3, RingNumbers
    <2>5. x = ((p + d) + jump) + u
        BY <1>1
    <2> HIDE DEF p, far, w, u, q, x
    <2>6. shown - (p + z) = (jump + e) + (q * RingSize)
        BY <2>1, <2>2, <2>4, <2>5, <1>5, <1>9 DEF x
    <2>7. e \in Int /\ -far <= e /\ e <= far
        BY <1>5, <1>9
    <2> HIDE DEF e, shown
    <2>8. R!Abs((jump + e) + (q * RingSize)) > MaxJitter
        BY <2>1, <2>4, <2>7, JumpIsFar DEF far
    <2> QED BY <2>6, <2>8, <1>10, <1>12
<1> QED BY <1>11, <1>12

(* A PCR that arrives: what is remembered of it.                           *)
LEMMA IntervalBegins ==
    ASSUME PcrTypes, NEW jump \in Jumps \cup {0}, NEW wobble \in 0 .. Wobble,
           R!Advance(jump, TRUE), received' = received + 1,
           newest' = [pcr |-> (ticks + jump + wobble) % RingSize, at |-> received]
    PROVE  KnownInterval'
<1>1. TRUE \in BOOLEAN
    OBVIOUS
<1>2. PICK e \in Int : ticks' = ((ticks + jump) + BytePace) - (e * RingSize)
    BY <1>1, SenderMoves
<1>3. distance' = 0
    BY <1>1, SenderMoves
<1>4. /\ RingSize \in Nat /\ BytePace \in Nat /\ wobble \in Int /\ jump \in Int
      /\ ticks \in Int /\ received \in Int
    BY RingNumbers DEF PcrTypes
<1>5. ticks + jump + wobble \in Int
    BY <1>4
<1> DEFINE here == (ticks + jump + wobble) % RingSize
<1>6. PICK f \in Int : f * RingSize \in Int /\ here = (ticks + jump + wobble) - (f * RingSize)
    BY <1>5, Turned
<1> DEFINE c == e - f
           u == e * RingSize
           v == f * RingSize
<1>7. c \in Int /\ c * RingSize = u - v /\ u \in Int /\ v \in Int
    BY <1>4
<1>8. newest'.pcr = here /\ newest'.at = received
    OBVIOUS
<1> HIDE DEF here
<1> DEFINE turns == c * RingSize
<1>9. turns = u - v /\ here = (ticks + jump + wobble) - v /\ ticks' = ((ticks + jump) + BytePace) - u
    BY <1>2, <1>6, <1>7
<1>10. BytePace * (distance' + 1) = BytePace
    BY <1>3, <1>4
<1> HIDE DEF u, v, turns
<1>11. ticks' = ((here - wobble) + BytePace) - turns
    BY <1>4, <1>7, <1>9
<1>12. received' - newest'.at = distance' + 1
    BY <1>3, <1>4, <1>8
<1>13. ticks' = ((newest'.pcr - wobble) + BytePace * (distance' + 1)) - turns
    BY <1>8, <1>10, <1>11
<1> QED BY <1>7, <1>12, <1>13 DEF KnownInterval, turns

(* What is reported of it.                                                 *)
LEMMA OutcomeIsTrue ==
    ASSUME PcrTypes, SignalsKept, RateKept, NEW flag \in BOOLEAN,
           NEW jump \in Jumps \cup {0}, NEW wobble \in 0 .. Wobble, R!PcrArrives(flag, jump, wobble)
    PROVE  R!RecoveryIsTrue'
<1> DEFINE here == [pcr |-> (ticks + jump + wobble) % RingSize, at |-> received]
           t == R!Truth(flag, jump)
           signalled == announced \/ flag
<1>1. /\ R!Observe(here, signalled, t)
    BY DEF R!PcrArrives
<1>2. /\ t.samples = since.samples /\ t.before = since.before /\ t.lost = since.lost
      /\ t.flag = (since.flag \/ flag) /\ (since.jump = 0 => t.jump = jump)
    BY TruthIs
<1>3. here.pcr = (ticks + jump + wobble) % RingSize /\ here.at = received
    OBVIOUS
<1> HIDE DEF here, t, signalled
<1>4. \/ signalled /\ outcome' = [kind |-> "signalled", truth |-> t]
      \/ ~signalled /\ R!IsJump(here) /\ outcome' = [kind |-> "jump", truth |-> t]
      \/ /\ ~signalled /\ ~R!IsJump(here)
         /\ outcome' = [kind |-> "sample", truth |-> t,
                        rate |-> IF newest = R!NoPcr THEN <<0, 1>>
                                 ELSE R!Bitrate(R!ObservedDelta(here), here.at - newest.at)]
    BY <1>1, Zenon DEF R!Observe, R!Report, R!Sample
<1>5. signalled => t.flag
    BY <1>2, Zenon DEF signalled, SignalsKept
<1>6. t.flag /\ ~t.lost => signalled
    BY <1>2, Zenon DEF signalled, SignalsKept
<1>7. ~t.lost => t.jump = jump
    BY <1>2 DEF SignalsKept
<1>8. ~t.before /\ ~t.lost /\ older # R!NoPcr => (R!IsJump(here) <=> jump # 0)
    <2> SUFFICES ASSUME ~t.before, ~t.lost, older # R!NoPcr PROVE R!IsJump(here) <=> jump # 0
        OBVIOUS
    <2>1. since.samples = 2 /\ since.samples # 0 /\ ~since.before /\ ~since.lost
        BY <1>2 DEF RateKept
    <2>2. newest # R!NoPcr /\ KnownInterval /\ KnownRate
        BY <2>1 DEF RateKept
    <2> QED BY <2>2, <1>3, JumpIsTold
<1>9. R!IsJump(here) => older # R!NoPcr
    BY DEF R!IsJump
<1>10. t.samples = 2 => older # R!NoPcr
    BY <1>2 DEF RateKept
<1>11. CASE signalled /\ outcome' = [kind |-> "signalled", truth |-> t]
    <2>1. outcome'.kind = "signalled" /\ outcome'.truth = t
        BY <1>11
    <2>2. t.flag /\ ~ ("signalled" = "jump") /\ ~ ("signalled" = "sample")
        BY <1>5, <1>11
    <2> QED BY <2>1, <2>2, Zenon DEF R!RecoveryIsTrue
<1>12. CASE ~signalled /\ R!IsJump(here) /\ outcome' = [kind |-> "jump", truth |-> t]
    <2>1. outcome'.kind = "jump" /\ outcome'.truth = t
        BY <1>12
    <2>2. t.before \/ t.lost \/ t.jump # 0
        BY <1>7, <1>8, <1>9, <1>12
    <2>3. ~ (t.flag /\ ~t.lost)
        BY <1>6, <1>12
    <2> QED BY <2>1, <2>2, <2>3 DEF R!RecoveryIsTrue
<1>13. CASE /\ ~signalled /\ ~R!IsJump(here)
            /\ outcome' = [kind |-> "sample", truth |-> t,
                           rate |-> IF newest = R!NoPcr THEN <<0, 1>>
                                    ELSE R!Bitrate(R!ObservedDelta(here), here.at - newest.at)]
    <2>1. /\ outcome'.kind = "sample" /\ outcome'.truth = t
          /\ newest # R!NoPcr =>
                 outcome'.rate = R!Bitrate(R!ObservedDelta(here), here.at - newest.at)
        BY <1>13
    <2>2. ~ (t.flag /\ ~t.lost)
        BY <1>6, <1>13
    <2>3. ~ (t.samples = 2 /\ ~t.before /\ t.jump # 0 /\ ~t.lost)
        BY <1>7, <1>8, <1>10, <1>13
    <2>4. ASSUME t.samples > 0, ~t.lost, t.jump = 0
          PROVE  outcome'.rate[2] - BytePace * outcome'.rate[1] \in -Wobble .. Wobble
        <3>1. since.samples # 0 /\ ~since.lost /\ jump = 0
            BY <2>4, <1>2, <1>7
        <3>2. newest # R!NoPcr /\ KnownInterval
            BY <3>1 DEF RateKept
        <3>3. PICK d \in -Wobble .. Wobble, n \in 1 .. MaxGap, c \in Int :
                  /\ received - newest.at = n
                  /\ ((ticks + jump + wobble) % RingSize) - newest.pcr
                         = ((BytePace * n + d) + jump) + c * RingSize
            BY <3>2, OnTheClock
        <3>4. here.pcr - newest.pcr = ((BytePace * n + d) + 0) + c * RingSize
            BY <3>1, <3>3, <1>3
        <3>5. here.pcr \in 0 .. RingSize - 1 /\ newest.pcr \in 0 .. RingSize - 1
            <4>1. newest.pcr \in 0 .. RingSize - 1 /\ ticks + jump + wobble \in Int
                BY <3>2, RingNumbers DEF PcrTypes
            <4> QED BY <4>1, <1>3, Turned
        <3>6. /\ R!ObservedDelta(here) = BytePace * n + d /\ BytePace * n + d > 0
            BY <3>4, <3>5, ObservedOnBase DEF R!ObservedDelta
        <3>7. BytePace * n \in Nat /\ d \in Int /\ n \in Int /\ n # 0
            BY PaceBounds, RingNumbers
        <3>8. R!Bitrate(BytePace * n + d, n) = <<n, BytePace * n + d>>
            <4> DEFINE x == BytePace * n + d
            <4>1. x \in Int /\ ~ (x <= 0)
                BY <3>6, <3>7
            <4> HIDE DEF x
            <4>2. R!Bitrate(x, n) = <<n, x>>
                BY <4>1, <3>7 DEF R!Bitrate
            <4> QED BY <4>2 DEF x
        <3>9. outcome'.rate = <<n, BytePace * n + d>>
            BY <3>2, <3>3, <3>6, <3>8, <2>1, <1>3
        <3>10. (BytePace * n + d) - BytePace * n = d
            BY <3>7
        <3>11. outcome'.rate[1] = n /\ outcome'.rate[2] = BytePace * n + d
            BY <3>9
        <3> QED BY <3>10, <3>11
    <2>5. ~ ("sample" = "signalled") /\ ~ ("sample" = "jump")
        OBVIOUS
    <2> QED BY <2>1, <2>2, <2>3, <2>4, <2>5 DEF R!RecoveryIsTrue
<1> QED BY <1>4, <1>11, <1>12, <1>13

LEMMA ArrivalKeeps ==
    ASSUME RecoveryHeld, NEW flag \in BOOLEAN,
           NEW jump \in Jumps \cup {0}, NEW wobble \in 0 .. Wobble, R!PcrArrives(flag, jump, wobble)
    PROVE  RecoveryHeld'
<1>1. PcrTypes /\ SignalsKept /\ RateKept
    BY DEF RecoveryHeld
<1> DEFINE here == [pcr |-> (ticks + jump + wobble) % RingSize, at |-> received]
           t == R!Truth(flag, jump)
           signalled == announced \/ flag
<1>2. /\ R!Advance(jump, TRUE) /\ received' = received + 1
      /\ R!Observe(here, signalled, t)
    BY DEF R!PcrArrives
<1>3. newest' = here /\ announced' = FALSE
    BY <1>2 DEF R!Observe
<1>4. KnownInterval'
    BY <1>1, <1>2, <1>3, IntervalBegins
<1>5. ticks' \in 0 .. RingSize - 1 /\ distance' \in 0 .. MaxGap - 1
    <2>1. TRUE \in BOOLEAN
        OBVIOUS
    <2> QED BY <2>1, <1>1, <1>2, SenderMoves
<1>6. /\ here \in [pcr : 0 .. RingSize - 1, at : Nat] /\ here # R!NoPcr
      /\ here.pcr = (ticks + jump + wobble) % RingSize /\ here.at = received
      /\ received' \in Nat
    <2>1. ticks + jump + wobble \in Int /\ received \in Nat
        BY <1>1, RingNumbers DEF PcrTypes
    <2>2. (ticks + jump + wobble) % RingSize \in 0 .. RingSize - 1
        BY <2>1, Turned
    <2>3. here.at # R!NoPcr.at
        BY <2>1 DEF R!NoPcr
    <2> QED BY <2>1, <2>2, <2>3, <1>2
<1>7. /\ t.samples = since.samples /\ t.before = since.before /\ t.lost = since.lost
      /\ (since.jump = 0 => t.jump = jump) /\ t.lost \in BOOLEAN /\ since.samples \in 0 .. 2
    <2>1. t \in [samples : 0 .. 2, before : BOOLEAN, lost : BOOLEAN,
                 jump : 0 .. RingSize - 1, flag : BOOLEAN]
        BY <1>1, TruthIs
    <2>2. t.lost \in BOOLEAN /\ since.samples \in 0 .. 2
        BY <2>1, <1>1 DEF PcrTypes
    <2> QED BY <2>2, <1>1, TruthIs
<1>8. R!RecoveryIsTrue'
    BY <1>1, OutcomeIsTrue
<1> DEFINE before == since.samples > 0 /\ (t.lost \/ t.jump # 0)
           samples1 == IF since.samples = 0 THEN 1 ELSE 2
<1>9. \/ older' = R!NoPcr /\ since' = R!Fresh(1, FALSE)
      \/ older' = newest /\ since' = R!Fresh(samples1, before)
    BY <1>2, Zenon DEF R!Observe, R!Report, R!Sample
<1> HIDE DEF here, t, signalled
<1>10. R!NoPcr' = R!NoPcr
    BY DEF R!NoPcr
<1>11. CASE older' = R!NoPcr /\ since' = R!Fresh(1, FALSE)
    <2>1. /\ since' \in [samples : 0 .. 2, before : BOOLEAN, lost : BOOLEAN,
                         jump : 0 .. RingSize - 1, flag : BOOLEAN]
          /\ since'.samples = 1 /\ since'.flag = FALSE /\ since'.jump = 0 /\ since'.lost = FALSE
        <3>1. 0 \in 0 .. RingSize - 1 /\ 1 \in 0 .. 2
            BY RingNumbers
        <3> QED BY <3>1, <1>11 DEF R!Fresh
    <2>2. PcrTypes'
        BY <2>1, <1>3, <1>5, <1>6, <1>10, <1>11 DEF PcrTypes
    <2>3. SignalsKept'
        BY <2>1, <1>3 DEF SignalsKept
    <2>4. RateKept'
        BY <2>1, <1>3, <1>4, <1>6, <1>10, <1>11 DEF RateKept
    <2> QED BY <2>2, <2>3, <2>4, <1>8 DEF RecoveryHeld
<1>12. CASE older' = newest /\ since' = R!Fresh(samples1, before)
    <2>1. before \in BOOLEAN /\ samples1 \in 0 .. 2
        OBVIOUS
    <2> HIDE DEF before, samples1
    <2>2. /\ since' \in [samples : 0 .. 2, before : BOOLEAN, lost : BOOLEAN,
                         jump : 0 .. RingSize - 1, flag : BOOLEAN]
          /\ since'.samples = samples1 /\ since'.flag = FALSE /\ since'.jump = 0
          /\ since'.before = before
        <3>1. 0 \in 0 .. RingSize - 1
            BY RingNumbers
        <3> QED BY <2>1, <3>1, <1>12 DEF R!Fresh
    <2>3. PcrTypes'
        BY <2>2, <1>1, <1>3, <1>5, <1>6, <1>10, <1>12 DEF PcrTypes
    <2>4. SignalsKept'
        BY <2>2, <1>3 DEF SignalsKept
    <2>5. newest # R!NoPcr /\ ~before => KnownRate'
        <3> SUFFICES ASSUME newest # R!NoPcr, ~before PROVE KnownRate'
            OBVIOUS
        <3>1. ~t.lost /\ ~ (t.jump # 0) /\ since.samples # 0
            <4>1. since.samples # 0
                BY <1>1 DEF RateKept
            <4>2. since.samples > 0
                BY <4>1, <1>7
            <4> QED BY <4>1, <4>2 DEF before
        <3>2. jump = 0 /\ KnownInterval
            BY <3>1, <1>1, <1>7 DEF SignalsKept, RateKept
        <3>3. PICK d \in -Wobble .. Wobble, n \in 1 .. MaxGap, c \in Int :
                  /\ received - newest.at = n
                  /\ ((ticks + jump + wobble) % RingSize) - newest.pcr
                         = ((BytePace * n + d) + jump) + c * RingSize
            BY <3>2, <1>1, OnTheClock
        <3>4. here.pcr - newest.pcr = ((BytePace * n + d) + 0) + c * RingSize
            BY <3>2, <3>3, <1>6
        <3>5. here.pcr \in 0 .. RingSize - 1 /\ newest.pcr \in 0 .. RingSize - 1
            BY <1>1, <1>6 DEF PcrTypes
        <3>6. R!DeltaTicks(here.pcr, newest.pcr) = BytePace * n + d
            BY <3>4, <3>5, ObservedOnBase
        <3>7. R!DeltaTicks(newest'.pcr, older'.pcr) = BytePace * n + d
            BY <3>6, <1>3, <1>12
        <3>8. newest'.at - older'.at = n
            BY <3>3, <1>3, <1>6, <1>12
        <3>9. R!DeltaTicks(newest.pcr, older.pcr)' = R!DeltaTicks(newest'.pcr, older'.pcr)
            BY DEF R!DeltaTicks, R!Half
        <3> QED BY <3>7, <3>8, <3>9 DEF KnownRate
    <2>6. samples1 = 2 <=> newest # R!NoPcr
        BY <1>1, <1>7 DEF RateKept, samples1
    <2>7. samples1 # 0
        BY DEF samples1
    <2>8. RateKept'
        BY <2>2, <2>5, <2>6, <2>7, <1>3, <1>4, <1>6, <1>10, <1>12 DEF RateKept
    <2> QED BY <2>3, <2>4, <2>8, <1>8 DEF RecoveryHeld
<1> QED BY <1>9, <1>11, <1>12

LEMMA RecoveryStep == RecoveryHeld /\ [R!RecoveryNext]_(R!pcrVars) => RecoveryHeld'
<1> SUFFICES ASSUME RecoveryHeld, [R!RecoveryNext]_(R!pcrVars) PROVE RecoveryHeld'
    OBVIOUS
<1>1. ASSUME NEW flag \in BOOLEAN, R!PlainArrives(flag) PROVE RecoveryHeld'
    BY <1>1, PlainKeeps
<1>2. ASSUME NEW flag \in BOOLEAN, R!Vanishes(flag, 0, FALSE) PROVE RecoveryHeld'
    <2>1. 0 \in Jumps \cup {0} /\ FALSE \in BOOLEAN
        OBVIOUS
    <2> QED BY <2>1, <1>2, LossKeeps
<1>3. ASSUME NEW flag \in BOOLEAN, NEW jump \in Jumps \cup {0}, NEW wobble \in 0 .. Wobble,
             R!PcrArrives(flag, jump, wobble)
      PROVE  RecoveryHeld'
    BY <1>3, ArrivalKeeps
<1>4. ASSUME NEW flag \in BOOLEAN, NEW jump \in Jumps \cup {0}, R!Vanishes(flag, jump, TRUE)
      PROVE  RecoveryHeld'
    <2>1. TRUE \in BOOLEAN
        OBVIOUS
    <2> QED BY <2>1, <1>4, LossKeeps
<1>5. CASE UNCHANGED R!pcrVars
    <2>1. /\ ticks' = ticks /\ distance' = distance /\ received' = received
          /\ newest' = newest /\ older' = older /\ announced' = announced
          /\ since' = since /\ outcome' = outcome
        BY <1>5 DEF R!pcrVars
    <2> QED BY <2>1 DEF RecoveryHeld, PcrTypes, SignalsKept, RateKept, KnownInterval, KnownRate,
                        R!RecoveryIsTrue, R!NoPcr, R!DeltaTicks, R!Half, R!Nothing
<1> QED BY <1>1, <1>2, <1>3, <1>4, <1>5 DEF R!RecoveryNext

------------------------------------------------------------------------------
(* Both clocks as the receiving side runs them.                            *)

ClocksHeld ==
    /\ machine = "clock" => ClockHeld
    /\ machine = "pcr" => RecoveryHeld

LEMMA ClocksBegin == AllInit => ClocksHeld
BY ClockBegins, RecoveryBegins DEF AllInit, ClocksHeld

LEMMA ClocksStep == ClocksHeld /\ [AllNext]_allVars => ClocksHeld'
<1> SUFFICES ASSUME ClocksHeld, [AllNext]_allVars PROVE ClocksHeld'
    OBVIOUS
<1>1. machine' = machine
    BY DEF AllNext, allVars, Walk, Replay, Collect, Recover, Open, Reassemble
<1>2. ASSUME machine = "clock" PROVE ClockHeld'
    <2>1. "clock" # "walk" /\ "clock" # "buffers" /\ "clock" # "pcr" /\ "clock" # "open" /\ "clock" # "pes"
        OBVIOUS
    <2>2. [C!ClockNext]_(C!clockVars)
        BY <2>1, <1>2 DEF AllNext, allVars, clockVars, C!clockVars, Walk, Replay, Collect,
                          Recover, Open, Reassemble
    <2> QED BY <2>2, <1>2, ClockStep DEF ClocksHeld
<1>3. ASSUME machine = "pcr" PROVE RecoveryHeld'
    <2>1. "pcr" # "walk" /\ "pcr" # "buffers" /\ "pcr" # "clock" /\ "pcr" # "open" /\ "pcr" # "pes"
        OBVIOUS
    <2>2. [R!RecoveryNext]_(R!pcrVars)
        BY <2>1, <1>3 DEF AllNext, allVars, pcrVars, R!pcrVars, Walk, Replay, Collect,
                          Recover, Open, Reassemble
    <2> QED BY <2>2, <1>3, RecoveryStep DEF ClocksHeld
<1> QED BY <1>1, <1>2, <1>3 DEF ClocksHeld

(* Every byte is put through the buffer models at the time it came at: over*)
(* wraps of the PCR, changes of the time base and changes of the rate,     *)
(* ArrivalClock gives it the sender's clock since the first PCR; and what  *)
(* PcrTracker reports is what happened, however PCRs wobble and are lost.  *)
THEOREM ArrivalsAreTrue == AllSpec => []ArrivalIsTrue
<1>1. AllInit => ClocksHeld
    BY ClocksBegin
<1>2. ClocksHeld /\ [AllNext]_allVars => ClocksHeld'
    BY ClocksStep
<1>3. ClocksHeld => ArrivalIsTrue
    <2>1. ClockHeld => C!ArrivalIsTrue
        BY TimesOfBytes DEF C!ArrivalIsTrue
    <2> QED BY <2>1 DEF ClocksHeld, ArrivalIsTrue, RecoveryHeld
<1> QED BY <1>1, <1>2, <1>3, PTL DEF AllSpec

(* Every decode time is mapped onto that clock at the time it names on the *)
(* time base of its packet, however often that has wrapped.                *)
THEOREM DecodeTimesAreTrue == AllSpec => []DecodeIsTrue
<1>1. AllInit => ClocksHeld
    BY ClocksBegin
<1>2. ClocksHeld /\ [AllNext]_allVars => ClocksHeld'
    BY ClocksStep
<1>3. ClocksHeld => DecodeIsTrue
    <2>1. ClockHeld => C!DecodeIsTrue
        BY TimesOfDecoding DEF C!DecodeIsTrue
    <2> QED BY <2>1 DEF ClocksHeld, DecodeIsTrue
<1> QED BY <1>1, <1>2, <1>3, PTL DEF AllSpec

------------------------------------------------------------------------------
(* Reassembly (P, PesReassembler).                                         *)

(* The fields of the reassemblers, of the demuxer and of the file.         *)
PesName    == [pid : Pids, id : Nat]
PesFrag    == [pes : PesName, at : Nat]
PesPacket  == [frags : Seq(PesFrag), rai : BOOLEAN]
PesTypes ==
    /\ buf \in [Pids -> Seq(PesFrag)]
    /\ \A f \in {started, currentRai, pendingRai, indicated, attached, rai} :
           f \in [Pids -> BOOLEAN]
    /\ pes \in [Pids -> [id : Nat, sent : Nat \ {0}, frags : Nat]]
    /\ emitted \in Seq(PesPacket) /\ expected \in Seq(PesPacket)
    /\ eofReached \in BOOLEAN

(* A PES in flight begins with its first fragment, and is the one the      *)
(* multiplexer is sending unless a fault touched it;                       *)
InFlight(p) ==
    started[p] =>
        /\ attached[p] /\ buf[p] # <<>> /\ buf[p][1].at = 1
        /\ buf[p][1].pes = P!Pes(p, pes[p].id) \/ buf[p][1].pes \in touched
(* the PES being sent is in the buffer, as far as it was sent, unless a    *)
(* fault touched it;                                                       *)
Followed(p) ==
    attached[p] /\ ~eofReached /\ P!Pes(p, pes[p].id) \notin touched =>
        /\ started[p] /\ currentRai[p] = rai[p]
        /\ buf[p] = P!Whole(p, pes[p].id, pes[p].sent)
(* the indicator of the next PES is known unless it was lost; and no PES   *)
(* after that one can be touched yet.                                      *)
Foretold(p) ==
    P!Pes(p, pes[p].id + 1) \notin touched => pendingRai[p] = indicated[p]
Untouched(p) ==
    \A k \in Nat : k > pes[p].id + 1 => P!Pes(p, k) \notin touched

PidHeld(p) == InFlight(p) /\ Followed(p) /\ Foretold(p) /\ Untouched(p)
PesHeld ==
    malformed = {} => PesTypes /\ (\A p \in Pids : PidHeld(p)) /\ P!FaultsAreLocal

------------------------------------------------------------------------------
(* Sequences a step at a time.                                             *)

(* What n steps make of what came first,                                   *)
Iterates(T, n, first, step) ==
    \E f \in [0 .. n -> T] : f[0] = first /\ \A i \in 1 .. n : f[i] = step[i][f[i - 1]]

(* which exists for any number of steps.                                   *)
LEMMA Recursion ==
    ASSUME NEW T, NEW n \in Nat, NEW first \in T, NEW step \in [1 .. n -> [T -> T]]
    PROVE  Iterates(T, n, first, step)
<1> DEFINE Upto(f, k) == /\ f \in [0 .. k -> T] /\ f[0] = first
                         /\ \A i \in 1 .. k : f[i] = step[i][f[i - 1]]
           Bad == {k \in 0 .. n : ~ \E f : Upto(f, k)}
<1>1. SUFFICES ASSUME Bad # {} PROVE FALSE
    BY n \in 0 .. n DEF Iterates
<1>2. PICK k \in Bad : \A y \in Bad : k <= y
    <2>1. Bad \subseteq Nat
        OBVIOUS
    <2> HIDE DEF Bad
    <2> QED BY <1>1, <2>1, LeastElement
<1>3. CASE k = 0
    <2>1. Upto([i \in 0 .. 0 |-> first], 0)
        OBVIOUS
    <2> QED BY <2>1, <1>2, <1>3
<1>4. CASE k # 0
    <2>1. k - 1 \in 0 .. n /\ k \in 1 .. n /\ ~ (k <= k - 1)
        BY <1>2, <1>4
    <2>2. PICK f : Upto(f, k - 1)
        BY <2>1, <1>2
    <2> DEFINE h == [i \in 0 .. k |-> IF i = k THEN step[k][f[k - 1]] ELSE f[i]]
    <2>3. f[k - 1] \in T /\ step[k][f[k - 1]] \in T
        BY <2>1, <2>2
    <2>4. h \in [0 .. k -> T] /\ h[0] = first
        BY <2>1, <2>2, <2>3
    <2>5. ASSUME NEW i \in 1 .. k PROVE h[i] = step[i][h[i - 1]]
        <3>1. i - 1 \in 0 .. k /\ i - 1 # k /\ h[i - 1] = f[i - 1]
            BY <2>1
        <3>2. CASE i = k
            BY <3>1, <3>2
        <3>3. CASE i # k
            <4>1. i \in 1 .. k - 1 /\ h[i] = f[i]
                BY <2>1, <3>3
            <4>2. f[i] = step[i][f[i - 1]]
                BY <4>1, <2>2
            <4> QED BY <4>1, <4>2, <3>1
        <3> QED BY <3>2, <3>3
    <2> HIDE DEF h
    <2> QED BY <2>1, <2>4, <2>5, <1>2
<1> QED BY <1>3, <1>4

(* A sequence that is not empty has a last element.                        *)
LEMMA LastTaken ==
    ASSUME NEW S, NEW s \in Seq(S), s # <<>>
    PROVE  \E t \in Seq(S), e \in S : s = Append(t, e) /\ Len(t) = Len(s) - 1 /\ Len(s) \in Nat \ {0}
<1> DEFINE n == Len(s) - 1
           t == [i \in 1 .. n |-> s[i]]
<1>1. Len(s) \in Nat \ {0} /\ n \in Nat
    BY EmptySeq
<1>2. \A i \in 1 .. Len(s) : s[i] \in S
    BY ElementOfSeq
<1>3. t \in Seq(S) /\ Len(t) = n
    BY <1>1, <1>2
<1>4. s[n + 1] \in S
    BY <1>1, <1>2
<1>5. Append(t, s[n + 1]) \in Seq(S) /\ Len(Append(t, s[n + 1])) = Len(s)
    BY <1>1, <1>3, <1>4, AppendProperties
<1>6. ASSUME NEW i \in 1 .. Len(s) PROVE s[i] = Append(t, s[n + 1])[i]
    <2>1. CASE i = n + 1
        <3> HIDE DEF t
        <3> QED BY <2>1, <1>1, <1>3, <1>4, AppendProperties
    <2>2. CASE i # n + 1
        <3>1. i \in 1 .. n /\ t[i] = s[i]
            BY <2>2, <1>1
        <3> HIDE DEF t
        <3> QED BY <3>1, <1>1, <1>3, <1>4, AppendProperties
    <2> QED BY <2>1, <2>2
<1>7. s = Append(t, s[n + 1])
    BY <1>5, <1>6, SeqEqual
<1> QED BY <1>1, <1>3, <1>4, <1>7

LEMMA ConcatAppended ==
    ASSUME NEW S, NEW s \in Seq(S), NEW t \in Seq(S), NEW e \in S
    PROVE  s \o Append(t, e) = Append(s \o t, e)
<1>1. Append(t, e) = t \o <<e>> /\ Append(s \o t, e) = (s \o t) \o <<e>> /\ <<e>> \in Seq(S)
    BY ConcatProperties, AppendIsConcat
<1> QED BY <1>1, ConcatAssociative

Associate(a, b, c) == (a \o b) \o c = a \o (b \o c)
LEMMA Associative ==
    ASSUME NEW S, NEW a, NEW b, NEW c, a \in Seq(S), b \in Seq(S), c \in Seq(S)
    PROVE  Associate(a, b, c)
BY ConcatAssociative DEF Associate

LEMMA AppendOne == ASSUME NEW e PROVE Append(<<>>, e) = <<e>>
    OBVIOUS

(* What is owed of a sequence: the PES packets that are not bad.           *)
One(e, bad) == IF e.frags[1].pes \notin bad THEN <<e>> ELSE <<>>
Kept(s, bad) ==
    LET owed[i \in 0 .. Len(s)] ==
            IF i = 0 THEN <<>>
            ELSE owed[i - 1] \o (IF s[i].frags[1].pes \notin bad THEN <<s[i]>> ELSE <<>>)
    IN  owed[Len(s)]
KeptUpto(f, n, s, bad) ==
    /\ f[0] = <<>>
    /\ \A i \in 1 .. n : f[i] = f[i - 1] \o One(s[i], bad)

LEMMA OneTyped ==
    ASSUME NEW S, NEW bad, NEW e \in S PROVE One(e, bad) \in Seq(S)
BY DEF One

LEMMA KeptFound ==
    ASSUME NEW S, NEW bad, NEW s \in Seq(S)
    PROVE  \E f \in [0 .. Len(s) -> Seq(S)] :
               KeptUpto(f, Len(s), s, bad) /\ Kept(s, bad) = f[Len(s)]
<1> DEFINE n    == Len(s)
           owed == [i \in 1 .. n |-> [q \in Seq(S) |-> q \o One(s[i], bad)]]
           Is(f) == f = [i \in 0 .. Len(s) |->
               IF i = 0 THEN <<>>
               ELSE f[i - 1] \o (IF s[i].frags[1].pes \notin bad THEN <<s[i]>> ELSE <<>>)]
           g == CHOOSE f : Is(f)
<1>1. n \in Nat /\ \A i \in 1 .. n : One(s[i], bad) \in Seq(S)
    BY OneTyped, ElementOfSeq, LenProperties
<1>2. owed \in [1 .. n -> [Seq(S) -> Seq(S)]]
    BY <1>1, ConcatProperties
<1>3. PICK f \in [0 .. n -> Seq(S)] : f[0] = <<>> /\ \A i \in 1 .. n : f[i] = owed[i][f[i - 1]]
    <2>1. <<>> \in Seq(S)
        OBVIOUS
    <2>2. n \in Nat
        BY <1>1
    <2> HIDE DEF owed, n, g, Is
    <2>3. Iterates(Seq(S), n, <<>>, owed)
        BY <2>1, <2>2, <1>2, Recursion, Zenon
    <2> QED BY <2>3, Zenon DEF Iterates
<1>4. ASSUME NEW i \in 1 .. n PROVE f[i] = f[i - 1] \o One(s[i], bad)
    <2>1. i - 1 \in 0 .. n
        BY <1>1
    <2>2. f[i - 1] \in Seq(S)
        BY <2>1, <1>3
    <2>3. f[i] = owed[i][f[i - 1]]
        BY <1>3
    <2>4. owed[i][f[i - 1]] = f[i - 1] \o One(s[i], bad)
        BY <2>2
    <2> QED BY <2>3, <2>4
<1>5. KeptUpto(f, n, s, bad)
    BY <1>3, <1>4, Zenon DEF KeptUpto
<1>6. Is(f)
    <2>1. ASSUME NEW i \in 0 .. n
          PROVE  f[i] = IF i = 0 THEN <<>>
                        ELSE f[i - 1] \o (IF s[i].frags[1].pes \notin bad THEN <<s[i]>> ELSE <<>>)
        <3>1. i = 0 \/ i \in 1 .. n
            OBVIOUS
        <3> QED BY <3>1, <1>3, <1>4, Zenon DEF One
    <2> QED BY <2>1, <1>3, Zenon
<1>7. Is(g)
    BY <1>6, Zenon
<1>8. Kept(s, bad) = g[n]
    BY Zenon DEF Kept
<1>9. /\ g[0] = <<>>
      /\ \A i \in 1 .. n : g[i] = g[i - 1] \o One(s[i], bad)
      /\ DOMAIN g = 0 .. n
    <2> HIDE DEF g
    <2>1. \A i \in 0 .. n :
              g[i] = IF i = 0 THEN <<>>
                     ELSE g[i - 1] \o (IF s[i].frags[1].pes \notin bad THEN <<s[i]>> ELSE <<>>)
        BY <1>7, Zenon
    <2>2. 0 \in 0 .. n /\ \A i \in 1 .. n : i \in 0 .. n /\ i # 0
        BY <1>1
    <2>3. DOMAIN g = 0 .. n
        BY <1>7, Zenon
    <2> QED BY <2>1, <2>2, <2>3, Zenon DEF One
<1> HIDE DEF g, n, owed
<1>10. \A k \in Nat : k \in 0 .. n => g[k] = f[k]
    <2> DEFINE Bad == {k \in Nat : k \in 0 .. n /\ g[k] # f[k]}
    <2>1. SUFFICES ASSUME Bad # {} PROVE FALSE
        BY Zenon
    <2>2. Bad \subseteq Nat
        OBVIOUS
    <2>3. PICK k \in Bad : \A y \in Bad : k <= y
        <3> HIDE DEF Bad
        <3> QED BY <2>1, <2>2, LeastElement
    <2>4. k # 0
        BY <1>3, <1>9, <2>3
    <2>5. k \in 1 .. n /\ k - 1 \in Nat /\ k - 1 \in 0 .. n /\ ~ (k <= k - 1)
        BY <2>3, <2>4, <1>1
    <2>6. g[k - 1] = f[k - 1]
        BY <2>3, <2>5
    <2>7. g[k] = f[k]
        BY <2>5, <2>6, <1>4, <1>9, Zenon
    <2> QED BY <2>3, <2>7
<1>11. n \in 0 .. n
    BY <1>1
<1> QED BY <1>5, <1>8, <1>10, <1>11, <1>1 DEF n

LEMMA KeptTyped ==
    ASSUME NEW S, NEW bad, NEW s \in Seq(S) PROVE Kept(s, bad) \in Seq(S)
<1>1. Len(s) \in 0 .. Len(s)
    BY LenProperties
<1> QED BY <1>1, KeptFound

LEMMA KeptEmpty == ASSUME NEW bad PROVE Kept(<<>>, bad) = <<>>
<1>1. ASSUME NEW s \in Seq({}), s = <<>> PROVE Kept(s, bad) = <<>>
    <2>1. Len(s) = 0
        BY <1>1
    <2>2. PICK f : KeptUpto(f, Len(s), s, bad) /\ Kept(s, bad) = f[Len(s)]
        BY KeptFound
    <2> QED BY <2>1, <2>2 DEF KeptUpto
<1>2. <<>> \in Seq({})
    OBVIOUS
<1> QED BY <1>1, <1>2, Zenon

LEMMA KeptAppend ==
    ASSUME NEW S, NEW bad, NEW s \in Seq(S), NEW e \in S
    PROVE  Kept(Append(s, e), bad) = Kept(s, bad) \o One(e, bad)
<1> DEFINE t == Append(s, e)
           n == Len(s)
<1>1. t \in Seq(S) /\ Len(t) = n + 1 /\ n \in Nat /\ t[n + 1] = e /\ \A i \in 1 .. n : t[i] = s[i]
    BY AppendProperties, LenProperties
<1> HIDE DEF t
<1>2. PICK f \in [0 .. n -> Seq(S)] : KeptUpto(f, n, s, bad) /\ Kept(s, bad) = f[n]
    BY KeptFound
<1>3. PICK g \in [0 .. Len(t) -> Seq(S)] : KeptUpto(g, Len(t), t, bad) /\ Kept(t, bad) = g[Len(t)]
    BY KeptFound, <1>1
<1> HIDE DEF n
<1>4. \A k \in Nat : k <= n => g[k] = f[k]
    <2> DEFINE Bad == {k \in Nat : k <= n /\ g[k] # f[k]}
    <2>1. SUFFICES ASSUME Bad # {} PROVE FALSE
        BY Zenon
    <2>2. Bad \subseteq Nat
        OBVIOUS
    <2>3. PICK k \in Bad : \A y \in Bad : k <= y
        <3> HIDE DEF Bad
        <3> QED BY <2>1, <2>2, LeastElement
    <2>4. k # 0
        BY <1>2, <1>3, <2>3 DEF KeptUpto
    <2>5. /\ k \in 1 .. n /\ k \in 1 .. Len(t) /\ k - 1 \in Nat /\ k - 1 <= n
          /\ ~ (k <= k - 1) /\ k \in Nat
        BY <2>3, <2>4, <1>1
    <2>6. g[k - 1] = f[k - 1]
        BY <2>3, <2>5
    <2>7. g[k] = f[k]
        BY <2>5, <2>6, <1>1, <1>2, <1>3, Zenon DEF KeptUpto
    <2> QED BY <2>3, <2>7
<1>5. g[n + 1] = g[n] \o One(e, bad)
    <2>1. n + 1 \in 1 .. Len(t) /\ (n + 1) - 1 = n
        BY <1>1
    <2>2. g[n + 1] = g[(n + 1) - 1] \o One(t[n + 1], bad)
        BY <2>1, <1>3, Zenon DEF KeptUpto
    <2> QED BY <2>1, <2>2, <1>1
<1>6. g[n] = f[n]
    BY <1>4, <1>1
<1> QED BY <1>1, <1>2, <1>3, <1>5, <1>6 DEF t, n

LEMMA KeptOne == ASSUME NEW e, NEW bad PROVE Kept(<<e>>, bad) = One(e, bad)
<1>1. <<>> \in Seq({e}) /\ e \in {e}
    OBVIOUS
<1>2. One(e, bad) \in Seq({e})
    BY OneTyped, <1>1
<1>3. Kept(Append(<<>>, e), bad) = Kept(<<>>, bad) \o One(e, bad)
    BY <1>1, KeptAppend
<1> QED BY <1>2, <1>3, AppendOne, KeptEmpty, ConcatEmptySeq

(* What is kept of two sequences one after the other,                      *)
LEMMA KeptConcat ==
    ASSUME NEW S, NEW bad, NEW s \in Seq(S), NEW t \in Seq(S)
    PROVE  Kept(s \o t, bad) = Kept(s, bad) \o Kept(t, bad)
<1> DEFINE Wrong(u) == Kept(s \o u, bad) # Kept(s, bad) \o Kept(u, bad)
           Bad == {k \in Nat : \E u \in Seq(S) : Len(u) = k /\ Wrong(u)}
<1>1. SUFFICES ASSUME Bad # {} PROVE FALSE
    BY LenProperties
<1>2. PICK k \in Bad : \A y \in Bad : k <= y
    <2>1. Bad \subseteq Nat
        OBVIOUS
    <2> HIDE DEF Bad
    <2> QED BY <1>1, <2>1, LeastElement
<1>3. PICK u \in Seq(S) : Len(u) = k /\ Wrong(u)
    BY <1>2
<1>4. Kept(s, bad) \in Seq(S)
    BY KeptTyped
<1>5. CASE u = <<>>
    <2>1. s \o u = s /\ Kept(s, bad) \o <<>> = Kept(s, bad)
        BY <1>4, <1>5, ConcatEmptySeq
    <2> QED BY <2>1, <1>3, <1>5, KeptEmpty
<1>6. CASE u # <<>>
    <2>1. PICK v \in Seq(S), e \in S :
              u = Append(v, e) /\ Len(v) = Len(u) - 1 /\ Len(u) \in Nat \ {0}
        BY <1>6, LastTaken
    <2>2. Len(v) \in Nat /\ ~ (k <= Len(v))
        BY <2>1, <1>3
    <2>3. ~Wrong(v)
        <3> HIDE DEF Wrong
        <3> QED BY <2>1, <2>2, <1>2
    <2>4. Kept(s \o v, bad) = Kept(s, bad) \o Kept(v, bad)
        BY <2>3
    <2>5. s \o u = Append(s \o v, e) /\ s \o v \in Seq(S)
        BY <2>1, ConcatAppended, ConcatProperties, SMTT(40)
    <2>6. Kept(s \o u, bad) = Kept(s \o v, bad) \o One(e, bad)
        BY <2>5, KeptAppend
    <2>7. Kept(u, bad) = Kept(v, bad) \o One(e, bad)
        BY <2>1, KeptAppend
    <2>8. Kept(v, bad) \in Seq(S) /\ One(e, bad) \in Seq(S)
        BY KeptTyped, OneTyped
    <2>9. Kept(s \o u, bad) = Kept(s, bad) \o (Kept(v, bad) \o One(e, bad))
        <3>1. (Kept(s, bad) \o Kept(v, bad)) \o One(e, bad)
              = Kept(s, bad) \o (Kept(v, bad) \o One(e, bad))
            <4> HIDE DEF Wrong, Bad
            <4>1. Associate(Kept(s, bad), Kept(v, bad), One(e, bad))
                BY <2>8, <1>4, Associative, Zenon
            <4> QED BY <4>1, Zenon DEF Associate
        <3> QED BY <3>1, <2>4, <2>6
    <2> QED BY <2>7, <2>9, <1>3
<1> QED BY <1>5, <1>6

(* and when more is bad.                                                   *)
LEMMA KeptMore ==
    ASSUME NEW S, NEW bad, NEW worse, NEW s \in Seq(S), bad \subseteq worse
    PROVE  Kept(Kept(s, bad), worse) = Kept(s, worse)
<1> DEFINE Wrong(u) == Kept(Kept(u, bad), worse) # Kept(u, worse)
           Bad == {k \in Nat : \E u \in Seq(S) : Len(u) = k /\ Wrong(u)}
<1>1. SUFFICES ASSUME Bad # {} PROVE FALSE
    BY LenProperties
<1>2. PICK k \in Bad : \A y \in Bad : k <= y
    <2>1. Bad \subseteq Nat
        OBVIOUS
    <2> HIDE DEF Bad
    <2> QED BY <1>1, <2>1, LeastElement
<1>3. PICK u \in Seq(S) : Len(u) = k /\ Wrong(u)
    BY <1>2
<1>5. CASE u = <<>>
    BY <1>3, <1>5, KeptEmpty
<1>6. CASE u # <<>>
    <2>1. PICK v \in Seq(S), e \in S :
              u = Append(v, e) /\ Len(v) = Len(u) - 1 /\ Len(u) \in Nat \ {0}
        BY <1>6, LastTaken
    <2>2. Len(v) \in Nat /\ ~ (k <= Len(v))
        BY <2>1, <1>3
    <2>3. ~Wrong(v)
        <3> HIDE DEF Wrong
        <3> QED BY <2>1, <2>2, <1>2
    <2>4. Kept(Kept(v, bad), worse) = Kept(v, worse)
        BY <2>3
    <2>5. Kept(u, bad) = Kept(v, bad) \o One(e, bad) /\ Kept(u, worse) = Kept(v, worse) \o One(e, worse)
        BY <2>1, KeptAppend
    <2>6. Kept(v, bad) \in Seq(S) /\ One(e, bad) \in Seq(S)
        BY KeptTyped, OneTyped
    <2>7. Kept(Kept(u, bad), worse) = Kept(v, worse) \o Kept(One(e, bad), worse)
        <3>1. Kept(Kept(v, bad) \o One(e, bad), worse)
              = Kept(Kept(v, bad), worse) \o Kept(One(e, bad), worse)
            <4> HIDE DEF Wrong, Bad
            <4> QED BY <2>6, KeptConcat
        <3> QED BY <3>1, <2>4, <2>5
    <2>8. Kept(One(e, bad), worse) = One(e, worse)
        <3>1. CASE e.frags[1].pes \in bad
            <4>1. One(e, bad) = <<>> /\ One(e, worse) = <<>>
                BY <3>1 DEF One
            <4> QED BY <4>1, KeptEmpty
        <3>2. CASE e.frags[1].pes \notin bad
            <4>1. One(e, bad) = <<e>>
                BY <3>2 DEF One
            <4> QED BY <4>1, KeptOne
        <3> QED BY <3>1, <3>2
    <2> QED BY <2>5, <2>7, <2>8, <1>3
<1> QED BY <1>5, <1>6

(* Sequences one after another: the first of them,                         *)
FlattenUpto(f, n, seqs) ==
    \A i \in 1 .. n : f[i] = IF i = 1 THEN seqs[i] ELSE f[i - 1] \o seqs[i]
LEMMA FlattenFound ==
    ASSUME NEW S, NEW seqs \in Seq(Seq(S))
    PROVE  \/ Len(seqs) = 0 /\ P!FlattenSeq(seqs) = <<>>
           \/ \E f \in [1 .. Len(seqs) -> Seq(S)] :
                  /\ FlattenUpto(f, Len(seqs), seqs)
                  /\ Len(seqs) \in Nat \ {0} /\ P!FlattenSeq(seqs) = f[Len(seqs)]
<1> DEFINE n    == Len(seqs)
           more == [i \in 1 .. n |-> [q \in Seq(S) |-> IF i = 1 THEN seqs[i] ELSE q \o seqs[i]]]
           Is(f) == f = [i \in 1 .. Len(seqs) |->
               IF i = 1 THEN seqs[i] ELSE f[i - 1] \o seqs[i]]
           g == CHOOSE f : Is(f)
<1>1. n \in Nat /\ \A i \in 1 .. n : seqs[i] \in Seq(S)
    BY ElementOfSeq, LenProperties
<1>2. CASE n = 0
    <2>1. seqs = <<>>
        BY <1>1, <1>2, EmptySeq
    <2>2. P!FlattenSeq(seqs) = seqs
        BY <1>2 DEF P!FlattenSeq
    <2> QED BY <2>1, <2>2, <1>2
<1>3. CASE n # 0
    <2>1. P!FlattenSeq(seqs) = g[n]
        BY <1>3, Zenon DEF P!FlattenSeq
    <2>2. more \in [1 .. n -> [Seq(S) -> Seq(S)]]
        BY <1>1, ConcatProperties
    <2>3. PICK f \in [0 .. n -> Seq(S)] : f[0] = <<>> /\ \A i \in 1 .. n : f[i] = more[i][f[i - 1]]
        <3>1. n \in Nat
            BY <1>1
        <3>2. <<>> \in Seq(S)
            OBVIOUS
        <3> HIDE DEF more, n, g, Is
        <3>3. Iterates(Seq(S), n, <<>>, more)
            BY <3>1, <3>2, <2>2, Recursion, Zenon
        <3> QED BY <3>3, Zenon DEF Iterates
    <2> DEFINE h == [i \in 1 .. n |-> f[i]]
    <2>4. ASSUME NEW i \in 1 .. n
          PROVE  /\ h[i] \in Seq(S)
                 /\ h[i] = IF i = 1 THEN seqs[i] ELSE h[i - 1] \o seqs[i]
        <3>1. i - 1 \in 0 .. n /\ i \in 0 .. n /\ (i # 1 => i - 1 \in 1 .. n)
            BY <1>1
        <3>2. f[i - 1] \in Seq(S) /\ f[i] \in Seq(S) /\ f[i] = more[i][f[i - 1]]
            BY <3>1, <2>3
        <3>3. more[i][f[i - 1]] = IF i = 1 THEN seqs[i] ELSE f[i - 1] \o seqs[i]
            BY <3>2
        <3>4. h[i] = f[i] /\ (i # 1 => h[i - 1] = f[i - 1])
            BY <3>1
        <3> HIDE DEF h, more
        <3> QED BY <3>2, <3>3, <3>4
    <2>5. Is(h)
        BY <2>4, Zenon
    <2>6. Is(g)
        BY <2>5, Zenon
    <2>7. \A i \in 1 .. n : g[i] = IF i = 1 THEN seqs[i] ELSE g[i - 1] \o seqs[i]
        <3> HIDE DEF g
        <3> QED BY <2>6, Zenon
    <2>8. \A i \in 1 .. n : h[i] \in Seq(S) /\ h[i] = IF i = 1 THEN seqs[i] ELSE h[i - 1] \o seqs[i]
        BY <2>4, Zenon
    <2>9. h \in [1 .. n -> Seq(S)]
        BY <2>4
    <2> HIDE DEF g, h, n, more
    <2>10. \A k \in Nat : k \in 1 .. n => g[k] = h[k]
        <3> DEFINE Bad == {k \in Nat : k \in 1 .. n /\ g[k] # h[k]}
        <3>1. SUFFICES ASSUME Bad # {} PROVE FALSE
            BY Zenon
        <3>2. Bad \subseteq Nat
            OBVIOUS
        <3>3. PICK k \in Bad : \A y \in Bad : k <= y
            <4> HIDE DEF Bad
            <4> QED BY <3>1, <3>2, LeastElement
        <3>4. k # 1
            BY <2>7, <2>8, <3>3
        <3>5. k \in 1 .. n /\ k - 1 \in Nat /\ k - 1 \in 1 .. n /\ ~ (k <= k - 1)
            BY <3>3, <3>4, <1>1
        <3>6. g[k - 1] = h[k - 1]
            BY <3>3, <3>5
        <3>7. g[k] = h[k]
            BY <3>5, <3>6, <2>7, <2>8, Zenon
        <3> QED BY <3>3, <3>7
    <2>11. n \in 1 .. n /\ n \in Nat \ {0}
        BY <1>1, <1>3
    <2>12. FlattenUpto(h, n, seqs)
        BY <2>8, Zenon DEF FlattenUpto
    <2> QED BY <2>1, <2>9, <2>10, <2>11, <2>12 DEF n
<1> QED BY <1>2, <1>3

(* and what is kept of them, when the same is kept of each.                *)
LEMMA FlattenTyped ==
    ASSUME NEW S, NEW seqs \in Seq(Seq(S)) PROVE P!FlattenSeq(seqs) \in Seq(S)
<1>1. CASE Len(seqs) = 0 /\ P!FlattenSeq(seqs) = <<>>
    BY <1>1
<1>2. CASE \E f \in [1 .. Len(seqs) -> Seq(S)] :
               Len(seqs) \in Nat \ {0} /\ P!FlattenSeq(seqs) = f[Len(seqs)]
    <2>1. PICK f \in [1 .. Len(seqs) -> Seq(S)] :
              Len(seqs) \in Nat \ {0} /\ P!FlattenSeq(seqs) = f[Len(seqs)]
        BY <1>2
    <2>2. Len(seqs) \in 1 .. Len(seqs)
        BY <2>1
    <2> QED BY <2>1, <2>2
<1> QED BY <1>1, <1>2, FlattenFound

LEMMA KeptFlatten ==
    ASSUME NEW S, NEW bad, NEW xs \in Seq(Seq(S)), NEW ys \in Seq(Seq(S)), Len(xs) = Len(ys),
           \A i \in 1 .. Len(xs) : Kept(xs[i], bad) = Kept(ys[i], bad)
    PROVE  Kept(P!FlattenSeq(xs), bad) = Kept(P!FlattenSeq(ys), bad)
<1> DEFINE n == Len(xs)
<1>1. n \in Nat /\ (\A i \in 1 .. n : xs[i] \in Seq(S) /\ ys[i] \in Seq(S))
    BY ElementOfSeq, LenProperties
<1>2. CASE n = 0
    <2>1. P!FlattenSeq(xs) = <<>> /\ P!FlattenSeq(ys) = <<>>
        BY <1>2, FlattenFound
    <2> QED BY <2>1
<1>3. CASE n # 0
    <2>1. PICK f \in [1 .. n -> Seq(S)] : FlattenUpto(f, n, xs) /\ P!FlattenSeq(xs) = f[n]
        BY <1>3, FlattenFound
    <2>2. PICK g \in [1 .. n -> Seq(S)] : FlattenUpto(g, n, ys) /\ P!FlattenSeq(ys) = g[n]
        BY <1>3, FlattenFound
    <2>0. \A i \in 1 .. n : Kept(xs[i], bad) = Kept(ys[i], bad)
        OBVIOUS
    <2> HIDE DEF n
    <2> DEFINE Bad == {k \in Nat : k \in 1 .. n /\ Kept(f[k], bad) # Kept(g[k], bad)}
    <2>3. ASSUME Bad # {} PROVE FALSE
        <3>1. PICK k \in Bad : \A y \in Bad : k <= y
            <4>1. Bad \subseteq Nat
                OBVIOUS
            <4> HIDE DEF Bad
            <4> QED BY <2>3, <4>1, LeastElement
        <3>2. CASE k = 1
            <4>1. f[k] = xs[k] /\ g[k] = ys[k]
                BY <3>1, <3>2, <2>1, <2>2 DEF FlattenUpto
            <4> QED BY <4>1, <3>1, <2>0
        <3>3. CASE k # 1
            <4>1. k \in 1 .. n /\ k - 1 \in Nat /\ k - 1 \in 1 .. n /\ ~ (k <= k - 1)
                BY <3>1, <3>3, <1>1
            <4>2. Kept(f[k - 1], bad) = Kept(g[k - 1], bad)
                BY <3>1, <4>1
            <4>3. f[k] = f[k - 1] \o xs[k] /\ g[k] = g[k - 1] \o ys[k]
                BY <4>1, <3>3, <2>1, <2>2 DEF FlattenUpto
            <4>4. /\ f[k - 1] \in Seq(S) /\ g[k - 1] \in Seq(S)
                  /\ xs[k] \in Seq(S) /\ ys[k] \in Seq(S)
                BY <4>1, <1>1, <2>1, <2>2
            <4>5. Kept(f[k], bad) = Kept(f[k - 1], bad) \o Kept(xs[k], bad)
                <5> DEFINE a == f[k - 1]
                           b == xs[k]
                <5>1. a \in Seq(S) /\ b \in Seq(S)
                    BY <4>4
                <5> HIDE DEF a, b, Bad
                <5>2. Kept(a \o b, bad) = Kept(a, bad) \o Kept(b, bad)
                    BY <5>1, KeptConcat
                <5> QED BY <4>3, <5>2 DEF a, b
            <4>6. Kept(g[k], bad) = Kept(g[k - 1], bad) \o Kept(ys[k], bad)
                <5> DEFINE a == g[k - 1]
                           b == ys[k]
                <5>1. a \in Seq(S) /\ b \in Seq(S)
                    BY <4>4
                <5> HIDE DEF a, b, Bad
                <5>2. Kept(a \o b, bad) = Kept(a, bad) \o Kept(b, bad)
                    BY <5>1, KeptConcat
                <5> QED BY <4>3, <5>2 DEF a, b
            <4>7. Kept(xs[k], bad) = Kept(ys[k], bad)
                BY <4>1, <2>0
            <4> QED BY <4>2, <4>5, <4>6, <4>7, <3>1
        <3> QED BY <3>2, <3>3
    <2>4. n \in Nat /\ n \in 1 .. n
        BY <1>1, <1>3
    <2>5. Kept(f[n], bad) = Kept(g[n], bad)
        BY <2>3, <2>4
    <2> QED BY <2>1, <2>2, <2>5
<1> QED BY <1>2, <1>3

------------------------------------------------------------------------------
(* The order the reassemblers are flushed in.                              *)
Rising(order, S) ==
    /\ order \in [1 .. Cardinality(S) -> S]
    /\ \A i, j \in 1 .. Cardinality(S) : i < j => order[i] < order[j]

LEMMA RisingExists ==
    ASSUME NEW A, A \subseteq Nat, IsFiniteSet(A)
    PROVE  \E order : Rising(order, A)
<1> DEFINE Wrong(S) == S \subseteq Nat /\ IsFiniteSet(S) /\ ~ \E order : Rising(order, S)
           Bad == {k \in Nat : \E S : Cardinality(S) = k /\ Wrong(S)}
<1>1. SUFFICES ASSUME Bad # {} PROVE FALSE
    BY FS_CardinalityType
<1>2. PICK k \in Bad : \A y \in Bad : k <= y
    <2>1. Bad \subseteq Nat
        OBVIOUS
    <2> HIDE DEF Bad
    <2> QED BY <1>1, <2>1, LeastElement
<1>3. PICK S : Cardinality(S) = k /\ Wrong(S)
    BY <1>2
<1>4. k \in Nat /\ S \subseteq Nat /\ IsFiniteSet(S) /\ Cardinality(S) = k
    BY <1>2, <1>3
<1>5. CASE k = 0
    <2>1. Rising([i \in 1 .. 0 |-> 0], S)
        BY <1>4, <1>5 DEF Rising
    <2> QED BY <2>1, <1>3
<1>6. CASE k # 0
    <2>1. S # {}
        BY <1>4, <1>6, FS_EmptySet
    <2>2. PICK x \in S : \A y \in S : x <= y
        BY <1>4, <2>1, LeastElement
    <2> DEFINE others == S \ {x}
    <2>3. IsFiniteSet(others) /\ Cardinality(others) = k - 1 /\ others \subseteq Nat
        BY <1>4, <2>2, FS_RemoveElement
    <2>4. k - 1 \in Nat /\ ~ (k <= k - 1)
        BY <1>4, <1>6
    <2>5. ~Wrong(others)
        <3> HIDE DEF others, Wrong
        <3> QED BY <2>3, <2>4, <1>2
    <2>6. PICK rest : Rising(rest, others)
        BY <2>3, <2>5
    <2> DEFINE order == [i \in 1 .. k |-> IF i = 1 THEN x ELSE rest[i - 1]]
    <2>7. rest \in [1 .. k - 1 -> others] /\ \A i, j \in 1 .. k - 1 : i < j => rest[i] < rest[j]
        BY <2>3, <2>6 DEF Rising
    <2>8. ASSUME NEW i \in 1 .. k, i # 1
          PROVE  i - 1 \in 1 .. k - 1 /\ order[i] = rest[i - 1] /\ rest[i - 1] \in others
        <3>1. i - 1 \in 1 .. k - 1
            BY <1>4, <2>8
        <3> QED BY <3>1, <2>7, <2>8
    <2>9. order \in [1 .. k -> S]
        BY <2>2, <2>8
    <2>10. ASSUME NEW i \in 1 .. k, NEW j \in 1 .. k, i < j PROVE order[i] < order[j]
        <3>1. j # 1
            BY <2>10, <1>4
        <3>2. CASE i = 1
            <4>1. order[j] \in others /\ order[i] = x
                BY <3>1, <3>2, <2>8
            <4>2. x <= order[j] /\ x # order[j] /\ x \in Nat /\ order[j] \in Nat
                BY <4>1, <2>2, <1>4
            <4> QED BY <4>1, <4>2
        <3>3. CASE i # 1
            <4>1. /\ i - 1 \in 1 .. k - 1 /\ j - 1 \in 1 .. k - 1
                  /\ order[i] = rest[i - 1] /\ order[j] = rest[j - 1]
                BY <3>1, <3>3, <2>8
            <4>2. i - 1 < j - 1
                BY <2>10, <1>4
            <4> QED BY <4>1, <4>2, <2>7
        <3> QED BY <3>2, <3>3
    <2>11. Rising(order, S)
        <3> HIDE DEF order
        <3> QED BY <2>9, <2>10, <1>4 DEF Rising
    <2> QED BY <2>11, <1>3
<1> QED BY <1>5, <1>6

LEMMA OrderFound ==
    /\ P!Ascending \in [1 .. Cardinality(Pids) -> Pids]
    /\ Cardinality(Pids) \in Nat
    /\ DOMAIN P!Ascending = 1 .. Cardinality(Pids)
<1>1. Pids \subseteq Nat /\ IsFiniteSet(Pids)
    BY PesAssumption, Zenon DEF P!PidAssumption, P!IsFiniteSet, IsFiniteSet
<1>2. PICK order : Rising(order, Pids)
    BY <1>1, RisingExists
<1>3. /\ order \in [1 .. Cardinality(Pids) -> Pids]
      /\ \A i, j \in DOMAIN order : i < j => order[i] < order[j]
    BY <1>2 DEF Rising
<1>4. P!Ascending \in [1 .. Cardinality(Pids) -> Pids]
    BY <1>3, Zenon DEF P!Ascending, P!Cardinality, Cardinality
<1> QED BY <1>1, <1>4, FS_CardinalityType

LEMMA SoundIsKept ==
    ASSUME NEW s PROVE P!Sound(s) = Kept(s, touched \cup malformed)
BY Zenon DEF P!Sound, P!Owed, Kept

(* A PES that is closed, and what the reassembler hands on of it.          *)
LEMMA PesNames ==
    ASSUME PesTypes, NEW p \in Pids
    PROVE  /\ p \in Nat
           /\ pes[p].id \in Nat /\ pes[p].sent \in Nat \ {0} /\ pes[p].frags \in Nat
           /\ buf[p] \in Seq(PesFrag) /\ rai[p] \in BOOLEAN /\ currentRai[p] \in BOOLEAN
           /\ started[p] \in BOOLEAN /\ pendingRai[p] \in BOOLEAN /\ indicated[p] \in BOOLEAN
           /\ attached[p] \in BOOLEAN
           /\ \A k \in Nat, j \in Nat : P!Pes(p, k) \in PesName /\ P!Frag(p, k, j) \in PesFrag
<1>1. p \in Nat
    BY PesAssumption DEF P!PidAssumption
<1>2. /\ buf \in [Pids -> Seq(PesFrag)]
      /\ pes \in [Pids -> [id : Nat, sent : Nat \ {0}, frags : Nat]]
    BY Zenon DEF PesTypes
<1>3. /\ rai \in [Pids -> BOOLEAN] /\ currentRai \in [Pids -> BOOLEAN] /\ started \in [Pids -> BOOLEAN]
      /\ pendingRai \in [Pids -> BOOLEAN] /\ indicated \in [Pids -> BOOLEAN]
      /\ attached \in [Pids -> BOOLEAN]
    BY DEF PesTypes
<1>4. \A k \in Nat, j \in Nat : P!Pes(p, k) \in PesName /\ P!Frag(p, k, j) \in PesFrag
    BY DEF P!Pes, P!Frag, PesName, PesFrag
<1> QED BY <1>1, <1>2, <1>3, <1>4

LEMMA WholeTyped ==
    ASSUME NEW p \in Pids, NEW k \in Nat, NEW n \in Nat \ {0}
    PROVE  /\ P!Whole(p, k, n) \in Seq(PesFrag) /\ P!Whole(p, k, n)[1] = P!Frag(p, k, 1)
           /\ P!Whole(p, k, n) # <<>>
<1>1. \A j \in 1 .. n : P!Frag(p, k, j) \in PesFrag
    BY DEF P!Pes, P!Frag, PesName, PesFrag
<1> QED BY <1>1 DEF P!Whole

LEMMA CloseTyped ==
    ASSUME PesTypes, NEW p \in Pids
    PROVE  P!Close(p) \in Seq(PesPacket) /\ P!Flushed(p) \in Seq(PesPacket)
<1>1. P!Whole(p, pes[p].id, pes[p].sent) \in Seq(PesFrag)
    BY PesNames, WholeTyped
<1>2. /\ [frags |-> P!Whole(p, pes[p].id, pes[p].sent), rai |-> rai[p]] \in PesPacket
      /\ [frags |-> buf[p], rai |-> currentRai[p]] \in PesPacket
    BY <1>1, PesNames DEF PesPacket
<1> QED BY <1>2 DEF P!Close, P!Flushed

LEMMA CloseBad ==
    ASSUME PesTypes, NEW p \in Pids, NEW worse, P!Pes(p, pes[p].id) \in worse
    PROVE  Kept(P!Close(p), worse) = <<>>
<1>1. CASE ~attached[p]
    BY <1>1, KeptEmpty DEF P!Close
<1>2. CASE attached[p]
    <2> DEFINE e == [frags |-> P!Whole(p, pes[p].id, pes[p].sent), rai |-> rai[p]]
    <2>1. P!Close(p) = <<e>>
        BY <1>2 DEF P!Close
    <2>2. e.frags = P!Whole(p, pes[p].id, pes[p].sent)
        OBVIOUS
    <2>3. e.frags[1] = P!Frag(p, pes[p].id, 1)
        BY <2>2, PesNames, WholeTyped
    <2>4. e.frags[1].pes = P!Pes(p, pes[p].id)
        BY <2>3 DEF P!Frag
    <2> HIDE DEF e
    <2>5. Kept(<<e>>, worse) = One(e, worse)
        BY KeptOne
    <2> QED BY <2>1, <2>4, <2>5 DEF One
<1> QED BY <1>1, <1>2

LEMMA FlushBad ==
    ASSUME PesTypes, NEW p \in Pids, NEW worse, started[p] => buf[p][1].pes \in worse
    PROVE  Kept(P!Flushed(p), worse) = <<>>
<1>1. CASE ~P!Flushable(p)
    BY <1>1, KeptEmpty DEF P!Flushed
<1>2. CASE P!Flushable(p)
    <2> DEFINE e == [frags |-> buf[p], rai |-> currentRai[p]]
    <2>1. P!Flushed(p) = <<e>>
        BY <1>2 DEF P!Flushed
    <2>2. e.frags = buf[p]
        OBVIOUS
    <2>3. e.frags[1].pes \in worse
        BY <2>2, <1>2 DEF P!Flushable
    <2> HIDE DEF e
    <2>4. Kept(<<e>>, worse) = One(e, worse)
        BY KeptOne
    <2> QED BY <2>1, <2>3, <2>4 DEF One
<1> QED BY <1>1, <1>2

LEMMA FlushFollows ==
    ASSUME PesTypes, malformed = {}, ~eofReached, NEW p \in Pids, InFlight(p), Followed(p),
           P!Pes(p, pes[p].id) \notin touched
    PROVE  P!Flushed(p) = P!Close(p)
<1>1. CASE ~attached[p]
    BY <1>1 DEF InFlight, P!Flushed, P!Flushable, P!Close
<1>2. CASE attached[p]
    <2>1. /\ started[p] /\ currentRai[p] = rai[p]
          /\ buf[p] = P!Whole(p, pes[p].id, pes[p].sent)
        BY <1>2 DEF Followed
    <2>2. P!Flushable(p)
        BY <2>1 DEF InFlight, P!Flushable, P!Parses
    <2> QED BY <1>2, <2>1, <2>2 DEF P!Flushed, P!Close
<1> QED BY <1>1, <1>2

LEMMA SameKept ==
    ASSUME PesTypes, malformed = {}, ~eofReached, NEW p \in Pids, InFlight(p), Followed(p),
           NEW worse, touched \subseteq worse
    PROVE  Kept(P!Flushed(p), worse) = Kept(P!Close(p), worse)
<1>1. CASE P!Pes(p, pes[p].id) \notin touched
    BY <1>1, FlushFollows
<1>2. CASE P!Pes(p, pes[p].id) \in touched
    <2>1. P!Pes(p, pes[p].id) \in worse /\ (started[p] => buf[p][1].pes \in worse)
        BY <1>2 DEF InFlight
    <2> QED BY <2>1, CloseBad, FlushBad
<1> QED BY <1>1, <1>2

(* What is emitted and what is owed go on together.                        *)
LEMMA GoesOn ==
    ASSUME PesTypes, NEW worse, touched \cup malformed \subseteq worse, P!FaultsAreLocal,
           NEW x \in Seq(PesPacket), NEW y \in Seq(PesPacket), Kept(x, worse) = Kept(y, worse)
    PROVE  Kept(emitted \o x, worse) = Kept(expected \o y, worse)
<1> DEFINE bad == touched \cup malformed
<1>1. emitted \in Seq(PesPacket) /\ expected \in Seq(PesPacket)
    BY DEF PesTypes
<1>2. Kept(emitted, bad) = Kept(expected, bad)
    BY SoundIsKept DEF P!FaultsAreLocal
<1>3. /\ Kept(Kept(emitted, bad), worse) = Kept(emitted, worse)
      /\ Kept(Kept(expected, bad), worse) = Kept(expected, worse)
    BY <1>1, KeptMore
<1>4. /\ Kept(emitted \o x, worse) = Kept(emitted, worse) \o Kept(x, worse)
      /\ Kept(expected \o y, worse) = Kept(expected, worse) \o Kept(y, worse)
    BY <1>1, KeptConcat
<1> QED BY <1>2, <1>3, <1>4

(* What PesReassembler::feed makes of a packet, once and twice.            *)
LEMMA StartFed ==
    ASSUME PesTypes, malformed = {}, NEW p \in Pids, InFlight(p), NEW f, NEW ind \in BOOLEAN
    PROVE  P!Feed(P!Reassembler(p), P!Packet(p, TRUE, <<f>>, ind))
           = [buf |-> <<f>>, started |-> TRUE, cur |-> pendingRai[p] \/ ind, pend |-> FALSE,
              out |-> P!Flushed(p), err |-> FALSE]
<1> DEFINE ts == P!Packet(p, TRUE, <<f>>, ind)
           r  == P!Reassembler(p)
<1>1. ts.pusi = TRUE /\ ts.payload = <<f>> /\ ts.rai = ind
    BY DEF P!Packet
<1>2. /\ r.buf = buf[p] /\ r.started = started[p] /\ r.cur = currentRai[p]
      /\ r.pend = pendingRai[p] /\ r.out = <<>> /\ r.err = FALSE
    BY DEF P!Reassembler
<1> HIDE DEF ts, r
<1>3. P!Feed(r, ts) = P!FeedStart(r, ts)
    BY <1>1 DEF P!Feed
<1>4. CASE ~started[p]
    <2>1. P!FeedStart(r, ts) = P!Restarted(r, ts, <<>>)
        BY <1>2, <1>4 DEF P!FeedStart
    <2>2. P!Flushed(p) = <<>>
        BY <1>4 DEF P!Flushed, P!Flushable
    <2> QED BY <1>1, <1>2, <1>3, <2>1, <2>2 DEF P!Restarted, ts, r
<1>5. CASE started[p]
    <2>1. P!Parses(r.buf) /\ P!Flushable(p)
        BY <1>2, <1>5 DEF P!Parses, P!Flushable, InFlight
    <2>2. P!FeedStart(r, ts) = P!Restarted(r, ts, Append(r.out, [frags |-> r.buf, rai |-> r.cur]))
        BY <1>2, <1>5, <2>1, Zenon DEF P!FeedStart
    <2>3. Append(r.out, [frags |-> r.buf, rai |-> r.cur]) = P!Flushed(p)
        BY <1>2, <2>1, AppendOne, Zenon DEF P!Flushed
    <2> QED BY <1>1, <1>2, <1>3, <2>2, <2>3 DEF P!Restarted, ts, r
<1> QED BY <1>4, <1>5

LEMMA StartFedTwice ==
    ASSUME PesTypes, malformed = {}, NEW p \in Pids, InFlight(p), NEW f, f.at = 1,
           NEW ind \in BOOLEAN
    PROVE  P!Feed(P!Feed(P!Reassembler(p), P!Packet(p, TRUE, <<f>>, ind)),
                  P!Packet(p, TRUE, <<f>>, ind))
           = [buf |-> <<f>>, started |-> TRUE, cur |-> ind, pend |-> FALSE,
              out |-> Append(P!Flushed(p), [frags |-> <<f>>, rai |-> pendingRai[p] \/ ind]),
              err |-> FALSE]
<1> DEFINE ts == P!Packet(p, TRUE, <<f>>, ind)
           r  == P!Feed(P!Reassembler(p), ts)
<1>1. ts.pusi = TRUE /\ ts.payload = <<f>> /\ ts.rai = ind
    BY DEF P!Packet
<1>2. /\ r.buf = <<f>> /\ r.started = TRUE /\ r.cur = (pendingRai[p] \/ ind)
      /\ r.pend = FALSE /\ r.out = P!Flushed(p) /\ r.err = FALSE
    <2>1. r = [buf |-> <<f>>, started |-> TRUE, cur |-> pendingRai[p] \/ ind, pend |-> FALSE,
               out |-> P!Flushed(p), err |-> FALSE]
        BY StartFed, Zenon
    <2> HIDE DEF r, ts
    <2> QED BY <2>1
<1> HIDE DEF ts, r
<1>3. P!Feed(r, ts) = P!FeedStart(r, ts)
    BY <1>1 DEF P!Feed
<1>4. P!Parses(r.buf)
    <2>1. <<f>> # <<>> /\ <<f>>[1] = f
        OBVIOUS
    <2> QED BY <1>2, <2>1 DEF P!Parses
<1>5. P!FeedStart(r, ts) = P!Restarted(r, ts, Append(r.out, [frags |-> r.buf, rai |-> r.cur]))
    BY <1>2, <1>4, Zenon DEF P!FeedStart
<1> QED BY <1>1, <1>2, <1>3, <1>5 DEF P!Restarted, ts, r

Grown(p, payload) == IF started[p] THEN buf[p] \o payload ELSE buf[p]
(* A packet inside a PES: what it brings goes to the end of the buffer.    *)
Continued(r, p, payload, ind) ==
    /\ r.buf = Grown(p, payload) /\ r.started = started[p]
    /\ r.cur = currentRai[p] /\ r.pend = (pendingRai[p] \/ ind)
    /\ r.out = <<>> /\ r.err = FALSE

LEMMA ContinuationFed ==
    ASSUME PesTypes, NEW p \in Pids, NEW payload, NEW ind \in BOOLEAN
    PROVE  Continued(P!Feed(P!Reassembler(p), P!Packet(p, FALSE, payload, ind)), p, payload, ind)
<1> DEFINE ts == P!Packet(p, FALSE, payload, ind)
           r  == P!Reassembler(p)
<1>1. ts.pusi = FALSE /\ ts.payload = payload /\ ts.rai = ind
    BY DEF P!Packet
<1>2. /\ r.buf = buf[p] /\ r.started = started[p] /\ r.cur = currentRai[p]
      /\ r.pend = pendingRai[p] /\ r.out = <<>> /\ r.err = FALSE
      /\ r = [buf |-> r.buf, started |-> r.started, cur |-> r.cur, pend |-> r.pend,
              out |-> r.out, err |-> r.err]
    BY DEF P!Reassembler
<1> HIDE DEF ts, r
<1>3. P!Feed(r, ts) = P!FeedContinuation(r, ts)
    BY <1>1 DEF P!Feed
<1>4. Continued(P!FeedContinuation(r, ts), p, payload, ind)
    BY <1>1, <1>2 DEF P!FeedContinuation, Grown, Continued
<1> QED BY <1>3, <1>4, Zenon DEF ts, r

LEMMA ContinuationFedTwice ==
    ASSUME PesTypes, NEW p \in Pids, NEW payload, NEW ind \in BOOLEAN
    PROVE  LET r == P!Feed(P!Feed(P!Reassembler(p), P!Packet(p, FALSE, payload, ind)),
                           P!Packet(p, FALSE, payload, ind))
           IN  /\ r.buf = (IF started[p] THEN (buf[p] \o payload) \o payload ELSE buf[p])
               /\ r.started = started[p]
               /\ r.cur = currentRai[p] /\ r.pend = (pendingRai[p] \/ ind)
               /\ r.out = <<>> /\ r.err = FALSE
<1> DEFINE ts == P!Packet(p, FALSE, payload, ind)
           r  == P!Feed(P!Reassembler(p), ts)
<1>1. ts.pusi = FALSE /\ ts.payload = payload /\ ts.rai = ind
    BY DEF P!Packet
<1>2. /\ r.buf = Grown(p, payload) /\ r.started = started[p] /\ r.cur = currentRai[p]
      /\ r.pend = (pendingRai[p] \/ ind) /\ r.out = <<>> /\ r.err = FALSE
    <2>1. Continued(r, p, payload, ind)
        BY ContinuationFed, Zenon
    <2> QED BY <2>1 DEF Continued
<1>3. r = [buf |-> r.buf, started |-> r.started, cur |-> r.cur, pend |-> r.pend,
           out |-> r.out, err |-> r.err]
    BY DEF P!Feed, P!FeedContinuation, P!Packet, P!Reassembler
<1> HIDE DEF ts, r
<1>4. P!Feed(r, ts) = P!FeedContinuation(r, ts)
    BY <1>1 DEF P!Feed
<1> QED BY <1>1, <1>2, <1>3, <1>4 DEF P!FeedContinuation, Grown, ts, r

(* ReadPackets is what was fed.                                            *)
Fed(ts, n) ==
    CASE n = 0 -> P!Reassembler(ts.pid)
      [] n = 1 -> P!Feed(P!Reassembler(ts.pid), ts)
      [] n = 2 -> P!Feed(P!Feed(P!Reassembler(ts.pid), ts), ts)

LEMMA FedIs ==
    ASSUME NEW ts
    PROVE  /\ Fed(ts, 0) = P!Reassembler(ts.pid)
           /\ Fed(ts, 1) = P!Feed(P!Reassembler(ts.pid), ts)
           /\ Fed(ts, 2) = P!Feed(P!Feed(P!Reassembler(ts.pid), ts), ts)
BY DEF Fed

LEMMA ReadIsFed ==
    ASSUME PesTypes, NEW ts, NEW n, ts.pid \in Pids, P!ReadPackets(ts, n)
    PROVE  LET p == ts.pid
               r == Fed(ts, n)
           IN  /\ buf' = [buf EXCEPT ![p] = r.buf]
               /\ started' = [started EXCEPT ![p] = r.started]
               /\ currentRai' = [currentRai EXCEPT ![p] = r.cur]
               /\ pendingRai' = [pendingRai EXCEPT ![p] = r.pend]
               /\ emitted' = emitted \o r.out
               /\ eofReached' = eofReached
BY Zenon DEF P!ReadPackets, Fed

LEMMA FedAt ==
    ASSUME PesTypes, NEW ts, NEW n, ts.pid \in Pids, P!ReadPackets(ts, n)
    PROVE  LET p == ts.pid
               r == Fed(ts, n)
           IN  /\ buf'[p] = r.buf /\ started'[p] = r.started
               /\ currentRai'[p] = r.cur /\ pendingRai'[p] = r.pend
               /\ emitted' = emitted \o r.out
               /\ eofReached' = eofReached
               /\ \A q \in Pids : q # p =>
                      /\ buf'[q] = buf[q] /\ started'[q] = started[q]
                      /\ currentRai'[q] = currentRai[q] /\ pendingRai'[q] = pendingRai[q]
               /\ (r.buf \in Seq(PesFrag) => buf' \in [Pids -> Seq(PesFrag)])
               /\ (r.started \in BOOLEAN => started' \in [Pids -> BOOLEAN])
               /\ (r.cur \in BOOLEAN => currentRai' \in [Pids -> BOOLEAN])
               /\ (r.pend \in BOOLEAN => pendingRai' \in [Pids -> BOOLEAN])
<1> DEFINE p == ts.pid
           r == Fed(ts, n)
<1>1. p \in Pids
    OBVIOUS
<1>2. /\ buf \in [Pids -> Seq(PesFrag)] /\ started \in [Pids -> BOOLEAN]
      /\ currentRai \in [Pids -> BOOLEAN] /\ pendingRai \in [Pids -> BOOLEAN]
    BY DEF PesTypes
<1>3. /\ buf' = [buf EXCEPT ![p] = r.buf]
      /\ started' = [started EXCEPT ![p] = r.started]
      /\ currentRai' = [currentRai EXCEPT ![p] = r.cur]
      /\ pendingRai' = [pendingRai EXCEPT ![p] = r.pend]
      /\ emitted' = emitted \o r.out
      /\ eofReached' = eofReached
    BY ReadIsFed, Zenon
<1> HIDE DEF p, r
<1>4. /\ buf'[p] = r.buf /\ started'[p] = r.started
      /\ currentRai'[p] = r.cur /\ pendingRai'[p] = r.pend
      /\ \A q \in Pids : q # p =>
             /\ buf'[q] = buf[q] /\ started'[q] = started[q]
             /\ currentRai'[q] = currentRai[q] /\ pendingRai'[q] = pendingRai[q]
    BY <1>1, <1>2, <1>3
<1>5. /\ (r.buf \in Seq(PesFrag) => buf' \in [Pids -> Seq(PesFrag)])
      /\ (r.started \in BOOLEAN => started' \in [Pids -> BOOLEAN])
      /\ (r.cur \in BOOLEAN => currentRai' \in [Pids -> BOOLEAN])
      /\ (r.pend \in BOOLEAN => pendingRai' \in [Pids -> BOOLEAN])
    BY <1>1, <1>2, <1>3
<1> QED BY <1>3, <1>4, <1>5, Zenon DEF p, r

(* What a step leaves alone.                                               *)
LEMMA OthersKeep ==
    ASSUME NEW q \in Pids, PidHeld(q),
           buf'[q] = buf[q], started'[q] = started[q], currentRai'[q] = currentRai[q],
           pendingRai'[q] = pendingRai[q], pes'[q] = pes[q], indicated'[q] = indicated[q],
           attached'[q] = attached[q], rai'[q] = rai[q], eofReached' = eofReached,
           touched \subseteq touched', \A k \in Nat : P!Pes(q, k) \in touched' => P!Pes(q, k) \in touched,
           pes[q].id \in Nat
    PROVE  PidHeld(q)'
<1>1. pes[q].id + 1 \in Nat
    OBVIOUS
<1>2. InFlight(q)'
    BY DEF PidHeld, InFlight, P!Pes
<1>3. Followed(q)'
    <2>1. SUFFICES ASSUME attached'[q], ~eofReached', P!Pes(q, pes'[q].id) \notin touched'
                   PROVE  /\ started'[q] /\ currentRai'[q] = rai'[q]
                          /\ buf'[q] = P!Whole(q, pes'[q].id, pes'[q].sent)
        BY Zenon DEF Followed, P!Pes, P!Whole, P!Frag
    <2>2. attached[q] /\ ~eofReached /\ P!Pes(q, pes[q].id) \notin touched
        BY <2>1
    <2>3. /\ started[q] /\ currentRai[q] = rai[q]
          /\ buf[q] = P!Whole(q, pes[q].id, pes[q].sent)
        BY <2>2 DEF PidHeld, Followed
    <2> QED BY <2>3
<1>4. Foretold(q)'
    BY <1>1, Zenon DEF PidHeld, Foretold, P!Pes
<1>5. Untouched(q)'
    BY DEF PidHeld, Untouched, P!Pes
<1> QED BY <1>2, <1>3, <1>4, <1>5 DEF PidHeld

(* A PES packet starts.                                                    *)
LEMMA StartKeeps ==
    ASSUME PesTypes, malformed = {}, malformed' = {}, ~eofReached, P!FaultsAreLocal,
           \A q \in Pids : PidHeld(q), NEW p \in Pids, P!StartPes(p)
    PROVE  PesTypes' /\ (\A q \in Pids : PidHeld(q)') /\ P!FaultsAreLocal'
<1> DEFINE id == pes[p].id + 1
           f  == P!Frag(p, id, 1)
<1>1. PICK n \in Fates, frags \in 1 .. MaxFrags, ind \in BOOLEAN :
          /\ pes' = [pes EXCEPT ![p] = [id |-> id, sent |-> 1, frags |-> frags]]
          /\ P!ReadPackets(P!Packet(p, TRUE, <<f>>, ind), n)
          /\ touched' = touched \cup P!AffectedByStart(p, n, id)
          /\ expected' = expected \o P!Close(p)
          /\ rai' = [rai EXCEPT ![p] = indicated[p] \/ ind]
          /\ indicated' = [indicated EXCEPT ![p] = FALSE]
          /\ attached' = [attached EXCEPT ![p] = TRUE]
    BY Zenon DEF P!StartPes
<1>2. n \in {0, 1, 2}
    <2>1. Fates \subseteq 0 .. 2
        BY PesAssumption DEF P!FateAssumption
    <2> QED BY <2>1
<1>3. /\ pes[p].id \in Nat /\ id \in Nat /\ id # pes[p].id /\ id - 1 = pes[p].id
      /\ started[p] \in BOOLEAN /\ pendingRai[p] \in BOOLEAN /\ indicated[p] \in BOOLEAN
      /\ currentRai[p] \in BOOLEAN /\ buf[p] \in Seq(PesFrag)
      /\ f \in PesFrag /\ f.at = 1 /\ f.pes = P!Pes(p, id)
    <2>1. f.at = 1 /\ f.pes = P!Pes(p, id)
        BY DEF P!Frag
    <2>2. pes[p].id \in Nat
        BY PesNames
    <2>3. id \in Nat /\ id # pes[p].id /\ id - 1 = pes[p].id
        BY <2>2
    <2> HIDE DEF id
    <2>4. f \in PesFrag
        BY <2>3, PesNames
    <2> QED BY <2>1, <2>2, <2>3, <2>4, PesNames
<1> DEFINE ts == P!Packet(p, TRUE, <<f>>, ind)
           r  == Fed(ts, n)
<1>4. ts.pid = p
    BY DEF P!Packet
<1>5. /\ buf'[p] = r.buf /\ started'[p] = r.started
      /\ currentRai'[p] = r.cur /\ pendingRai'[p] = r.pend
      /\ emitted' = emitted \o r.out
      /\ eofReached' = eofReached
      /\ \A q \in Pids : q # p =>
             /\ buf'[q] = buf[q] /\ started'[q] = started[q]
             /\ currentRai'[q] = currentRai[q] /\ pendingRai'[q] = pendingRai[q]
      /\ (r.buf \in Seq(PesFrag) => buf' \in [Pids -> Seq(PesFrag)])
      /\ (r.started \in BOOLEAN => started' \in [Pids -> BOOLEAN])
      /\ (r.cur \in BOOLEAN => currentRai' \in [Pids -> BOOLEAN])
      /\ (r.pend \in BOOLEAN => pendingRai' \in [Pids -> BOOLEAN])
    <2>1. P!ReadPackets(ts, n) /\ ts.pid \in Pids
        BY <1>1, <1>4
    <2> HIDE DEF ts, f, id
    <2> QED BY <2>1, <1>4, FedAt
<1>6. InFlight(p) /\ Followed(p) /\ Foretold(p) /\ Untouched(p)
    BY DEF PidHeld
<1> DEFINE Typed == /\ r.buf \in Seq(PesFrag) /\ r.started \in BOOLEAN /\ r.cur \in BOOLEAN
                     /\ r.pend \in BOOLEAN /\ r.out \in Seq(PesPacket)
           Same  == Kept(r.out, touched') = Kept(P!Close(p), touched')
<1>7. pes'[p] = [id |-> id, sent |-> 1, frags |-> frags] /\ attached'[p] = TRUE
      /\ rai'[p] = (indicated[p] \/ ind) /\ indicated'[p] = FALSE
    <2> HIDE DEF f, id
    <2>1. /\ pes \in [Pids -> [id : Nat, sent : Nat \ {0}, frags : Nat]]
          /\ attached \in [Pids -> BOOLEAN] /\ rai \in [Pids -> BOOLEAN]
          /\ indicated \in [Pids -> BOOLEAN]
        BY DEF PesTypes
    <2> QED BY <1>1, <2>1
<1>8. \A k \in Nat : k > id + 1 =>
          P!Pes(p, k) \notin touched /\ P!Pes(p, k) \notin P!AffectedByStart(p, n, id)
    <2> SUFFICES ASSUME NEW k \in Nat, k > id + 1
                 PROVE  P!Pes(p, k) \notin touched /\ P!Pes(p, k) \notin P!AffectedByStart(p, n, id)
        OBVIOUS
    <2>1. k > pes[p].id + 1 /\ k # id /\ k # id - 1 /\ k # id + 1
        BY <1>3
    <2>2. P!Pes(p, k) \notin touched
        BY <2>1, <1>6 DEF Untouched
    <2> HIDE DEF id
    <2>3. P!Pes(p, k) # P!Pes(p, id) /\ P!Pes(p, k) # P!Pes(p, id - 1) /\ P!Pes(p, k) # P!Pes(p, id + 1)
        BY <2>1 DEF P!Pes
    <2> QED BY <2>2, <2>3 DEF P!AffectedByStart
<1>9. P!Pes(p, id + 1) \notin touched
    <2>1. id + 1 \in Nat /\ id + 1 > pes[p].id + 1
        BY <1>3
    <2> QED BY <2>1, <1>6 DEF Untouched
<1>10. ASSUME n = 0
       PROVE  /\ Typed /\ Same /\ InFlight(p)' /\ Followed(p)'
              /\ (P!Pes(p, id + 1) \notin touched' => pendingRai'[p] = indicated'[p])
    <2>1. r = P!Reassembler(p)
        <3> HIDE DEF ts
        <3> QED BY <1>4, <1>10, FedIs, Zenon
    <2>2. /\ r.buf = buf[p] /\ r.started = started[p] /\ r.cur = currentRai[p]
          /\ r.pend = pendingRai[p] /\ r.out = <<>>
        <3> HIDE DEF r
        <3> QED BY <2>1 DEF P!Reassembler
    <2>3. Typed
        <3> HIDE DEF r
        <3> QED BY <2>2, <1>3
    <2>4. P!Pes(p, pes[p].id) \in touched' /\ P!Pes(p, id) \in touched' /\ touched \subseteq touched'
        BY <1>1, <1>3, <1>10 DEF P!AffectedByStart
    <2>5. Same
        BY <2>2, <2>4, CloseBad, KeptEmpty
    <2>6. InFlight(p)'
        <3>1. SUFFICES ASSUME started'[p]
                       PROVE  /\ attached'[p] /\ buf'[p] # <<>> /\ buf'[p][1].at = 1
                              /\ buf'[p][1].pes = P!Pes(p, pes'[p].id) \/ buf'[p][1].pes \in touched'
            BY Zenon DEF InFlight, P!Pes
        <3>2. started[p] /\ buf'[p] = buf[p]
            BY <3>1, <2>2, <1>5
        <3> QED BY <3>2, <2>4, <1>6, <1>7 DEF InFlight
    <2>7. Followed(p)'
        <3>1. P!Pes(p, pes'[p].id) \in touched'
            BY <2>4, <1>7
        <3> QED BY <3>1, Zenon DEF Followed, P!Pes
    <2>8. P!Pes(p, id + 1) \notin touched' => pendingRai'[p] = indicated'[p]
        <3>1. SUFFICES ASSUME P!Pes(p, id + 1) \notin touched' PROVE pendingRai'[p] = indicated'[p]
            OBVIOUS
        <3>2. ~indicated[p] /\ P!Pes(p, id) \notin touched
            BY <3>1, <1>1, <1>10 DEF P!AffectedByStart
        <3>3. pendingRai[p] = indicated[p]
            BY <3>2, <1>6 DEF Foretold
        <3> QED BY <3>2, <3>3, <2>2, <1>5, <1>7, <1>3
    <2> QED BY <2>3, <2>5, <2>6, <2>7, <2>8
<1>11. ASSUME n = 1
       PROVE  /\ Typed /\ Same /\ InFlight(p)' /\ Followed(p)'
              /\ (P!Pes(p, id + 1) \notin touched' => pendingRai'[p] = indicated'[p])
    <2>1. r = P!Feed(P!Reassembler(p), ts)
        <3> HIDE DEF ts
        <3> QED BY <1>4, <1>11, FedIs, Zenon
    <2>2. r = [buf |-> <<f>>, started |-> TRUE, cur |-> pendingRai[p] \/ ind, pend |-> FALSE,
               out |-> P!Flushed(p), err |-> FALSE]
        BY <2>1, <1>6, StartFed, Zenon
    <2>3. /\ r.buf = <<f>> /\ r.started = TRUE /\ r.cur = (pendingRai[p] \/ ind)
          /\ r.pend = FALSE /\ r.out = P!Flushed(p)
        <3> HIDE DEF r, f
        <3> QED BY <2>2
    <2>4. Typed
        <3>1. <<f>> \in Seq(PesFrag)
            BY <1>3
        <3> QED BY <3>1, <2>3, <1>3, CloseTyped
    <2>5. touched' = touched
        BY <1>1, <1>11 DEF P!AffectedByStart
    <2>6. Same
        BY <2>3, <2>5, <1>6, SameKept
    <2>7. InFlight(p)'
        <3>1. buf'[p] = <<f>> /\ <<f>> # <<>> /\ <<f>>[1] = f
            BY <2>3, <1>5
        <3> HIDE DEF f
        <3> QED BY <3>1, <1>3, <1>7 DEF InFlight, P!Pes
    <2>8. Followed(p)'
        <3>0. SUFFICES ASSUME P!Pes(p, pes'[p].id) \notin touched'
                       PROVE  /\ started'[p] /\ currentRai'[p] = rai'[p]
                              /\ buf'[p] = P!Whole(p, pes'[p].id, pes'[p].sent)
            BY Zenon DEF Followed, P!Pes, P!Whole, P!Frag
        <3>1. pes'[p].id = id /\ pes'[p].sent = 1
            BY <1>7
        <3>2. P!Pes(p, pes[p].id + 1) \notin touched
            BY <3>0, <3>1, <2>5
        <3>3. pendingRai[p] = indicated[p]
            BY <3>2, <1>6 DEF Foretold
        <3>4. P!Whole(p, id, 1) = <<f>>
            <4> HIDE DEF id
            <4> QED BY DEF P!Whole
        <3>5. /\ started'[p] /\ buf'[p] = <<f>> /\ currentRai'[p] = (pendingRai[p] \/ ind)
              /\ rai'[p] = (indicated[p] \/ ind)
            BY <2>3, <1>5, <1>7, Zenon
        <3> HIDE DEF f, id
        <3> QED BY <3>1, <3>3, <3>4, <3>5, Zenon
    <2>9. P!Pes(p, id + 1) \notin touched' => pendingRai'[p] = indicated'[p]
        BY <2>3, <1>5, <1>7
    <2> QED BY <2>4, <2>6, <2>7, <2>8, <2>9
<1>12. ASSUME n = 2
       PROVE  /\ Typed /\ Same /\ InFlight(p)' /\ Followed(p)'
              /\ (P!Pes(p, id + 1) \notin touched' => pendingRai'[p] = indicated'[p])
    <2>1. r = P!Feed(P!Feed(P!Reassembler(p), ts), ts)
        <3> HIDE DEF ts
        <3> QED BY <1>4, <1>12, FedIs, Zenon
    <2> DEFINE e == [frags |-> <<f>>, rai |-> pendingRai[p] \/ ind]
    <2>2. r = [buf |-> <<f>>, started |-> TRUE, cur |-> ind, pend |-> FALSE,
               out |-> Append(P!Flushed(p), e), err |-> FALSE]
        BY <2>1, <1>3, <1>6, StartFedTwice, Zenon
    <2>3. /\ r.buf = <<f>> /\ r.started = TRUE /\ r.cur = ind
          /\ r.pend = FALSE /\ r.out = Append(P!Flushed(p), e)
        <3> HIDE DEF r, f, e
        <3> QED BY <2>2
    <2>4. e \in PesPacket /\ e.frags[1].pes = P!Pes(p, id)
        <3>1. <<f>> \in Seq(PesFrag) /\ <<f>>[1] = f /\ e.frags = <<f>>
            BY <1>3
        <3>2. e.frags[1].pes = P!Pes(p, id)
            BY <3>1, <1>3
        <3> HIDE DEF f
        <3> QED BY <3>1, <3>2, <1>3 DEF PesPacket
    <2>5. Typed
        <3>1. <<f>> \in Seq(PesFrag)
            BY <1>3
        <3>2. P!Flushed(p) \in Seq(PesPacket)
            BY CloseTyped
        <3>3. Append(P!Flushed(p), e) \in Seq(PesPacket)
            BY <3>2, <2>4, AppendProperties
        <3> QED BY <3>1, <3>3, <2>3
    <2>6. P!Pes(p, id) \in touched' /\ touched \subseteq touched'
        BY <1>1, <1>12 DEF P!AffectedByStart
    <2>7. Same
        <3>1. Kept(P!Flushed(p), touched') = Kept(P!Close(p), touched')
            BY <2>6, <1>6, SameKept
        <3>2. P!Flushed(p) \in Seq(PesPacket) /\ P!Close(p) \in Seq(PesPacket)
            BY CloseTyped
        <3>3. Kept(Append(P!Flushed(p), e), touched') = Kept(P!Flushed(p), touched') \o One(e, touched')
            BY <3>2, <2>4, KeptAppend
        <3>4. One(e, touched') = <<>>
            <4> HIDE DEF e
            <4> QED BY <2>4, <2>6 DEF One
        <3>5. Kept(P!Flushed(p), touched') \in Seq(PesPacket)
            BY <3>2, KeptTyped
        <3>6. Kept(P!Flushed(p), touched') \o <<>> = Kept(P!Flushed(p), touched')
            BY <3>5, ConcatEmptySeq
        <3> QED BY <3>1, <3>3, <3>4, <3>6, <2>3
    <2>8. InFlight(p)'
        <3>1. buf'[p] = <<f>> /\ <<f>> # <<>> /\ <<f>>[1] = f
            BY <2>3, <1>5
        <3> HIDE DEF f
        <3> QED BY <3>1, <1>3, <1>7 DEF InFlight, P!Pes
    <2>9. Followed(p)'
        <3>1. P!Pes(p, pes'[p].id) \in touched'
            BY <2>6, <1>7
        <3> QED BY <3>1, Zenon DEF Followed, P!Pes
    <2>10. P!Pes(p, id + 1) \notin touched' => pendingRai'[p] = indicated'[p]
        BY <2>3, <1>5, <1>7
    <2> QED BY <2>5, <2>7, <2>8, <2>9, <2>10
<1>13. Typed /\ Same /\ InFlight(p)' /\ Followed(p)'
       /\ (P!Pes(p, id + 1) \notin touched' => pendingRai'[p] = indicated'[p])
    BY <1>2, <1>10, <1>11, <1>12
<1> HIDE DEF r, ts, f
<1>14. PidHeld(p)'
    <2>1. Foretold(p)'
        <3>1. SUFFICES ASSUME P!Pes(p, pes'[p].id + 1) \notin touched'
                       PROVE  pendingRai'[p] = indicated'[p]
            BY Zenon DEF Foretold, P!Pes
        <3> QED BY <3>1, <1>13, <1>7
    <2>2. Untouched(p)'
        <3> SUFFICES ASSUME NEW k \in Nat, k > pes'[p].id + 1 PROVE P!Pes(p, k) \notin touched'
            BY Zenon DEF Untouched, P!Pes
        <3> QED BY <1>1, <1>7, <1>8
    <2> QED BY <1>13, <2>1, <2>2 DEF PidHeld
<1>15. \A q \in Pids : PidHeld(q)'
    <2> SUFFICES ASSUME NEW q \in Pids, q # p PROVE PidHeld(q)'
        BY <1>14
    <2>1. /\ pes'[q] = pes[q] /\ indicated'[q] = indicated[q]
          /\ attached'[q] = attached[q] /\ rai'[q] = rai[q] /\ pes[q].id \in Nat
        <3>1. /\ pes \in [Pids -> [id : Nat, sent : Nat \ {0}, frags : Nat]]
              /\ attached \in [Pids -> BOOLEAN] /\ rai \in [Pids -> BOOLEAN]
              /\ indicated \in [Pids -> BOOLEAN]
            BY DEF PesTypes
        <3> QED BY <1>1, <3>1
    <2>2. touched \subseteq touched'
        BY <1>1
    <2>3. \A k \in Nat : P!Pes(q, k) \in touched' => P!Pes(q, k) \in touched
        <3> HIDE DEF id
        <3>1. \A k, j : P!Pes(q, k) # P!Pes(p, j)
            BY DEF P!Pes
        <3> QED BY <1>1, <3>1 DEF P!AffectedByStart
    <2> QED BY <2>1, <2>2, <2>3, <1>5, OthersKeep
<1>16. PesTypes'
    <2>1. emitted \in Seq(PesPacket) /\ expected \in Seq(PesPacket) /\ eofReached \in BOOLEAN
        BY DEF PesTypes
    <2>2. emitted' \in Seq(PesPacket) /\ expected' \in Seq(PesPacket)
        <3>1. P!Close(p) \in Seq(PesPacket) /\ r.out \in Seq(PesPacket)
            BY <1>13, CloseTyped
        <3> QED BY <3>1, <2>1, <1>1, <1>5, ConcatProperties
    <2>3. pes' \in [Pids -> [id : Nat, sent : Nat \ {0}, frags : Nat]]
        <3>1. pes \in [Pids -> [id : Nat, sent : Nat \ {0}, frags : Nat]]
            BY DEF PesTypes
        <3>2. [id |-> id, sent |-> 1, frags |-> frags] \in [id : Nat, sent : Nat \ {0}, frags : Nat]
            <4>1. MaxFrags \in Nat
                BY PesAssumption DEF P!BoundAssumption
            <4>2. frags \in Nat
                BY <4>1
            <4> HIDE DEF id
            <4> QED BY <1>3, <4>2
        <3> QED BY <1>1, <3>1, <3>2
    <2>4. /\ rai' \in [Pids -> BOOLEAN] /\ attached' \in [Pids -> BOOLEAN]
          /\ indicated' \in [Pids -> BOOLEAN]
        <3>1. /\ rai \in [Pids -> BOOLEAN] /\ attached \in [Pids -> BOOLEAN]
              /\ indicated \in [Pids -> BOOLEAN]
            BY DEF PesTypes
        <3>2. (indicated[p] \/ ind) \in BOOLEAN
            OBVIOUS
        <3> QED BY <1>1, <3>1, <3>2
    <2>5. /\ buf' \in [Pids -> Seq(PesFrag)] /\ started' \in [Pids -> BOOLEAN]
          /\ currentRai' \in [Pids -> BOOLEAN] /\ pendingRai' \in [Pids -> BOOLEAN]
        BY <1>5, <1>13
    <2>6. eofReached' \in BOOLEAN
        BY <1>5, <2>1
    <2> QED BY <2>2, <2>3, <2>4, <2>5, <2>6 DEF PesTypes
<1>17. P!FaultsAreLocal'
    <2>1. touched \cup malformed \subseteq touched'
        BY <1>1
    <2>2. P!Close(p) \in Seq(PesPacket) /\ r.out \in Seq(PesPacket)
        BY <1>13, CloseTyped
    <2>3. Kept(emitted \o r.out, touched') = Kept(expected \o P!Close(p), touched')
        BY <2>1, <2>2, <1>13, GoesOn
    <2>4. Kept(emitted', touched' \cup malformed') = Kept(expected', touched' \cup malformed')
        <3>1. touched' \cup malformed' = touched'
            OBVIOUS
        <3> QED BY <3>1, <2>3, <1>1, <1>5
    <2> QED BY <2>4, Zenon DEF P!FaultsAreLocal, P!Sound, P!Owed, Kept
<1> QED BY <1>15, <1>16, <1>17

(* A PES packet goes on.                                                   *)
LEMMA ContinueKeeps ==
    ASSUME PesTypes, malformed = {}, malformed' = {}, ~eofReached, P!FaultsAreLocal,
           \A q \in Pids : PidHeld(q), NEW p \in Pids, P!ContinuePes(p)
    PROVE  PesTypes' /\ (\A q \in Pids : PidHeld(q)') /\ P!FaultsAreLocal'
<1> DEFINE id == pes[p].id
           f  == P!Frag(p, id, pes[p].sent + 1)
<1>1. PICK n \in Fates, ind \in BOOLEAN :
          /\ pes' = [pes EXCEPT ![p].sent = @ + 1]
          /\ P!ReadPackets(P!Packet(p, FALSE, <<f>>, ind), n)
          /\ touched' = touched \cup P!AffectedByContinuation(p, n, id, ind)
          /\ indicated' = [indicated EXCEPT ![p] = @ \/ ind]
    BY Zenon DEF P!ContinuePes
<1>0. attached' = attached /\ rai' = rai /\ expected' = expected
    BY DEF P!ContinuePes
<1>2. n \in {0, 1, 2}
    <2>1. Fates \subseteq 0 .. 2
        BY PesAssumption DEF P!FateAssumption
    <2> QED BY <2>1
<1>3. /\ id \in Nat /\ pes[p].sent \in Nat \ {0} /\ pes[p].sent + 1 \in Nat \ {0}
      /\ started[p] \in BOOLEAN /\ pendingRai[p] \in BOOLEAN /\ indicated[p] \in BOOLEAN
      /\ currentRai[p] \in BOOLEAN /\ buf[p] \in Seq(PesFrag) /\ f \in PesFrag
    <2>1. id \in Nat /\ pes[p].sent \in Nat \ {0} /\ pes[p].sent + 1 \in Nat
        BY PesNames
    <2> HIDE DEF id
    <2>2. f \in PesFrag
        BY <2>1, PesNames
    <2> QED BY <2>1, <2>2, PesNames
<1> DEFINE ts == P!Packet(p, FALSE, <<f>>, ind)
           r  == Fed(ts, n)
<1>4. ts.pid = p
    BY DEF P!Packet
<1>5. /\ buf'[p] = r.buf /\ started'[p] = r.started
      /\ currentRai'[p] = r.cur /\ pendingRai'[p] = r.pend
      /\ emitted' = emitted \o r.out
      /\ eofReached' = eofReached
      /\ \A q \in Pids : q # p =>
             /\ buf'[q] = buf[q] /\ started'[q] = started[q]
             /\ currentRai'[q] = currentRai[q] /\ pendingRai'[q] = pendingRai[q]
      /\ (r.buf \in Seq(PesFrag) => buf' \in [Pids -> Seq(PesFrag)])
      /\ (r.started \in BOOLEAN => started' \in [Pids -> BOOLEAN])
      /\ (r.cur \in BOOLEAN => currentRai' \in [Pids -> BOOLEAN])
      /\ (r.pend \in BOOLEAN => pendingRai' \in [Pids -> BOOLEAN])
    <2>1. P!ReadPackets(ts, n) /\ ts.pid \in Pids
        BY <1>1, <1>4
    <2> HIDE DEF ts, f, id
    <2> QED BY <2>1, <1>4, FedAt
<1>6. InFlight(p) /\ Followed(p) /\ Foretold(p) /\ Untouched(p)
    BY DEF PidHeld
<1>7. pes'[p].id = id /\ pes'[p].sent = pes[p].sent + 1 /\ indicated'[p] = (indicated[p] \/ ind)
    <2>1. /\ pes \in [Pids -> [id : Nat, sent : Nat \ {0}, frags : Nat]]
          /\ indicated \in [Pids -> BOOLEAN]
        BY DEF PesTypes
    <2>2. pes'[p] = [pes[p] EXCEPT !.sent = pes[p].sent + 1]
        BY <1>1, <2>1
    <2>3. pes[p] \in [id : Nat, sent : Nat \ {0}, frags : Nat]
        BY <2>1
    <2>4. pes'[p].id = pes[p].id /\ pes'[p].sent = pes[p].sent + 1
        BY <2>2, <2>3
    <2> QED BY <1>1, <2>1, <2>4
(* A packet that arrives goes to the end of what is there, and no other    *)
(* part of the reassembler moves but the indicator.                        *)
<1>8. /\ r.started = started[p] /\ r.cur = currentRai[p] /\ r.out = <<>>
      /\ n = 0 => r.buf = buf[p] /\ r.pend = pendingRai[p]
      /\ n = 1 => r.buf = Grown(p, <<f>>) /\ r.pend = (pendingRai[p] \/ ind)
      /\ n = 2 => /\ r.buf = (IF started[p] THEN (buf[p] \o <<f>>) \o <<f>> ELSE buf[p])
                  /\ r.pend = (pendingRai[p] \/ ind)
    <2>1. CASE n = 0
        <3>1. r = P!Reassembler(p)
            <4> HIDE DEF ts
            <4> QED BY <1>4, <2>1, FedIs, Zenon
        <3> HIDE DEF r
        <3> QED BY <3>1, <2>1 DEF P!Reassembler
    <2>2. CASE n = 1
        <3>1. r = P!Feed(P!Reassembler(p), ts)
            <4> HIDE DEF ts
            <4> QED BY <1>4, <2>2, FedIs, Zenon
        <3> DEFINE g == <<f>>
        <3>2. r = P!Feed(P!Reassembler(p), P!Packet(p, FALSE, g, ind))
            BY <3>1
        <3> HIDE DEF r, g
        <3>3. /\ r.buf = Grown(p, g) /\ r.started = started[p]
              /\ r.cur = currentRai[p] /\ r.pend = (pendingRai[p] \/ ind)
              /\ r.out = <<>>
            <4>1. Continued(r, p, g, ind)
                BY <3>2, ContinuationFed, Zenon
            <4> QED BY <4>1, Zenon DEF Continued
        <3> QED BY <3>3, <2>2 DEF g
    <2>3. CASE n = 2
        <3>1. r = P!Feed(P!Feed(P!Reassembler(p), ts), ts)
            <4> HIDE DEF ts
            <4> QED BY <1>4, <2>3, FedIs, Zenon
        <3> DEFINE g == <<f>>
        <3>2. r = P!Feed(P!Feed(P!Reassembler(p), P!Packet(p, FALSE, g, ind)),
                         P!Packet(p, FALSE, g, ind))
            BY <3>1
        <3> HIDE DEF r, g
        <3>3. /\ r.buf = (IF started[p] THEN (buf[p] \o g) \o g ELSE buf[p])
              /\ r.started = started[p]
              /\ r.cur = currentRai[p] /\ r.pend = (pendingRai[p] \/ ind)
              /\ r.out = <<>>
            BY <3>2, ContinuationFedTwice
        <3> QED BY <3>3, <2>3 DEF g
    <2> QED BY <1>2, <2>1, <2>2, <2>3
<1>9. buf[p] \o <<f>> \in Seq(PesFrag) /\ (buf[p] \o <<f>>) \o <<f>> \in Seq(PesFrag)
    <2>1. <<f>> \in Seq(PesFrag)
        BY <1>3
    <2>2. buf[p] \o <<f>> \in Seq(PesFrag)
        BY <2>1, <1>3, ConcatProperties
    <2> QED BY <2>1, <2>2, ConcatProperties
<1>10. /\ r.buf \in Seq(PesFrag) /\ r.started \in BOOLEAN /\ r.cur \in BOOLEAN
       /\ r.pend \in BOOLEAN
    <2> HIDE DEF r, f
    <2>1. r.buf \in Seq(PesFrag)
        BY <1>2, <1>3, <1>8, <1>9, Zenon DEF Grown
    <2>2. r.pend \in BOOLEAN
        BY <1>2, <1>3, <1>8
    <2> QED BY <1>3, <1>8, <2>1, <2>2
(* The first fragment of a PES in flight stays the first.                  *)
<1>11. buf[p] # <<>> => r.buf # <<>> /\ r.buf[1] = buf[p][1]
    <2> SUFFICES ASSUME buf[p] # <<>> PROVE r.buf # <<>> /\ r.buf[1] = buf[p][1]
        OBVIOUS
    <2>1. \A s \in Seq(PesFrag) : s # <<>> => s \o <<f>> # <<>> /\ (s \o <<f>>)[1] = s[1]
        <3> HIDE DEF f
        <3> SUFFICES ASSUME NEW s \in Seq(PesFrag), s # <<>>
                     PROVE  s \o <<f>> # <<>> /\ (s \o <<f>>)[1] = s[1]
            OBVIOUS
        <3>1. Len(s) \in Nat \ {0}
            BY EmptySeq
        <3>2. <<f>> \in Seq({f}) /\ Len(<<f>>) = 1
            OBVIOUS
        <3> QED BY <3>1, <3>2
    <2>2. buf[p] \o <<f>> # <<>> /\ (buf[p] \o <<f>>)[1] = buf[p][1]
        BY <2>1, <1>3
    <2>3. (buf[p] \o <<f>>) \o <<f>> # <<>> /\ ((buf[p] \o <<f>>) \o <<f>>)[1] = buf[p][1]
        BY <2>1, <2>2, <1>9
    <2> HIDE DEF r, f
    <2> QED BY <1>2, <1>8, <2>2, <2>3, Zenon DEF Grown
<1> HIDE DEF r, ts
<1>12. /\ touched \subseteq touched'
       /\ n # 1 => P!Pes(p, id) \in touched'
       /\ n = 0 /\ ind => P!Pes(p, id + 1) \in touched'
       /\ \A k \in Nat : k > id + 1 => P!Pes(p, k) \notin touched'
    <2>1. /\ touched \subseteq touched'
          /\ n # 1 => P!Pes(p, id) \in touched'
          /\ n = 0 /\ ind => P!Pes(p, id + 1) \in touched'
        BY <1>1 DEF P!AffectedByContinuation
    <2>2. ASSUME NEW k \in Nat, k > id + 1 PROVE P!Pes(p, k) \notin touched'
        <3>1. P!Pes(p, k) \notin touched
            BY <2>2, <1>6 DEF Untouched
        <3> HIDE DEF id
        <3>2. P!Pes(p, k) # P!Pes(p, id) /\ P!Pes(p, k) # P!Pes(p, id + 1)
            BY <2>2, <1>3 DEF P!Pes
        <3> QED BY <3>1, <3>2, <1>1 DEF P!AffectedByContinuation
    <2> QED BY <2>1, <2>2
<1>13. PidHeld(p)'
    <2>1. InFlight(p)'
        <3>1. SUFFICES ASSUME started'[p]
                       PROVE  /\ attached'[p] /\ buf'[p] # <<>> /\ buf'[p][1].at = 1
                              /\ buf'[p][1].pes = P!Pes(p, pes'[p].id) \/ buf'[p][1].pes \in touched'
            BY Zenon DEF InFlight, P!Pes
        <3>2. started[p]
            BY <3>1, <1>5, <1>8
        <3>3. /\ attached[p] /\ buf[p] # <<>> /\ buf[p][1].at = 1
              /\ buf[p][1].pes = P!Pes(p, id) \/ buf[p][1].pes \in touched
            BY <3>2, <1>6 DEF InFlight
        <3> QED BY <3>3, <1>0, <1>5, <1>7, <1>11, <1>12
    <2>2. Followed(p)'
        <3>1. SUFFICES ASSUME attached'[p], ~eofReached', P!Pes(p, pes'[p].id) \notin touched'
                       PROVE  /\ started'[p] /\ currentRai'[p] = rai'[p]
                              /\ buf'[p] = P!Whole(p, pes'[p].id, pes'[p].sent)
            BY Zenon DEF Followed, P!Pes, P!Whole, P!Frag
        <3>2. attached[p] /\ P!Pes(p, id) \notin touched /\ n = 1
            BY <3>1, <1>0, <1>7, <1>12
        <3>3. /\ started[p] /\ currentRai[p] = rai[p]
              /\ buf[p] = P!Whole(p, id, pes[p].sent)
            BY <3>2, <1>6 DEF Followed
        <3>4. buf'[p] = buf[p] \o <<f>>
            BY <3>2, <3>3, <1>5, <1>8 DEF Grown
        <3>5. P!Whole(p, id, pes[p].sent) \o <<f>> = P!Whole(p, id, pes[p].sent + 1)
            <4> DEFINE m == pes[p].sent
                       a == P!Whole(p, id, m)
                       b == P!Whole(p, id, m + 1)
            <4>1. m \in Nat \ {0}
                BY <1>3
            <4>2. a \in Seq(PesFrag) /\ Len(a) = m /\ \A i \in 1 .. m : a[i] = P!Frag(p, id, i)
                <5> HIDE DEF id, m
                <5>1. a \in Seq(PesFrag)
                    BY <4>1, <1>3, WholeTyped
                <5>2. a = [j \in 1 .. m |-> P!Frag(p, id, j)]
                    BY DEF P!Whole
                <5> HIDE DEF a
                <5> QED BY <5>1, <5>2, <4>1
            <4>3. b \in Seq(PesFrag) /\ Len(b) = m + 1 /\ \A i \in 1 .. m + 1 : b[i] = P!Frag(p, id, i)
                <5> HIDE DEF id, m
                <5>1. b \in Seq(PesFrag)
                    BY <4>1, <1>3, WholeTyped
                <5>2. b = [j \in 1 .. m + 1 |-> P!Frag(p, id, j)]
                    BY DEF P!Whole
                <5> HIDE DEF b
                <5> QED BY <5>1, <5>2, <4>1
            <4>4. f = P!Frag(p, id, m + 1)
                OBVIOUS
            <4> HIDE DEF a, b, id, m, f
            <4>5. /\ Append(a, f) \in Seq(PesFrag) /\ Len(Append(a, f)) = m + 1
                  /\ \A i \in 1 .. m + 1 : Append(a, f)[i] = b[i]
                BY <4>1, <4>2, <4>3, <4>4, <1>3, AppendProperties
            <4>6. Append(a, f) = b
                BY <4>1, <4>3, <4>5, SeqEqual
            <4>7. Append(a, f) = a \o <<f>>
                BY <4>2, <1>3, AppendIsConcat
            <4> QED BY <4>6, <4>7 DEF a, b, m
        <3> HIDE DEF f
        <3> QED BY <3>3, <3>4, <3>5, <1>0, <1>5, <1>7, <1>8
    <2>3. Foretold(p)'
        <3>1. SUFFICES ASSUME P!Pes(p, pes'[p].id + 1) \notin touched'
                       PROVE  pendingRai'[p] = indicated'[p]
            BY Zenon DEF Foretold, P!Pes
        <3>2. P!Pes(p, id + 1) \notin touched /\ (n = 0 => ~ind)
            BY <3>1, <1>7, <1>12
        <3>3. pendingRai[p] = indicated[p]
            BY <3>2, <1>6 DEF Foretold
        <3> QED BY <3>2, <3>3, <1>2, <1>3, <1>5, <1>7, <1>8
    <2>4. Untouched(p)'
        <3> SUFFICES ASSUME NEW k \in Nat, k > pes'[p].id + 1 PROVE P!Pes(p, k) \notin touched'
            BY Zenon DEF Untouched, P!Pes
        <3> QED BY <1>7, <1>12
    <2> QED BY <2>1, <2>2, <2>3, <2>4 DEF PidHeld
<1>14. \A q \in Pids : PidHeld(q)'
    <2> SUFFICES ASSUME NEW q \in Pids, q # p PROVE PidHeld(q)'
        BY <1>13
    <2>1. /\ pes'[q] = pes[q] /\ indicated'[q] = indicated[q]
          /\ attached'[q] = attached[q] /\ rai'[q] = rai[q] /\ pes[q].id \in Nat
        <3>1. /\ pes \in [Pids -> [id : Nat, sent : Nat \ {0}, frags : Nat]]
              /\ indicated \in [Pids -> BOOLEAN]
            BY DEF PesTypes
        <3> QED BY <1>0, <1>1, <3>1
    <2>2. \A k \in Nat : P!Pes(q, k) \in touched' => P!Pes(q, k) \in touched
        <3> HIDE DEF id
        <3>1. \A k, j : P!Pes(q, k) # P!Pes(p, j)
            BY DEF P!Pes
        <3> QED BY <1>1, <3>1 DEF P!AffectedByContinuation
    <2> QED BY <2>1, <2>2, <1>5, <1>12, OthersKeep
<1>15. PesTypes'
    <2>1. emitted \in Seq(PesPacket) /\ expected \in Seq(PesPacket) /\ eofReached \in BOOLEAN
        BY DEF PesTypes
    <2>2. emitted' \in Seq(PesPacket) /\ expected' \in Seq(PesPacket)
        <3>1. <<>> \in Seq(PesPacket)
            OBVIOUS
        <3> QED BY <3>1, <2>1, <1>0, <1>5, <1>8, ConcatProperties
    <2>3. pes' \in [Pids -> [id : Nat, sent : Nat \ {0}, frags : Nat]]
        <3>1. pes \in [Pids -> [id : Nat, sent : Nat \ {0}, frags : Nat]]
            BY DEF PesTypes
        <3> QED BY <1>1, <1>3, <3>1
    <2>4. /\ rai' \in [Pids -> BOOLEAN] /\ attached' \in [Pids -> BOOLEAN]
          /\ indicated' \in [Pids -> BOOLEAN]
        <3>1. /\ rai \in [Pids -> BOOLEAN] /\ attached \in [Pids -> BOOLEAN]
              /\ indicated \in [Pids -> BOOLEAN]
            BY DEF PesTypes
        <3>2. (indicated[p] \/ ind) \in BOOLEAN
            OBVIOUS
        <3> QED BY <1>0, <1>1, <3>1, <3>2
    <2>5. /\ buf' \in [Pids -> Seq(PesFrag)] /\ started' \in [Pids -> BOOLEAN]
          /\ currentRai' \in [Pids -> BOOLEAN] /\ pendingRai' \in [Pids -> BOOLEAN]
        BY <1>5, <1>10
    <2>6. eofReached' \in BOOLEAN
        BY <1>5, <2>1
    <2> QED BY <2>2, <2>3, <2>4, <2>5, <2>6 DEF PesTypes
<1>16. P!FaultsAreLocal'
    <2>1. touched \cup malformed \subseteq touched'
        BY <1>12
    <2>2. <<>> \in Seq(PesPacket)
        OBVIOUS
    <2>3. Kept(emitted \o <<>>, touched') = Kept(expected \o <<>>, touched')
        BY <2>1, <2>2, GoesOn
    <2>4. emitted' = emitted \o <<>> /\ expected' = expected \o <<>>
        <3>1. emitted \in Seq(PesPacket) /\ expected \in Seq(PesPacket)
            BY DEF PesTypes
        <3> QED BY <3>1, <1>0, <1>5, <1>8, ConcatEmptySeq
    <2>5. Kept(emitted', touched' \cup malformed') = Kept(expected', touched' \cup malformed')
        <3>1. touched' \cup malformed' = touched'
            OBVIOUS
        <3> QED BY <3>1, <2>3, <2>4
    <2> QED BY <2>5, Zenon DEF P!FaultsAreLocal, P!Sound, P!Owed, Kept
<1> QED BY <1>14, <1>15, <1>16

(* A packet without payload carries the indicator.                         *)
LEMMA IndicatorKeeps ==
    ASSUME PesTypes, malformed = {}, malformed' = {}, ~eofReached, P!FaultsAreLocal,
           \A q \in Pids : PidHeld(q), NEW p \in Pids, P!SendIndicator(p)
    PROVE  PesTypes' /\ (\A q \in Pids : PidHeld(q)') /\ P!FaultsAreLocal'
<1> DEFINE ts == P!Packet(p, FALSE, <<>>, TRUE)
           r  == Fed(ts, 1)
<1>1. /\ P!ReadPackets(ts, 1) /\ ~indicated[p]
      /\ indicated' = [indicated EXCEPT ![p] = TRUE]
    BY DEF P!SendIndicator
<1>2. /\ pes' = pes /\ attached' = attached /\ rai' = rai
      /\ expected' = expected /\ touched' = touched
    BY DEF P!SendIndicator
<1>3. ts.pid = p
    BY DEF P!Packet
<1>4. /\ started[p] \in BOOLEAN /\ pendingRai[p] \in BOOLEAN /\ currentRai[p] \in BOOLEAN
      /\ buf[p] \in Seq(PesFrag) /\ pes[p].id \in Nat
    BY PesNames
<1>5. /\ buf'[p] = r.buf /\ started'[p] = r.started
      /\ currentRai'[p] = r.cur /\ pendingRai'[p] = r.pend
      /\ emitted' = emitted \o r.out
      /\ eofReached' = eofReached
      /\ \A q \in Pids : q # p =>
             /\ buf'[q] = buf[q] /\ started'[q] = started[q]
             /\ currentRai'[q] = currentRai[q] /\ pendingRai'[q] = pendingRai[q]
      /\ (r.buf \in Seq(PesFrag) => buf' \in [Pids -> Seq(PesFrag)])
      /\ (r.started \in BOOLEAN => started' \in [Pids -> BOOLEAN])
      /\ (r.cur \in BOOLEAN => currentRai' \in [Pids -> BOOLEAN])
      /\ (r.pend \in BOOLEAN => pendingRai' \in [Pids -> BOOLEAN])
    <2>1. P!ReadPackets(ts, 1) /\ ts.pid \in Pids
        BY <1>1, <1>3
    <2> HIDE DEF ts
    <2> QED BY <2>1, <1>3, FedAt
<1>6. /\ r.buf = buf[p] /\ r.started = started[p] /\ r.cur = currentRai[p]
      /\ r.pend = TRUE /\ r.out = <<>>
    <2>1. r = P!Feed(P!Reassembler(p), ts)
        <3> HIDE DEF ts
        <3> QED BY <1>3, FedIs, Zenon
    <2> DEFINE g == <<>>
               ind == TRUE
    <2>2. r = P!Feed(P!Reassembler(p), P!Packet(p, FALSE, g, ind)) /\ ind \in BOOLEAN
        BY <2>1
    <2> HIDE DEF r, g, ind
    <2>3. /\ r.buf = Grown(p, g) /\ r.started = started[p]
          /\ r.cur = currentRai[p] /\ r.pend = (pendingRai[p] \/ ind)
          /\ r.out = <<>>
        <3>1. Continued(r, p, g, ind)
            BY <2>2, ContinuationFed, Zenon
        <3> QED BY <3>1, Zenon DEF Continued
    <2>4. buf[p] \o g = buf[p]
        BY <1>4, ConcatEmptySeq DEF g
    <2> QED BY <2>3, <2>4, <1>4 DEF Grown, ind
<1> HIDE DEF r, ts
<1>7. indicated'[p] = TRUE
    <2>1. indicated \in [Pids -> BOOLEAN]
        BY DEF PesTypes
    <2> QED BY <1>1, <2>1
<1>8. PidHeld(p)'
    <2>1. InFlight(p) /\ Followed(p) /\ Untouched(p)
        BY DEF PidHeld
    <2>2. InFlight(p)'
        <3>1. SUFFICES ASSUME started'[p]
                       PROVE  /\ attached'[p] /\ buf'[p] # <<>> /\ buf'[p][1].at = 1
                              /\ buf'[p][1].pes = P!Pes(p, pes'[p].id) \/ buf'[p][1].pes \in touched'
            BY Zenon DEF InFlight, P!Pes
        <3> QED BY <3>1, <1>2, <1>5, <1>6, <2>1 DEF InFlight
    <2>3. Followed(p)'
        <3>1. SUFFICES ASSUME attached'[p], ~eofReached', P!Pes(p, pes'[p].id) \notin touched'
                       PROVE  /\ started'[p] /\ currentRai'[p] = rai'[p]
                              /\ buf'[p] = P!Whole(p, pes'[p].id, pes'[p].sent)
            BY Zenon DEF Followed, P!Pes, P!Whole, P!Frag
        <3> QED BY <3>1, <1>2, <1>5, <1>6, <2>1 DEF Followed
    <2>4. Foretold(p)'
        <3>1. pendingRai'[p] = indicated'[p]
            BY <1>5, <1>6, <1>7
        <3> QED BY <3>1, Zenon DEF Foretold
    <2>5. Untouched(p)'
        <3> SUFFICES ASSUME NEW k \in Nat, k > pes'[p].id + 1 PROVE P!Pes(p, k) \notin touched'
            BY Zenon DEF Untouched, P!Pes
        <3> QED BY <1>2, <2>1 DEF Untouched
    <2> QED BY <2>2, <2>3, <2>4, <2>5 DEF PidHeld
<1>9. \A q \in Pids : PidHeld(q)'
    <2> SUFFICES ASSUME NEW q \in Pids, q # p PROVE PidHeld(q)'
        BY <1>8
    <2>1. indicated'[q] = indicated[q] /\ pes[q].id \in Nat
        <3>1. indicated \in [Pids -> BOOLEAN]
            BY DEF PesTypes
        <3> QED BY <1>1, <3>1, PesNames
    <2>2. \A k \in Nat : P!Pes(q, k) \in touched' => P!Pes(q, k) \in touched
        BY <1>2
    <2> QED BY <2>1, <2>2, <1>2, <1>5, OthersKeep
<1>10. emitted' = emitted /\ emitted \in Seq(PesPacket)
    <2>1. emitted \in Seq(PesPacket)
        BY DEF PesTypes
    <2> QED BY <2>1, <1>5, <1>6, ConcatEmptySeq
<1>11. PesTypes'
    <2>1. indicated' \in [Pids -> BOOLEAN]
        <3>1. indicated \in [Pids -> BOOLEAN]
            BY DEF PesTypes
        <3> QED BY <1>1, <3>1
    <2>2. /\ buf' \in [Pids -> Seq(PesFrag)] /\ started' \in [Pids -> BOOLEAN]
          /\ currentRai' \in [Pids -> BOOLEAN] /\ pendingRai' \in [Pids -> BOOLEAN]
        BY <1>4, <1>5, <1>6
    <2>3. eofReached' \in BOOLEAN /\ rai' \in [Pids -> BOOLEAN] /\ attached' \in [Pids -> BOOLEAN]
          /\ pes' \in [Pids -> [id : Nat, sent : Nat \ {0}, frags : Nat]]
          /\ expected' \in Seq(PesPacket)
        BY <1>2, <1>5 DEF PesTypes
    <2> QED BY <2>1, <2>2, <2>3, <1>10 DEF PesTypes
<1>12. P!FaultsAreLocal'
    <2>1. Kept(emitted, touched \cup malformed) = Kept(expected, touched \cup malformed)
        BY SoundIsKept DEF P!FaultsAreLocal
    <2>2. Kept(emitted', touched' \cup malformed') = Kept(expected', touched' \cup malformed')
        <3>1. malformed' = malformed
            OBVIOUS
        <3> QED BY <2>1, <3>1, <1>2, <1>10
    <2> QED BY <2>2, Zenon DEF P!FaultsAreLocal, P!Sound, P!Owed, Kept
<1> QED BY <1>9, <1>11, <1>12

(* The input ends: every reassembler is flushed.                           *)
LEMMA EndKeeps ==
    ASSUME PesTypes, malformed = {}, malformed' = {}, P!FaultsAreLocal,
           \A q \in Pids : PidHeld(q), P!EndOfInput
    PROVE  PesTypes' /\ (\A q \in Pids : PidHeld(q)') /\ P!FaultsAreLocal'
<1> DEFINE n  == Cardinality(Pids)
           xs == [i \in DOMAIN P!Ascending |-> P!Flushed(P!Ascending[i])]
           ys == [i \in DOMAIN P!Ascending |-> P!Close(P!Ascending[i])]
<1>1. /\ ~eofReached /\ eofReached' = TRUE
      /\ emitted' = emitted \o P!FlattenSeq(xs) /\ expected' = expected \o P!FlattenSeq(ys)
      /\ buf' = [p \in Pids |-> IF started[p] THEN <<>> ELSE buf[p]]
      /\ started' = [p \in Pids |-> FALSE]
      /\ currentRai' = [p \in Pids |-> currentRai[p] /\ ~P!Flushable(p)]
      /\ pendingRai' = pendingRai
    BY Zenon DEF P!EndOfInput, P!FlushReassemblers
<1>2. /\ pes' = pes /\ indicated' = indicated /\ attached' = attached /\ rai' = rai
      /\ touched' = touched
    BY DEF P!EndOfInput
<1>3. P!Ascending \in [1 .. n -> Pids] /\ n \in Nat /\ DOMAIN P!Ascending = 1 .. n
    BY OrderFound
<1> HIDE DEF n
<1>4. ASSUME NEW i \in 1 .. n
      PROVE  /\ xs[i] \in Seq(PesPacket) /\ ys[i] \in Seq(PesPacket)
             /\ Kept(xs[i], touched) = Kept(ys[i], touched)
    <2>1. xs[i] = P!Flushed(P!Ascending[i]) /\ ys[i] = P!Close(P!Ascending[i]) /\ P!Ascending[i] \in Pids
        BY <1>3
    <2> HIDE DEF xs, ys
    <2>2. PidHeld(P!Ascending[i])
        BY <2>1
    <2>3. ASSUME NEW p \in Pids, PidHeld(p)
          PROVE  /\ P!Flushed(p) \in Seq(PesPacket) /\ P!Close(p) \in Seq(PesPacket)
                 /\ Kept(P!Flushed(p), touched) = Kept(P!Close(p), touched)
        BY <2>3, <1>1, CloseTyped, SameKept DEF PidHeld
    <2> QED BY <2>1, <2>2, <2>3, Zenon
<1>5. xs \in Seq(Seq(PesPacket)) /\ ys \in Seq(Seq(PesPacket)) /\ Len(xs) = n /\ Len(ys) = n
    <2>1. \A i \in 1 .. n : P!Flushed(P!Ascending[i]) \in Seq(PesPacket)
                            /\ P!Close(P!Ascending[i]) \in Seq(PesPacket)
        BY <1>3, CloseTyped
    <2>2. /\ xs = [i \in 1 .. n |-> P!Flushed(P!Ascending[i])]
          /\ ys = [i \in 1 .. n |-> P!Close(P!Ascending[i])]
        BY <1>3
    <2> HIDE DEF xs, ys
    <2> QED BY <2>1, <2>2, <1>3
<1> HIDE DEF xs, ys
<1>6. P!FlattenSeq(xs) \in Seq(PesPacket) /\ P!FlattenSeq(ys) \in Seq(PesPacket)
    BY <1>5, FlattenTyped
<1>7. Kept(P!FlattenSeq(xs), touched) = Kept(P!FlattenSeq(ys), touched)
    BY <1>4, <1>5, KeptFlatten
<1>8. P!FaultsAreLocal'
    <2>1. touched \cup malformed \subseteq touched
        OBVIOUS
    <2>2. Kept(emitted \o P!FlattenSeq(xs), touched) = Kept(expected \o P!FlattenSeq(ys), touched)
        BY <2>1, <1>6, <1>7, GoesOn
    <2>3. Kept(emitted', touched' \cup malformed') = Kept(expected', touched' \cup malformed')
        <3>1. touched' \cup malformed' = touched
            BY <1>2
        <3> QED BY <3>1, <2>2, <1>1
    <2> QED BY <2>3, Zenon DEF P!FaultsAreLocal, P!Sound, P!Owed, Kept
<1>9. PesTypes'
    <2>1. /\ buf \in [Pids -> Seq(PesFrag)] /\ currentRai \in [Pids -> BOOLEAN]
          /\ emitted \in Seq(PesPacket) /\ expected \in Seq(PesPacket)
        BY DEF PesTypes
    <2>2. emitted' \in Seq(PesPacket) /\ expected' \in Seq(PesPacket)
        BY <2>1, <1>1, <1>6, ConcatProperties
    <2>3. /\ buf' \in [Pids -> Seq(PesFrag)] /\ started' \in [Pids -> BOOLEAN]
          /\ currentRai' \in [Pids -> BOOLEAN]
        <3>1. \A p \in Pids : (IF started[p] THEN <<>> ELSE buf[p]) \in Seq(PesFrag)
            BY <2>1
        <3>2. \A p \in Pids : (currentRai[p] /\ ~P!Flushable(p)) \in BOOLEAN
            OBVIOUS
        <3> QED BY <3>1, <3>2, <1>1
    <2> QED BY <2>2, <2>3, <1>1, <1>2 DEF PesTypes
<1>10. ASSUME NEW q \in Pids PROVE PidHeld(q)'
    <2>1. ~started'[q] /\ pendingRai' = pendingRai /\ eofReached'
        BY <1>1
    <2>2. InFlight(q)' /\ Followed(q)'
        BY <2>1, Zenon DEF InFlight, Followed
    <2>3. Foretold(q)' /\ Untouched(q)'
        BY <1>1, <1>2 DEF PidHeld, Foretold, Untouched, P!Pes
    <2> QED BY <2>2, <2>3 DEF PidHeld
<1> QED BY <1>8, <1>9, <1>10

(* The demuxer is repositioned: every reassembler is new.                  *)
LEMMA RepositionKeeps ==
    ASSUME PesTypes, malformed = {}, malformed' = {}, P!FaultsAreLocal,
           \A q \in Pids : PidHeld(q), P!Reposition
    PROVE  PesTypes' /\ (\A q \in Pids : PidHeld(q)') /\ P!FaultsAreLocal'
<1>1. /\ eofReached' = FALSE
      /\ buf' = [p \in Pids |-> <<>>] /\ started' = [p \in Pids |-> FALSE]
      /\ currentRai' = [p \in Pids |-> FALSE] /\ pendingRai' = [p \in Pids |-> FALSE]
      /\ indicated' = [p \in Pids |-> FALSE] /\ attached' = [p \in Pids |-> FALSE]
      /\ rai' = [p \in Pids |-> FALSE]
      /\ emitted' = emitted /\ expected' = expected /\ touched' = touched /\ pes' = pes
    BY DEF P!Reposition
<1>2. P!FaultsAreLocal'
    <2>1. Kept(emitted, touched \cup malformed) = Kept(expected, touched \cup malformed)
        BY SoundIsKept DEF P!FaultsAreLocal
    <2>2. Kept(emitted', touched' \cup malformed') = Kept(expected', touched' \cup malformed')
        <3>1. malformed' = malformed
            OBVIOUS
        <3> QED BY <2>1, <3>1, <1>1
    <2> QED BY <2>2, Zenon DEF P!FaultsAreLocal, P!Sound, P!Owed, Kept
<1>3. PesTypes'
    <2>1. <<>> \in Seq(PesFrag)
        OBVIOUS
    <2>2. /\ buf' \in [Pids -> Seq(PesFrag)] /\ started' \in [Pids -> BOOLEAN]
          /\ currentRai' \in [Pids -> BOOLEAN] /\ pendingRai' \in [Pids -> BOOLEAN]
          /\ indicated' \in [Pids -> BOOLEAN] /\ attached' \in [Pids -> BOOLEAN]
          /\ rai' \in [Pids -> BOOLEAN]
        BY <2>1, <1>1
    <2> QED BY <2>2, <1>1 DEF PesTypes
<1>4. ASSUME NEW q \in Pids PROVE PidHeld(q)'
    <2>1. ~started'[q] /\ ~attached'[q] /\ pendingRai'[q] = indicated'[q]
        BY <1>1
    <2>2. InFlight(q)' /\ Followed(q)' /\ Foretold(q)'
        BY <2>1, Zenon DEF InFlight, Followed, Foretold
    <2>3. Untouched(q)'
        BY <1>1 DEF PidHeld, Untouched, P!Pes
    <2> QED BY <2>2, <2>3 DEF PidHeld
<1> QED BY <1>2, <1>3, <1>4

LEMMA PesBegins == P!Init => PesHeld
<1> SUFFICES ASSUME P!Init PROVE PesTypes /\ (\A p \in Pids : PidHeld(p)) /\ P!FaultsAreLocal
    BY DEF PesHeld
<1>1. /\ buf = [p \in Pids |-> <<>>] /\ started = [p \in Pids |-> FALSE]
      /\ currentRai = [p \in Pids |-> FALSE] /\ pendingRai = [p \in Pids |-> FALSE]
      /\ indicated = [p \in Pids |-> FALSE] /\ attached = [p \in Pids |-> FALSE]
      /\ rai = [p \in Pids |-> FALSE]
      /\ emitted = <<>> /\ expected = <<>> /\ touched = {} /\ eofReached = FALSE
    BY DEF P!Init
<1>2. PesTypes
    <2>1. pes \in [Pids -> [id : Nat, sent : Nat \ {0}, frags : Nat]]
        <3>1. MaxFrags \in Nat
            BY PesAssumption DEF P!BoundAssumption
        <3>2. \A k \in 1 .. MaxFrags : k \in Nat
            BY <3>1
        <3>3. {[id |-> 0, sent |-> 1, frags |-> k] : k \in 1 .. MaxFrags}
              \subseteq [id : Nat, sent : Nat \ {0}, frags : Nat]
            BY <3>2
        <3>4. pes \in [Pids -> {[id |-> 0, sent |-> 1, frags |-> k] : k \in 1 .. MaxFrags}]
            BY DEF P!Init
        <3> QED BY <3>3, <3>4
    <2>2. <<>> \in Seq(PesFrag) /\ <<>> \in Seq(PesPacket)
        OBVIOUS
    <2>3. /\ buf \in [Pids -> Seq(PesFrag)] /\ started \in [Pids -> BOOLEAN]
          /\ currentRai \in [Pids -> BOOLEAN] /\ pendingRai \in [Pids -> BOOLEAN]
          /\ indicated \in [Pids -> BOOLEAN] /\ attached \in [Pids -> BOOLEAN]
          /\ rai \in [Pids -> BOOLEAN]
        BY <2>2, <1>1
    <2> QED BY <2>1, <2>2, <2>3, <1>1 DEF PesTypes
<1>3. ASSUME NEW p \in Pids PROVE PidHeld(p)
    <2>1. ~started[p] /\ ~attached[p] /\ pendingRai[p] = indicated[p]
        BY <1>1
    <2> QED BY <2>1, <1>1 DEF PidHeld, InFlight, Followed, Foretold, Untouched
<1>4. P!FaultsAreLocal
    <2>1. emitted = expected
        BY <1>1
    <2> QED BY <2>1, Zenon DEF P!FaultsAreLocal
<1> QED BY <1>2, <1>3, <1>4

LEMMA PesStep == PesHeld /\ [P!Next]_(P!vars) => PesHeld'
<1> SUFFICES ASSUME PesHeld, [P!Next]_(P!vars), malformed' = {}
             PROVE  PesTypes' /\ (\A p \in Pids : PidHeld(p)') /\ P!FaultsAreLocal'
    BY DEF PesHeld
<1>1. CASE UNCHANGED P!vars
    <2>1. /\ buf' = buf /\ started' = started /\ currentRai' = currentRai
          /\ pendingRai' = pendingRai /\ emitted' = emitted /\ eofReached' = eofReached
          /\ pes' = pes /\ malformed' = malformed /\ indicated' = indicated
          /\ attached' = attached /\ rai' = rai /\ expected' = expected /\ touched' = touched
        BY <1>1 DEF P!vars, P!reassembler, P!demuxer, P!budget, P!history
    <2>2. PesTypes /\ (\A p \in Pids : PidHeld(p)) /\ P!FaultsAreLocal
        BY <2>1 DEF PesHeld
    <2>3. PesTypes'
        BY <2>1, <2>2 DEF PesTypes
    <2>4. ASSUME NEW p \in Pids PROVE PidHeld(p)'
        BY <2>1, <2>2, Zenon DEF PidHeld, InFlight, Followed, Foretold, Untouched, P!Pes, P!Whole, P!Frag
    <2>5. P!FaultsAreLocal'
        <3>1. Kept(emitted, touched \cup malformed) = Kept(expected, touched \cup malformed)
            BY <2>2, SoundIsKept DEF P!FaultsAreLocal
        <3>2. Kept(emitted', touched' \cup malformed') = Kept(expected', touched' \cup malformed')
            BY <2>1, <3>1
        <3> QED BY <3>2, Zenon DEF P!FaultsAreLocal, P!Sound, P!Owed, Kept
    <2> QED BY <2>3, <2>4, <2>5
<1>2. ASSUME P!Next, malformed = {} PROVE PesTypes' /\ (\A p \in Pids : PidHeld(p)') /\ P!FaultsAreLocal'
    <2>1. PesTypes /\ (\A p \in Pids : PidHeld(p)) /\ P!FaultsAreLocal
        BY <1>2 DEF PesHeld
    <2>2. ASSUME NEW p \in Pids, ~eofReached, P!StartPes(p)
          PROVE  PesTypes' /\ (\A q \in Pids : PidHeld(q)') /\ P!FaultsAreLocal'
        BY <1>2, <2>1, <2>2, StartKeeps
    <2>3. ASSUME NEW p \in Pids, ~eofReached, P!ContinuePes(p)
          PROVE  PesTypes' /\ (\A q \in Pids : PidHeld(q)') /\ P!FaultsAreLocal'
        BY <1>2, <2>1, <2>3, ContinueKeeps
    <2>4. ASSUME NEW p \in Pids, ~eofReached, P!SendIndicator(p)
          PROVE  PesTypes' /\ (\A q \in Pids : PidHeld(q)') /\ P!FaultsAreLocal'
        BY <1>2, <2>1, <2>4, IndicatorKeeps
    <2>5. CASE P!EndOfInput
        BY <1>2, <2>1, <2>5, EndKeeps
    <2>6. CASE P!Reposition
        BY <1>2, <2>1, <2>6, RepositionKeeps
    <2> QED BY <1>2, <2>2, <2>3, <2>4, <2>5, <2>6, Zenon DEF P!Next
<1>3. ASSUME P!Next PROVE malformed \subseteq malformed'
    <2>1. ASSUME NEW p \in Pids, P!StartPes(p) PROVE malformed \subseteq malformed'
        BY <2>1 DEF P!StartPes
    <2>2. ASSUME NEW p \in Pids, P!ContinuePes(p) \/ P!SendIndicator(p) PROVE malformed' = malformed
        BY <2>2 DEF P!ContinuePes, P!SendIndicator, P!budget
    <2>3. ASSUME P!EndOfInput \/ P!Reposition PROVE malformed' = malformed
        BY <2>3 DEF P!EndOfInput, P!Reposition, P!budget
    <2> QED BY <1>3, <2>1, <2>2, <2>3, Zenon DEF P!Next
<1>4. P!Next => malformed = {}
    BY <1>3
<1> QED BY <1>1, <1>2, <1>4

(* What is held of the reassemblers is held by every run of theirs.        *)
LEMMA PesRuns == AllSpec => [](machine = "pes" => PesHeld)
<1> DEFINE Held == machine = "pes" => PesHeld
<1>1. AllInit => Held
    BY PesBegins DEF AllInit
<1>2. Held /\ [AllNext]_allVars => Held'
    <2> SUFFICES ASSUME Held, [AllNext]_allVars, machine' = "pes" PROVE PesHeld'
        OBVIOUS
    <2>1. machine' = machine
        BY DEF AllNext, allVars, Walk, Replay, Collect, Recover, Open, Reassemble
    <2>2. "pes" # "walk" /\ "pes" # "buffers" /\ "pes" # "clock" /\ "pes" # "pcr" /\ "pes" # "open"
        OBVIOUS
    <2>3. [P!Next]_(P!vars)
        <3>1. Reassemble \/ UNCHANGED allVars
            BY <2>1, <2>2 DEF AllNext, Walk, Replay, Collect, Recover, Open
        <3> QED BY <3>1 DEF Reassemble, allVars, pesVars, P!vars, P!reassembler, P!demuxer,
                            P!budget, P!history
    <2> QED BY <2>1, <2>3, PesStep
<1> QED BY <1>1, <1>2, PTL DEF AllSpec

(* PES packets that no fault touched come out whole, once, in order and    *)
(* with their random-access flag, on every PID, whatever is lost or        *)
(* repeated on any, at the end of the input and over repositions, as long  *)
(* as no PES with a broken header has been sent.                           *)
THEOREM FaultsStayLocal == AllSpec => [](malformed = {} => FaultsAreLocal)
<1>1. (machine = "pes" => PesHeld) => (malformed = {} => FaultsAreLocal)
    BY DEF PesHeld, FaultsAreLocal
<1> QED BY <1>1, PesRuns, PTL

(* A sender that never breaks a PES header breaks none: then the PES       *)
(* packets that no fault touched come out whole, once and in order, always.*)
THEOREM WellFormedStaysLocal ==
    ASSUME Malformed = 0 PROVE AllSpec => []FaultsAreLocal
<1> DEFINE None == machine = "pes" => malformed = {}
<1>1. AllInit => None
    BY DEF AllInit, P!Init
<1>2. None /\ [AllNext]_allVars => None'
    <2> SUFFICES ASSUME None, [AllNext]_allVars, machine' = "pes" PROVE malformed' = {}
        OBVIOUS
    <2>1. machine' = machine
        BY DEF AllNext, allVars, Walk, Replay, Collect, Recover, Open, Reassemble
    <2>2. "pes" # "walk" /\ "pes" # "buffers" /\ "pes" # "clock" /\ "pes" # "pcr" /\ "pes" # "open"
        OBVIOUS
    <2>3. malformed = {} /\ (P!Next \/ malformed' = malformed)
        <3>1. malformed = {} /\ (Reassemble \/ UNCHANGED allVars)
            BY <2>1, <2>2 DEF AllNext, Walk, Replay, Collect, Recover, Open
        <3> QED BY <3>1 DEF Reassemble, allVars, pesVars
    <2>4. ASSUME NEW p \in Pids, P!StartPes(p) PROVE malformed' = malformed
        <3>1. P!Cardinality(malformed) = 0
            <4>1. P!Cardinality(malformed) = Cardinality(malformed)
                BY Zenon DEF P!Cardinality, Cardinality, P!IsFiniteSet, IsFiniteSet
            <4> QED BY <4>1, <2>3, FS_EmptySet
        <3>2. ~(P!Cardinality(malformed) < Malformed)
            BY <3>1
        <3> QED BY <2>4, <3>2 DEF P!StartPes
    <2>5. ASSUME NEW p \in Pids, P!ContinuePes(p) \/ P!SendIndicator(p) PROVE malformed' = malformed
        BY <2>5 DEF P!ContinuePes, P!SendIndicator, P!budget
    <2>6. ASSUME P!EndOfInput \/ P!Reposition PROVE malformed' = malformed
        BY <2>6 DEF P!EndOfInput, P!Reposition, P!budget
    <2> QED BY <2>3, <2>4, <2>5, <2>6, Zenon DEF P!Next
<1>3. None /\ (malformed = {} => FaultsAreLocal) => FaultsAreLocal
    BY DEF FaultsAreLocal
<1> QED BY <1>1, <1>2, <1>3, FaultsStayLocal, PTL DEF AllSpec
=============================================================================
