--------------------------- MODULE PesReassembler ---------------------------
(***************************************************************************)
(* From TS packets to PES packets: the PesReassembler of pes.rs on every   *)
(* PID of a program, and what the demuxer (demuxer.rs) does with them when *)
(* a packet is read, when the input ends and when it is repositioned.      *)
(*                                                                         *)
(* PES packets are cut into fragments, one per TS packet.  A fragment is   *)
(* named by its PES and its place in it.  The random_access_indicator of a *)
(* TS packet announces the next PES to start on its PID (2.4.3.5); it may  *)
(* ride the packet the PES starts in, an earlier packet, or a carrier      *)
(* packet without payload.  `announced', `attached', `expected' and `hit'  *)
(* are history variables that record what a perfect receiver would emit.   *)
(***************************************************************************)
EXTENDS Integers, Sequences, SequencesExt

CONSTANTS
    Pids,       \* the elementary PIDs, a set of numbers
    MaxPes,     \* PID: most PES packets on it
    MaxFrags,   \* most TS packets of one PES
    Fates,      \* how often a TS packet may arrive: 0, 1 or 2 times
    Faults,     \* most TS packets that do not arrive once
    Malformed,  \* most PES packets whose header does not parse
    Seeks       \* most repositionings

PidAssumption == Pids \subseteq Nat /\ IsFiniteSet(Pids)
FateAssumption == 1 \in Fates /\ Fates \subseteq 0 .. 2
BoundAssumption ==
    MaxPes \in [Pids -> Nat] /\ {MaxFrags, Faults, Malformed, Seeks} \subseteq Nat

VARIABLES
    \* the reassembler of each PID
    buf, started, currentRai, pendingRai,
    \* the demuxer
    emitted,    \* every PES handed on, in order
    errors,     \* PIDs on which next_packet returned an error
    eofReached,
    \* the file: the PES each PID is in the middle of, and what is left
    pes,        \* [id, sent, frags]: so many fragments of it were sent
    malformed,  \* the PES packets whose header does not parse
    faults, sought,
    \* history
    announced,  \* PID: an indicator was sent since the last start
    attached,   \* PID: the start of the current PES came after the last seek
    rai,        \* PID: the current PES is a random access point
    expected,   \* what a perfect receiver would have emitted
    hit         \* PES packets that lost or repeated packets may affect

reassembler == <<buf, started, currentRai, pendingRai>>
demuxer     == <<emitted, errors, eofReached>>
budget      == <<malformed, faults, sought>>
history     == <<announced, attached, rai, expected, hit>>
vars        == <<reassembler, demuxer, pes, budget, history>>

Pes(p, id) == [pid |-> p, id |-> id]
Frag(p, id, j) == [pes |-> Pes(p, id), at |-> j]
Whole(p, id, n) == [j \in 1 .. n |-> Frag(p, id, j)]

Packet(p, pusi, payload, indicator) ==
    [pid |-> p, pusi |-> pusi, payload |-> payload, rai |-> indicator]

------------------------------------------------------------------------------
(* PesPacket::parse succeeds when the bytes start with a sound header. *)
Parses(b) == b # <<>> /\ b[1].at = 1 /\ b[1].pes \notin malformed

(* PesReassembler::feed as an operation on the record of its state: the    *)
(* state after, the PES packets it returns and whether it failed.  A parse *)
(* error leaves the function before the buffer is touched.                 *)
Reassembler(p) == [buf |-> buf[p], started |-> started[p],
                   cur |-> currentRai[p], pend |-> pendingRai[p], out |-> <<>>, err |-> FALSE]

Restarted(r, ts, out) ==
    [buf |-> ts.payload, started |-> TRUE, cur |-> r.pend \/ ts.rai, pend |-> FALSE,
     out |-> out, err |-> r.err]

FeedStart(r, ts) ==
    IF ~r.started THEN Restarted(r, ts, r.out)
    ELSE IF ~Parses(r.buf) THEN [r EXCEPT !.err = TRUE]
    ELSE Restarted(r, ts, Append(r.out, [frags |-> r.buf, rai |-> r.cur]))

FeedMarkingCurrent(r, ts) ==     \* mutant: the indicator marks the PES in progress
    [r EXCEPT !.cur = r.cur \/ ts.rai,
              !.buf = IF r.started THEN @ \o ts.payload ELSE @]

FeedContinuation(r, ts) ==
    [r EXCEPT !.pend = r.pend \/ ts.rai,
              !.buf  = IF r.started THEN @ \o ts.payload ELSE @]

Feed(r, ts) == IF ts.pusi THEN FeedStart(r, ts) ELSE FeedContinuation(r, ts)

(* read_one_into_pending, and the second read of next_packet: the packet,  *)
(* n times, goes to the reassembler of its PID; what that returns is       *)
(* queued, an error is returned to the caller.                             *)
ReadPackets(ts, n) ==
    LET p == ts.pid
        r == CASE n = 0 -> Reassembler(p)
               [] n = 1 -> Feed(Reassembler(p), ts)
               [] n = 2 -> Feed(Feed(Reassembler(p), ts), ts)
    IN  /\ buf' = [buf EXCEPT ![p] = r.buf]
        /\ started' = [started EXCEPT ![p] = r.started]
        /\ currentRai' = [currentRai EXCEPT ![p] = r.cur]
        /\ pendingRai' = [pendingRai EXCEPT ![p] = r.pend]
        /\ emitted' = emitted \o r.out
        /\ errors' = IF r.err THEN errors \cup {p} ELSE errors
        /\ eofReached' = eofReached

(* PesReassembler::flush on every PID in ascending order; a PES that does  *)
(* not parse is dropped.                                                   *)
Ascending ==
    CHOOSE order \in [1 .. Cardinality(Pids) -> Pids] :
        \A i, j \in DOMAIN order : i < j => order[i] < order[j]

Flushable(p) == started[p] /\ Parses(buf[p])
Flushed(p) ==
    IF Flushable(p) THEN <<[frags |-> buf[p], rai |-> currentRai[p]]>> ELSE <<>>

FlushReassemblers ==
    /\ emitted' = emitted \o FlattenSeq([i \in DOMAIN Ascending |-> Flushed(Ascending[i])])
    /\ buf' = [p \in Pids |-> IF started[p] THEN <<>> ELSE buf[p]]
    /\ started' = [p \in Pids |-> FALSE]
    /\ currentRai' = [p \in Pids |-> currentRai[p] /\ ~Flushable(p)]
    /\ pendingRai' = pendingRai

------------------------------------------------------------------------------
(* The channel between the multiplexer and the demuxer. *)
Channel(n) ==
    /\ n # 1 => faults < Faults
    /\ faults' = IF n = 1 THEN faults ELSE faults + 1

(* The PES packets a fate other than one delivery of a packet may affect:  *)
(* the one it belongs to; when a start is lost the one before, which takes *)
(* over its fragments, and the one after, which takes over its indicator,  *)
(* if it had one or one that was lost; when an indicator is lost the next  *)
(* one.                                                                    *)
AffectedByStart(p, n, id) ==
    (IF n # 1 THEN {Pes(p, id)} ELSE {}) \cup
    (IF n = 0 THEN {Pes(p, id - 1)} ELSE {}) \cup
    (IF n = 0 /\ (announced[p] \/ Pes(p, id) \in hit) THEN {Pes(p, id + 1)} ELSE {})

AffectedByContinuation(p, n, id, indicator) ==
    (IF n # 1 THEN {Pes(p, id)} ELSE {}) \cup
    (IF n = 0 /\ indicator THEN {Pes(p, id + 1)} ELSE {})

(* What the receiver is owed of the PES that is in progress. *)
Close(p) ==
    IF attached[p] THEN <<[frags |-> Whole(p, pes[p].id, pes[p].sent), rai |-> rai[p]]>>
    ELSE <<>>

(* The packet a PES starts in.  The PES before it on the PID is complete.  *)
StartPes(p) ==
    /\ pes[p].sent = pes[p].frags
    /\ pes[p].id < MaxPes[p]
    /\ \E n \in Fates, frags \in 1 .. MaxFrags, indicator \in BOOLEAN :
        LET id == pes[p].id + 1 IN
        /\ pes' = [pes EXCEPT ![p] = [id |-> id, sent |-> 1, frags |-> frags]]
        /\ ReadPackets(Packet(p, TRUE, <<Frag(p, id, 1)>>, indicator), n)
        /\ Channel(n)
        /\ hit' = hit \cup AffectedByStart(p, n, id)
        /\ expected' = expected \o Close(p)
        /\ rai' = [rai EXCEPT ![p] = announced[p] \/ indicator]
        /\ announced' = [announced EXCEPT ![p] = FALSE]
        /\ attached' = [attached EXCEPT ![p] = TRUE]
        /\ \/ malformed' = malformed
           \/ Cardinality(malformed) < Malformed /\ malformed' = malformed \cup {Pes(p, id)}
    /\ UNCHANGED sought

(* A further packet of the PES. *)
ContinuePes(p) ==
    /\ pes[p].sent < pes[p].frags
    /\ \E n \in Fates, indicator \in BOOLEAN :
        LET id == pes[p].id IN
        /\ pes' = [pes EXCEPT ![p].sent = @ + 1]
        /\ ReadPackets(Packet(p, FALSE, <<Frag(p, id, pes[p].sent + 1)>>, indicator), n)
        /\ Channel(n)
        /\ hit' = hit \cup AffectedByContinuation(p, n, id, indicator)
        /\ announced' = [announced EXCEPT ![p] = @ \/ indicator]
    /\ UNCHANGED <<malformed, sought, attached, rai, expected>>

(* A packet without payload that carries the indicator. *)
SendIndicator(p) ==
    /\ ~announced[p]
    /\ ReadPackets(Packet(p, FALSE, <<>>, TRUE), 1)
    /\ announced' = [announced EXCEPT ![p] = TRUE]
    /\ UNCHANGED <<pes, budget, attached, rai, expected, hit>>

(* next_packet at the end of the input, which may cut a PES short.         *)
EndOfInput ==
    /\ ~eofReached
    /\ eofReached' = TRUE
    /\ FlushReassemblers
    /\ expected' = expected \o FlattenSeq([i \in DOMAIN Ascending |-> Close(Ascending[i])])
    /\ UNCHANGED <<errors, pes, budget, announced, attached, rai, hit>>

(* reposition: every reassembler is new, and the input continues anywhere, *)
(* in the middle of a PES or before one.                                   *)
Reposition ==
    /\ sought < Seeks
    /\ sought' = sought + 1
    /\ eofReached' = FALSE
    /\ buf' = [p \in Pids |-> <<>>]
    /\ started' = [p \in Pids |-> FALSE]
    /\ currentRai' = [p \in Pids |-> FALSE]
    /\ pendingRai' = [p \in Pids |-> FALSE]
    /\ announced' = [p \in Pids |-> FALSE]
    /\ attached' = [p \in Pids |-> FALSE]
    /\ rai' = [p \in Pids |-> FALSE]
    /\ UNCHANGED <<emitted, errors, pes, malformed, faults, expected, hit>>

Init ==
    /\ buf = [p \in Pids |-> <<>>]
    /\ started = [p \in Pids |-> FALSE]
    /\ currentRai = [p \in Pids |-> FALSE]
    /\ pendingRai = [p \in Pids |-> FALSE]
    /\ emitted = <<>> /\ errors = {} /\ eofReached = FALSE
    /\ pes \in [Pids -> {[id |-> 0, sent |-> 1, frags |-> n] : n \in 1 .. MaxFrags}]
    /\ malformed = {} /\ faults = 0 /\ sought = 0
    /\ announced = [p \in Pids |-> FALSE]
    /\ attached = [p \in Pids |-> FALSE]
    /\ rai = [p \in Pids |-> FALSE]
    /\ expected = <<>> /\ hit = {}

Next ==
    \/ \E p \in Pids : ~eofReached /\ (StartPes(p) \/ ContinuePes(p) \/ SendIndicator(p))
    \/ EndOfInput
    \/ Reposition

Spec == Init /\ [][Next]_vars

------------------------------------------------------------------------------
TypeOK ==
    /\ \A p \in Pids : started[p] = (buf[p] # <<>>)
    /\ {started, currentRai, pendingRai, announced, attached, rai} \subseteq [Pids -> BOOLEAN]
    /\ errors \subseteq Pids /\ eofReached \in BOOLEAN
    /\ \A p \in Pids : pes[p].sent \in 1 .. pes[p].frags /\ pes[p].id \in 0 .. MaxPes[p]
    /\ \A f \in hit \cup malformed : f.pid \in Pids /\ f.id \in 0 .. MaxPes[f.pid] + 1
    /\ faults \in 0 .. Faults /\ sought \in 0 .. Seeks

(* What a receiver is owed: the PES packets that no fault touched. *)
Owed(e) == e.frags[1].pes \notin hit \cup malformed
Sound(seq) ==
    LET owed[i \in 0 .. Len(seq)] ==
            IF i = 0 THEN <<>>
            ELSE owed[i - 1] \o (IF Owed(seq[i]) THEN <<seq[i]>> ELSE <<>>)
    IN  owed[Len(seq)]

(* Every PES that no lost or repeated packet touched is emitted once,      *)
(* complete, in order and with its random-access flag, whatever happens on *)
(* the other PIDs, at the end of the input and across seeks: feed() never  *)
(* joins what came before a reposition to what comes after, and never      *)
(* gives an indicator to the wrong PES.                                    *)
FaultsAreLocal == Sound(emitted) = Sound(expected)
==============================================================================
