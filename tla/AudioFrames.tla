----------------------------- MODULE AudioFrames -----------------------------
(***************************************************************************)
(* The audio frame splitter of both demuxers (audio_frame.rs).  Frames of  *)
(* several lengths follow each other in the elementary stream, PES packets *)
(* cut it anywhere and may be lost; the splitter finds the frames by their *)
(* headers and stamps each.  The buffer holds positions of the elementary  *)
(* stream; a header reads as one where a frame begins, and where bytes     *)
(* inside a frame look like one.  The loop of push is a step per round.    *)
(***************************************************************************)
EXTENDS Integers, Sequences, FiniteSets, SequencesExt, FiniteSetsExt

CONSTANTS
    Lengths,       \* the frames: their lengths
    HeaderLen,     \* of every header
    Lookalikes,    \* <<position, length>>: what looks like a header within a
                   \* frame, of any length a header can say
    PayloadSizes,
    MaxLost,       \* payloads lost
    Recovery,      \* payloads with a PTS after which a loss is got over
    FirstStamped   \* the sender gives PTS from the first frame on

VARIABLES
    sent,          \* the sender's position
    lost,          \* the payloads lost
    residual, residualPts,
    anchor,        \* [pts, since, rate], rate 0 before a header was seen; or NoAnchor
    locked,
    buf, at, carried, pending, busy,      \* push: its buffer, cursor and PTS to give
    emitted,       \* the frames cut: [bytes, pts]
    passed,        \* the payloads given as they came
    sound,         \* the position from which losses are got over
    stamped,       \* the payloads with a PTS since the loss
    ended

audioVars == <<sent, lost, residual, residualPts, anchor, locked, buf, at, carried, pending,
               busy, emitted, passed, sound, stamped, ended>>

NoPts    == -1
NoAnchor == [pts |-> NoPts, since |-> 0, rate |-> 0]

(* A frame lasts four thirds of a tick: stamps are rounded down.           *)
Rate     == 3
Ticks(k) == (4 * k) \div Rate

StartOf(k) == MapThenSumSet(LAMBDA i : Lengths[i], 1..(k - 1))
Total      == StartOf(Len(Lengths) + 1)
Starts     == {StartOf(k) : k \in DOMAIN Lengths}
FrameAt(p) == CHOOSE k \in DOMAIN Lengths : StartOf(k) = p

(* AudioSyntax::parse at index i of a buffer: the length of the frame, or  *)
(* 0.  A header that was torn by a loss does not read as one.              *)
Headers == {<<StartOf(k), Lengths[k]>> : k \in DOMAIN Lengths} \cup Lookalikes
Parse(b, i) ==
    LET whole == i + HeaderLen - 1 <= Len(b) /\ \A j \in 1..(HeaderLen - 1) : b[i + j] = b[i] + j
        found == {h[2] : h \in {g \in Headers : whole /\ g[1] = b[i]}}
    IN  IF found = {} THEN 0 ELSE CHOOSE n \in found : TRUE

AudioInit ==
    /\ sent = 0 /\ lost = 0
    /\ residual = << >> /\ residualPts = NoPts
    /\ anchor = NoAnchor /\ locked = FALSE
    /\ buf = << >> /\ at = 1 /\ carried = 0 /\ pending = NoPts /\ busy = FALSE
    /\ emitted = << >> /\ passed = 0
    /\ sound = 0 /\ stamped = 0 /\ ended = FALSE

Commencing(from, to) == {k \in DOMAIN Lengths : from <= StartOf(k) /\ StartOf(k) < to}
Payload(n)           == [i \in 1..n |-> sent + i - 1]

(* Before the first frame a payload must begin with a header; otherwise it *)
(* is given as it came and the splitter starts afresh (emit_pes).          *)
PassThrough(n) ==
    /\ ~busy /\ ~ended /\ sent + n <= Total
    /\ ~locked /\ Parse(Payload(n), 1) = 0
    /\ sent' = sent + n
    /\ passed' = passed + 1
    /\ sound' = Total /\ stamped' = 0
    /\ anchor' = NoAnchor
    /\ UNCHANGED <<lost, residual, residualPts, locked, buf, at, carried, pending, busy,
                   emitted, ended>>

Push(n, withPts) ==
    /\ ~busy /\ ~ended /\ sent + n <= Total
    /\ locked \/ Parse(Payload(n), 1) # 0
    /\ withPts => Commencing(sent, sent + n) # {}
    /\ FirstStamped /\ anchor = NoAnchor => withPts \/ Commencing(sent, sent + n) = {}
    /\ buf' = residual \o Payload(n)
    /\ carried' = Len(residual)
    /\ at' = 1
    /\ pending' = IF withPts THEN Ticks(Min(Commencing(sent, sent + n)) - 1) ELSE NoPts
    /\ residual' = << >>
    /\ busy' = TRUE
    /\ sent' = sent + n
    /\ stamped' = IF withPts /\ sound = Total THEN stamped + 1 ELSE stamped
    /\ sound' = IF sound = Total /\ stamped' = Recovery THEN sent ELSE sound
    /\ UNCHANGED <<lost, residualPts, anchor, locked, emitted, passed, ended>>

Lose(n) ==
    /\ ~busy /\ ~ended /\ sent + n <= Total
    /\ lost < MaxLost
    /\ lost' = lost + 1
    /\ sent' = sent + n
    /\ sound' = Total /\ stamped' = 0
    /\ UNCHANGED <<residual, residualPts, anchor, locked, buf, at, carried, pending, busy,
                   emitted, passed, ended>>

------------------------------------------------------------------------------
(* The rounds of push.                                                     *)
Left     == Len(buf) - at + 1
Here     == Parse(buf, at)
Short    == Here # 0 /\ Here < HeaderLen       \* shorter than its own header
Fits     == Here <= Left
Followed == Left - Here < HeaderLen \/ Parse(buf, at + Here) # 0
New      == at > carried

Stamped(a)     == [a EXCEPT !.since = @ + 1]
Offset(a)      == IF a.rate = 0 THEN 0 ELSE (4 * a.since) \div a.rate
(* take_stamp and interpolate, with the geometry of a header or the guess. *)
Taken(rate) == IF pending # NoPts THEN [pts |-> pending, since |-> 0, rate |-> rate]
               ELSE IF anchor = NoAnchor THEN NoAnchor
               ELSE [anchor EXCEPT !.rate = IF rate = 0 THEN @ ELSE rate]
StampWith(a) == IF a = NoAnchor THEN NoPts ELSE a.pts + Offset(a)
TakeStamp(rate) ==
    /\ anchor' = IF Taken(rate) = NoAnchor THEN NoAnchor ELSE Stamped(Taken(rate))
    /\ pending' = NoPts
KeepStamp == UNCHANGED <<anchor, pending>>

Drop ==
    /\ busy /\ Left >= HeaderLen
    /\ Here = 0 \/ Short \/ (Fits /\ ~Followed)
    /\ at' = at + 1
    /\ residualPts' = IF Short THEN residualPts ELSE NoPts
    /\ UNCHANGED <<sent, lost, residual, anchor, locked, buf, carried, pending, busy, emitted,
                   passed, sound, stamped, ended>>

Keep(rate) ==
    /\ residual' = SubSeq(buf, at, Len(buf))
    /\ IF New THEN TakeStamp(rate) /\ residualPts' = StampWith(Taken(rate))
              ELSE KeepStamp /\ UNCHANGED residualPts
    /\ busy' = FALSE
    /\ buf' = << >>
    /\ UNCHANGED <<sent, lost, locked, at, carried, emitted, passed, sound, stamped, ended>>

Partial     == Left >= HeaderLen /\ Here >= HeaderLen /\ ~Fits
Stub        == 0 < Left /\ Left < HeaderLen
KeepPartial == busy /\ locked /\ Partial /\ Keep(Rate)
DropTail ==                           \* mutant: a cut header is dropped
    /\ busy /\ locked /\ Stub
    /\ residual' = << >> /\ residualPts' = NoPts
    /\ busy' = FALSE
    /\ buf' = << >>
    /\ UNCHANGED <<sent, lost, anchor, locked, at, carried, pending, emitted, passed,
                   sound, stamped, ended>>
KeepTail    == busy /\ locked /\ Stub /\ Keep(anchor.rate)

(* A payload that held no first frame is given as it came, too.            *)
GiveUp ==
    /\ busy /\ ~locked
    /\ Partial \/ Left < HeaderLen
    /\ passed' = passed + 1
    /\ residual' = << >> /\ residualPts' = NoPts /\ anchor' = NoAnchor
    /\ sound' = Total /\ stamped' = 0
    /\ busy' = FALSE
    /\ buf' = << >>
    /\ UNCHANGED <<sent, lost, locked, at, carried, pending, emitted, ended>>

Emit ==
    /\ busy /\ Left >= HeaderLen
    /\ Here >= HeaderLen /\ Fits /\ Followed
    /\ IF New \/ residualPts = NoPts
       THEN /\ anchor' = LET a == IF New THEN Taken(Rate)
                                  ELSE IF anchor = NoAnchor THEN NoAnchor
                                  ELSE [anchor EXCEPT !.rate = Rate]
                         IN  IF a = NoAnchor THEN a ELSE Stamped(a)
            /\ pending' = IF New THEN NoPts ELSE pending
       ELSE KeepStamp
    /\ LET a == IF New THEN Taken(Rate)
                ELSE IF anchor = NoAnchor THEN NoAnchor ELSE [anchor EXCEPT !.rate = Rate]
       IN  emitted' = Append(emitted,
               [bytes |-> SubSeq(buf, at, at + Here - 1),
                pts |-> IF ~New /\ residualPts # NoPts THEN residualPts ELSE StampWith(a)])
    /\ residualPts' = IF New THEN residualPts ELSE NoPts
    /\ at' = at + Here
    /\ locked' = TRUE
    /\ UNCHANGED <<sent, lost, residual, buf, carried, busy, passed, sound, stamped, ended>>

Done ==
    /\ busy /\ locked /\ Left = 0
    /\ busy' = FALSE
    /\ buf' = << >>
    /\ residualPts' = NoPts
    /\ UNCHANGED <<sent, lost, residual, anchor, locked, at, carried, pending, emitted,
                   passed, sound, stamped, ended>>

(* At the end what is left is given when it begins like a frame.           *)
Flush ==
    /\ ~busy /\ ~ended /\ sent = Total
    /\ ended' = TRUE
    /\ IF residual # << >> /\ Parse(residual, 1) # 0
       THEN /\ emitted' = Append(emitted, [bytes |-> residual, pts |-> residualPts])
            /\ residual' = << >> /\ residualPts' = NoPts
       ELSE UNCHANGED <<emitted, residual, residualPts>>
    /\ UNCHANGED <<sent, lost, anchor, locked, buf, at, carried, pending, busy, passed,
                   sound, stamped>>

AudioNext ==
    \/ \E n \in PayloadSizes : PassThrough(n) \/ Lose(n) \/ \E withPts \in BOOLEAN : Push(n, withPts)
    \/ Drop \/ GiveUp \/ KeepPartial \/ KeepTail \/ Emit \/ Done \/ Flush

------------------------------------------------------------------------------
Frame(k) == [i \in 1..Lengths[k] |-> StartOf(k) + i - 1]
Sound(e) == e.bytes[1] >= sound
Near(a, b) == a - b \in -1..1

(* The frames come out whole, in order and once each, wherever payloads    *)
(* cut them; after a loss, or a start in mid-frame, they do so again from  *)
(* the next payload on that carries a PTS.                                 *)
FramesWhole ==
    /\ \A i \in DOMAIN emitted : Sound(emitted[i]) => \E k \in DOMAIN Lengths : emitted[i].bytes = Frame(k)
    /\ \A i, j \in DOMAIN emitted :
           i < j /\ Sound(emitted[i]) => emitted[i].bytes[1] < emitted[j].bytes[1]
    /\ ended => \A k \in DOMAIN Lengths :
           StartOf(k) >= sound => \E i \in DOMAIN emitted : emitted[i].bytes = Frame(k)

(* A frame has the time it is for, to a tick of rounding that does not add *)
(* up, whether its payload's PTS or an earlier one says so.                *)
StampsTrue ==
    \A i \in DOMAIN emitted :
        Sound(emitted[i]) /\ emitted[i].pts # NoPts =>
            Near(emitted[i].pts, Ticks(FrameAt(emitted[i].bytes[1]) - 1))
=============================================================================
