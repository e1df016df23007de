----------------------------- MODULE FrameStream ----------------------------
(***************************************************************************)
(* A response as a stream of frames: a server writes it with the encoders  *)
(* of TreeFrame, a network carries it, and parse_stream of                 *)
(* src/src/treeframe.rs decides whether the body that arrived is one whole *)
(* response.                                                               *)
(*                                                                         *)
(* Server and network are external.  The server gives each response its    *)
(* own stream id and numbers the frames from 0, as the tests do; it may    *)
(* stop anywhere.  The network (with the proxies and retries around it)    *)
(* hands over any frames of any responses, in any order and number, as     *)
(* they are, damaged, or cut off.  One action of the reader is one turn of *)
(* parse_stream's loop.                                                    *)
(***************************************************************************)
EXTENDS TreeFrame

CONSTANTS Streams,    \* stream ids the server uses, one per response
          Payloads,   \* payloads the server has to send
          Traffic,    \* <<stream, payload, zstd>> the server may write; zstd is
                      \* TRUE where it compresses, as encode_zstd does
          Readers,    \* builds of the reader: TRUE with the "zstd" feature
          Meet,       \* bound: responses whose frames may be in one body
          MaxFrames,  \* bound: frames of a response
          MaxBody     \* bound: frames of a body

VARIABLES
    withZstd,   \* the reader's build
    sent,       \* by stream id, the frames the server has written
    body,       \* what the network hands over
    closed,     \* the body is complete and parse_stream is called on it
    off,        \* frames of the body consumed
    streamId,   \* stream_id: that of the first frame, or Unset
    expectSeq,  \* expect_seq
    terminated,
    frames,     \* the payloads parsed so far
    outcome     \* "pending", or parse_stream's Ok or Err

reader == <<off, streamId, expectSeq, terminated, frames, outcome>>
vars   == <<withZstd, sent, body, closed, reader>>

Unset == -1

ASSUME StreamsAssumption  == Streams \subseteq Nat
ASSUME PayloadsAssumption ==
    \A p \in Payloads :
        /\ p.kind \in FrameKinds /\ Len(p.items) \in Nat
        /\ \A n \in 1..Len(p.items) : p.items[n].len \in Nat
        /\ p.kind = "END" =>            \* EndPayload has fields of fixed width
               Len(p.items) = 1 /\ p.items[1].len = 48
ASSUME TrafficAssumption  == Traffic \subseteq Streams \X Payloads \X BOOLEAN
ASSUME ReadersAssumption  == Readers \subseteq BOOLEAN
ASSUME FrameBoundsAssumption == MaxFrames \in Nat /\ MaxBody \in Nat

Terminal(f)  == f.kind \in TerminalKinds
Complete(fs) == fs # << >> /\ Terminal(fs[Len(fs)])

-----------------------------------------------------------------------------
Init ==
    /\ withZstd \in Readers
    /\ sent = [s \in Streams |-> << >>]
    /\ body = << >> /\ closed = FALSE
    /\ off = 0 /\ streamId = Unset /\ expectSeq = 0
    /\ terminated = FALSE /\ frames = << >> /\ outcome = "pending"

(* The server encodes the next payload of a response, END or ERROR last.    *)
(* That it is done before the network starts hides no body: the network     *)
(* may hand over any part of what was written.                              *)
Write ==
    /\ body = << >> /\ ~closed
    /\ \E s \in Streams, p \in Payloads, zstd \in BOOLEAN :
         /\ <<s, p, zstd>> \in Traffic
         /\ \E m \in Meet : s \in m /\ \A t \in Streams \ m : sent[t] = << >>
         /\ ~Complete(sent[s]) /\ Len(sent[s]) < MaxFrames
         /\ EncodeOk(p)
         /\ zstd => p.kind \in DataKinds
         /\ sent' = [sent EXCEPT
                ![s] = Append(@, Frame(p, zstd, s, Len(sent[s])))]
    /\ UNCHANGED <<withZstd, body, closed, reader>>

(* The network hands over some frame that was sent, damaged or not. *)
Deliver ==
    /\ ~closed /\ Len(body) < MaxBody
    /\ \E s \in Streams, damage \in Damages :
         \E k \in 1..Len(sent[s]) :
            /\ body' = Append(body, [sent[s][k] EXCEPT !.damage = damage])
            /\ closed' = (damage = "cut")
    /\ UNCHANGED <<withZstd, sent, reader>>

Close ==
    /\ ~closed /\ closed' = TRUE
    /\ UNCHANGED <<withZstd, sent, body, reader>>

-----------------------------------------------------------------------------
(* parse_stream. *)
Reading == closed /\ outcome = "pending"
Next1   == body[off + 1]

HeaderSeq(f) == f.seq
HeaderSid(f) == f.stream

InOrder(f)    == HeaderSeq(f) >= expectSeq   \* mutant of InSequence: gaps pass
InSequence(f) == HeaderSeq(f) = expectSeq

SameStream(f) == streamId \in {Unset, HeaderSid(f)}

Reject == /\ outcome' = "error"
          /\ UNCHANGED <<withZstd, sent, body, closed, off, streamId, expectSeq,
                         terminated, frames>>

RejectTrailing == Reading /\ off < Len(body) /\ terminated /\ Reject

RejectFrame ==
    /\ Reading /\ off < Len(body) /\ ~terminated
    /\ ~ParseOk(Next1, withZstd)
    /\ Reject

RejectStream ==       \* stream_id changed mid-stream
    /\ Reading /\ off < Len(body) /\ ~terminated /\ ParseOk(Next1, withZstd)
    /\ ~SameStream(Next1)
    /\ Reject

RejectSequence ==     \* a gap, a repetition or a late start
    /\ Reading /\ off < Len(body) /\ ~terminated /\ ParseOk(Next1, withZstd)
    /\ SameStream(Next1) /\ ~InSequence(Next1)
    /\ Reject

Accept ==
    /\ Reading /\ off < Len(body) /\ ~terminated /\ ParseOk(Next1, withZstd)
    /\ SameStream(Next1) /\ InSequence(Next1)
    /\ streamId' = HeaderSid(Next1)
    /\ expectSeq' = expectSeq + 1
    /\ terminated' = Terminal(Next1)
    /\ frames' = Append(frames, Next1.payload)
    /\ off' = off + 1
    /\ UNCHANGED <<withZstd, sent, body, closed, outcome>>

EndOfBody ==
    /\ Reading /\ off = Len(body)
    /\ outcome' = IF terminated THEN "ok" ELSE "error"
    /\ UNCHANGED <<withZstd, sent, body, closed, off, streamId, expectSeq,
                   terminated, frames>>

ParseStream == \/ RejectTrailing \/ RejectFrame \/ RejectStream
               \/ RejectSequence \/ Accept \/ EndOfBody

Next == Write \/ Deliver \/ Close \/ ParseStream

Spec == Init /\ [][Next]_vars

-----------------------------------------------------------------------------
WireFrame ==
    [kind : FrameKinds, zstd : BOOLEAN, rawLen : {RawLen(p) : p \in Payloads},
     stream : Streams, seq : Nat, digest : Payloads, payload : Payloads,
     damage : Damages]

(* The types of frames, of what was sent and received, and of the reader's  *)
(* variables (those of parse_stream and its loop).                          *)
TypeOK ==
    /\ withZstd \in Readers
    /\ sent \in [Streams -> Seq(WireFrame)]
    /\ body \in Seq(WireFrame)
    /\ closed \in BOOLEAN /\ terminated \in BOOLEAN
    /\ off \in 0..Len(body) /\ expectSeq \in Nat
    /\ streamId \in Streams \cup {Unset}
    /\ frames \in Seq(Payloads)
    /\ outcome \in {"pending", "ok", "error"}

(* What parse_stream accepts is one response, all of it and nothing else,   *)
(* terminator included, in the order it was written: whatever was lost,     *)
(* repeated, reordered, cut, damaged or mixed in from another response.     *)
PayloadsOf(fs) == [k \in 1..Len(fs) |-> fs[k].payload]

AcceptedIsWhole ==
    outcome = "ok" =>
        \E s \in Streams : Complete(sent[s]) /\ frames = PayloadsOf(sent[s])

(* README.md:20-21, "what the server wrote" and "what the client accepts"   *)
(* are the same code: a whole response that arrives as it was written is    *)
(* accepted.  It is only true of what keeps to LeftToCaller: see            *)
(* OnlyTheGapIsRefused, and the run frame_twice.                            *)
WholeIsAccepted ==
    outcome = "error" =>
        \A s \in Streams : ~(Complete(sent[s]) /\ body = sent[s])

(* What the reader requires of a frame and the encoders do not look at: a   *)
(* stream id other than 0, compression only if the reader can undo it, no   *)
(* page beyond its limit, and no page or object named twice.                *)
LeftToCaller(f, readerZstd) ==
    /\ f.stream # 0
    /\ f.zstd => readerZstd
    /\ f.kind = "META" => \A item \in Items(f.payload) : item.len <= PageMaxBytes
    /\ f.kind \in {"META", "OBJECT"} => Distinct(f.payload)

(* That is all the encoders let through and parse_stream refuses: a whole   *)
(* response that arrives as it was written is accepted if each of its frames*)
(* keeps to LeftToCaller, and refused otherwise.  All other limits (counts, *)
(* sizes of objects, chunks and payloads, identities) are stated twice in   *)
(* the code, by encoders and decoders, and must be the same.                *)
OnlyTheGapIsRefused ==
    \A s \in Streams :
        outcome # "pending" /\ Complete(sent[s]) /\ body = sent[s] =>
            (outcome = "ok" <=> \A k \in 1..Len(body) : LeftToCaller(body[k], withZstd))
=============================================================================
