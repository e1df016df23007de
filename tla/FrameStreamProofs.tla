------------------------- MODULE FrameStreamProofs --------------------------
(***************************************************************************)
(* TLAPS proofs, for any number of responses, frames and payloads, that    *)
(* parse_stream accepts nothing but whole responses, whatever the network  *)
(* does to the frames, and which whole responses it refuses.               *)
(***************************************************************************)
EXTENDS FrameStream, SequenceTheorems, TLAPS

-----------------------------------------------------------------------------
(* The inductive invariant: how a response was written, where the frames of *)
(* a body come from, and what the loop has established of those it consumed.*)
Numbered ==
    \A s \in Streams : \A k \in 1..Len(sent[s]) :
        /\ sent[s][k].stream = s /\ sent[s][k].seq = k - 1
        /\ sent[s][k].damage = "none"
        /\ Terminal(sent[s][k]) => k = Len(sent[s])

Carried ==
    \A k \in 1..Len(body) :
        body[k].damage = "none" =>
            \E s \in Streams : \E j \in 1..Len(sent[s]) : body[k] = sent[s][j]

Consumed ==
    /\ Len(frames) = off /\ expectSeq = off
    /\ off > 0 => streamId # Unset
    /\ \A k \in 1..off :
         /\ body[k].damage = "none" /\ body[k].stream = streamId
         /\ body[k].seq = k - 1 /\ frames[k] = body[k].payload
    /\ terminated => off > 0 /\ Terminal(body[off])

Judged ==
    /\ ~closed => off = 0 /\ outcome = "pending"
    /\ outcome = "ok" => terminated /\ off = Len(body)

IInv == TypeOK /\ Numbered /\ Carried /\ Consumed /\ Judged

-----------------------------------------------------------------------------
LEMMA InitIInv == Init => IInv
<1> SUFFICES ASSUME Init PROVE IInv
  OBVIOUS
<1>1. TypeOK
  <2>1. << >> \in Seq(WireFrame) /\ << >> \in Seq(Payloads) /\ Len(<< >>) = 0
    BY EmptySeq
  <2>2. sent \in [Streams -> Seq(WireFrame)]
    BY <2>1 DEF Init
  <2>3. body \in Seq(WireFrame) /\ frames \in Seq(Payloads)
    BY <2>1 DEF Init
  <2>4. closed \in BOOLEAN /\ terminated \in BOOLEAN
    BY DEF Init
  <2>5. off \in 0..Len(body) /\ expectSeq \in Nat
    BY <2>1 DEF Init
  <2>6. streamId \in Streams \cup {Unset} /\ outcome \in {"pending", "ok", "error"}
    BY DEF Init
  <2>7. withZstd \in Readers
    BY DEF Init
  <2> QED
    BY <2>2, <2>3, <2>4, <2>5, <2>6, <2>7 DEF TypeOK
<1>2. Numbered /\ Carried /\ Consumed /\ Judged
  BY DEF Init, Numbered, Carried, Consumed, Judged
<1> QED
  BY <1>1, <1>2 DEF IInv

(* The server appends to an incomplete response, before anything is read. *)
LEMMA WriteStep ==
    ASSUME IInv, Write
    PROVE  IInv'
<1>1. PICK s \in Streams, p \in Payloads, zstd \in BOOLEAN :
        /\ ~Complete(sent[s])
        /\ sent' = [sent EXCEPT ![s] = Append(@, Frame(p, zstd, s, Len(sent[s])))]
  BY DEF Write
<1>2. body = << >> /\ UNCHANGED <<withZstd, body, closed, reader>>
  BY DEF Write
<1> DEFINE f == Frame(p, zstd, s, Len(sent[s]))
<1>3. sent[s] \in Seq(WireFrame) /\ Len(sent[s]) \in Nat
  BY DEF IInv, TypeOK
<1>4. /\ f \in WireFrame /\ f.stream = s /\ f.seq = Len(sent[s])
      /\ f.damage = "none"
  BY <1>3, PayloadsAssumption DEF Frame, WireFrame, Damages
<1> HIDE DEF f
<1>5. /\ sent'[s] \in Seq(WireFrame) /\ Len(sent'[s]) = Len(sent[s]) + 1
      /\ \A k \in 1..Len(sent[s]) : sent'[s][k] = sent[s][k]
      /\ sent'[s][Len(sent[s]) + 1] = f
      /\ \A t \in Streams \ {s} : sent'[t] = sent[t]
  BY <1>1, <1>3, <1>4 DEF IInv, TypeOK, f
<1>6. TypeOK'
  BY <1>1, <1>2, <1>5 DEF IInv, TypeOK, reader
<1>7. \A k \in 1..Len(sent[s]) : ~Terminal(sent[s][k])
  BY <1>1, <1>3 DEF IInv, Numbered, Complete
<1>8. Numbered'
  <2> SUFFICES ASSUME NEW t \in Streams, NEW k \in 1..Len(sent'[t])
               PROVE  /\ sent'[t][k].stream = t /\ sent'[t][k].seq = k - 1
                      /\ sent'[t][k].damage = "none"
                      /\ Terminal(sent'[t][k]) => k = Len(sent'[t])
    BY DEF Numbered, Terminal
  <2>1. CASE t # s
    BY <1>5, <2>1 DEF IInv, Numbered
  <2>2. CASE t = s /\ k \in 1..Len(sent[s])
    BY <1>3, <1>5, <1>7, <2>2 DEF IInv, Numbered
  <2>3. CASE t = s /\ k = Len(sent[s]) + 1
    BY <1>3, <1>4, <1>5, <2>3
  <2> QED
    BY <1>3, <1>5, <2>1, <2>2, <2>3
<1>9. Carried'
  BY <1>2 DEF Carried
<1>10. Consumed' /\ Judged'
  BY <1>2 DEF IInv, TypeOK, Consumed, Judged, reader
<1> QED
  BY <1>6, <1>8, <1>9, <1>10 DEF IInv

(* The network hands over one more frame, before the body is closed. *)
LEMMA DeliverStep ==
    ASSUME IInv, Deliver
    PROVE  IInv'
<1>1. PICK s \in Streams, damage \in Damages :
        \E k \in 1..Len(sent[s]) :
           /\ body' = Append(body, [sent[s][k] EXCEPT !.damage = damage])
           /\ closed' = (damage = "cut")
  BY DEF Deliver
<1>2. PICK k \in 1..Len(sent[s]) :
        /\ body' = Append(body, [sent[s][k] EXCEPT !.damage = damage])
        /\ closed' = (damage = "cut")
  BY <1>1
<1>3. ~closed /\ UNCHANGED <<withZstd, sent, reader>>
  BY DEF Deliver
<1> DEFINE f == [sent[s][k] EXCEPT !.damage = damage]
<1>4. sent[s] \in Seq(WireFrame) /\ sent[s][k] \in WireFrame
  BY ElementOfSeq DEF IInv, TypeOK
<1>5. f \in WireFrame /\ (f.damage = "none" => f = sent[s][k])
  <2>1. sent[s][k].damage = "none"
    BY DEF IInv, Numbered
  <2>2. f \in WireFrame
    BY <1>4 DEF WireFrame
  <2>3. f.damage = damage
    BY <1>4 DEF WireFrame
  <2>4. damage = "none" => f = sent[s][k]
    BY <1>4, <2>1 DEF WireFrame
  <2> QED
    BY <2>2, <2>3, <2>4
<1> HIDE DEF f
<1>6. body \in Seq(WireFrame) /\ Len(body) \in Nat /\ body' = Append(body, f)
  BY <1>2 DEF IInv, TypeOK, f
<1>7. /\ body' \in Seq(WireFrame) /\ Len(body') = Len(body) + 1
      /\ \A i \in 1..Len(body) : body'[i] = body[i]
      /\ body'[Len(body) + 1] = f
  BY <1>5, <1>6
<1>8. TypeOK'
  BY <1>2, <1>3, <1>6, <1>7 DEF IInv, TypeOK, reader
<1>9. Numbered'
  BY <1>3 DEF IInv, Numbered
<1>10. Carried'
  BY <1>3, <1>5, <1>6, <1>7 DEF IInv, Carried
<1>11. off = 0 /\ off' = 0 /\ Judged'
  BY <1>3 DEF IInv, Judged, reader
<1>12. Consumed'
  BY <1>3, <1>11 DEF IInv, Consumed, reader
<1> QED
  BY <1>8, <1>9, <1>10, <1>11, <1>12 DEF IInv

(* One more frame passes parse_frame and the rules of the loop. *)
LEMMA AcceptStep ==
    ASSUME IInv, Accept
    PROVE  IInv'
<1>1. /\ closed /\ outcome = "pending" /\ off < Len(body) /\ ~terminated
      /\ ParseOk(Next1, withZstd) /\ streamId \in {Unset, Next1.stream}
      /\ Next1.seq = expectSeq /\ streamId' = Next1.stream
      /\ expectSeq' = expectSeq + 1 /\ terminated' = Terminal(Next1)
      /\ frames' = Append(frames, Next1.payload) /\ off' = off + 1
      /\ UNCHANGED <<withZstd, sent, body, closed, outcome>>
  BY DEF Accept, Reading, SameStream, InSequence, HeaderSeq, HeaderSid
<1>2. body \in Seq(WireFrame) /\ Len(body) \in Nat /\ off \in Nat
      /\ off + 1 \in 1..Len(body)
  BY <1>1 DEF IInv, TypeOK
<1>3. Next1 \in WireFrame /\ Next1 = body[off + 1]
  BY <1>2, ElementOfSeq DEF Next1
<1>4. /\ Next1.stream \in Streams /\ Next1.stream # Unset
      /\ Next1.payload \in Payloads /\ Next1.damage = "none"
  BY <1>1, <1>3, StreamsAssumption DEF WireFrame, ParseOk, Damages, Unset
<1>5. /\ frames' \in Seq(Payloads) /\ Len(frames') = off + 1
      /\ \A k \in 1..off : frames'[k] = frames[k]
      /\ frames'[off + 1] = Next1.payload
  BY <1>1, <1>2, <1>4 DEF IInv, TypeOK, Consumed
<1>6. TypeOK'
  BY <1>1, <1>2, <1>4, <1>5 DEF IInv, TypeOK, Terminal
<1>7. off > 0 => streamId' = streamId
  BY <1>1 DEF IInv, Consumed
<1>8. \A k \in 1..off' :
        /\ body[k].damage = "none" /\ body[k].stream = streamId'
        /\ body[k].seq = k - 1 /\ frames'[k] = body[k].payload
  <2> SUFFICES ASSUME NEW k \in 1..off'
               PROVE  /\ body[k].damage = "none" /\ body[k].stream = streamId'
                      /\ body[k].seq = k - 1 /\ frames'[k] = body[k].payload
    OBVIOUS
  <2>1. CASE k \in 1..off
    BY <1>2, <1>5, <1>7, <2>1 DEF IInv, Consumed
  <2>2. CASE k = off + 1
    BY <1>1, <1>2, <1>3, <1>4, <1>5, <2>2 DEF IInv, Consumed
  <2>3. k \in 1..off \/ k = off + 1
    BY <1>1, <1>2
  <2> QED
    BY <2>1, <2>2, <2>3
<1>9. Consumed'
  <2>1. Len(frames') = off' /\ expectSeq' = off' /\ off' > 0
    BY <1>1, <1>2, <1>5 DEF IInv, Consumed
  <2>2. streamId' # Unset
    BY <1>1, <1>4
  <2>3. terminated' => body'[off'].kind \in TerminalKinds
    BY <1>1, <1>3 DEF Terminal
  <2>4. body' = body
    BY <1>1
  <2> QED
    BY <1>8, <2>1, <2>2, <2>3, <2>4 DEF Consumed, Terminal
<1>10. Numbered'
  BY <1>1 DEF IInv, Numbered, Terminal
<1>11. Carried'
  BY <1>1 DEF IInv, Carried
<1>12. Judged'
  BY <1>1 DEF IInv, Judged
<1> QED
  BY <1>6, <1>9, <1>10, <1>11, <1>12 DEF IInv

(* The steps that only close the body or end the loop. *)
LEMMA VerdictStep ==
    ASSUME IInv,
           \/ Close \/ RejectTrailing \/ RejectFrame \/ RejectStream
           \/ RejectSequence \/ EndOfBody \/ UNCHANGED vars
    PROVE  IInv'
<1>1. /\ UNCHANGED <<withZstd, sent, body, off, streamId, expectSeq, terminated, frames>>
      /\ closed' \in BOOLEAN /\ outcome' \in {"pending", "ok", "error"}
      /\ ~closed' => ~closed /\ outcome' = outcome
      /\ outcome' = "ok" => outcome = "ok" \/ (terminated /\ off = Len(body))
  BY DEF IInv, TypeOK, Close, RejectTrailing, RejectFrame, RejectStream,
         RejectSequence, EndOfBody, Reject, Reading, vars, reader
<1>2. TypeOK'
  BY <1>1 DEF IInv, TypeOK
<1>3. Numbered'
  BY <1>1 DEF IInv, Numbered, Terminal
<1>4. Carried'
  BY <1>1 DEF IInv, Carried
<1>5. Consumed'
  BY <1>1 DEF IInv, Consumed, Terminal
<1>6. Judged'
  BY <1>1 DEF IInv, Judged
<1> QED
  BY <1>2, <1>3, <1>4, <1>5, <1>6 DEF IInv

LEMMA NextIInv == IInv /\ [Next]_vars => IInv'
  BY WriteStep, DeliverStep, AcceptStep, VerdictStep DEF Next, ParseStream

-----------------------------------------------------------------------------
(* What has been consumed comes, frame by frame, from one response; the     *)
(* terminator is the last frame of that response, so nothing is missing.    *)
LEMMA IInvAccepted == IInv => AcceptedIsWhole
<1> SUFFICES ASSUME IInv, outcome = "ok"
             PROVE  \E s \in Streams :
                        Complete(sent[s]) /\ frames = PayloadsOf(sent[s])
  BY DEF AcceptedIsWhole
<1>1. /\ terminated /\ off = Len(body) /\ off \in Nat /\ off > 0
      /\ Terminal(body[off])
  BY DEF IInv, TypeOK, Judged, Consumed
<1>2. streamId \in Streams
  BY <1>1 DEF IInv, TypeOK, Consumed
<1> DEFINE r == sent[streamId]
<1>3. r \in Seq(WireFrame) /\ Len(r) \in Nat
  BY <1>2 DEF IInv, TypeOK
<1>4. \A k \in 1..off : k <= Len(r) /\ body[k] = r[k]
  <2> SUFFICES ASSUME NEW k \in 1..off PROVE k <= Len(r) /\ body[k] = r[k]
    OBVIOUS
  <2>1. /\ body[k].damage = "none" /\ body[k].stream = streamId
        /\ body[k].seq = k - 1
    BY DEF IInv, Consumed
  <2>2. PICK s \in Streams : \E j \in 1..Len(sent[s]) : body[k] = sent[s][j]
    BY <1>1, <2>1 DEF IInv, Carried
  <2>3. PICK j \in 1..Len(sent[s]) : body[k] = sent[s][j]
    BY <2>2
  <2>4. s = streamId /\ j - 1 = k - 1
    BY <2>1, <2>3 DEF IInv, Numbered
  <2>5. j = k
    BY <1>1, <2>4
  <2> QED
    BY <1>3, <2>3, <2>4, <2>5
<1>5. off = Len(r)
  BY <1>1, <1>2, <1>3, <1>4 DEF IInv, Numbered
<1>6. Complete(r)
  BY <1>1, <1>3, <1>4, <1>5 DEF Complete
<1>7. frames \in Seq(Payloads) /\ Len(frames) = Len(r)
  BY <1>5 DEF IInv, TypeOK, Consumed
<1>8. \A k \in 1..Len(r) : frames[k] = r[k].payload
  BY <1>4, <1>5 DEF IInv, Consumed
<1>9. frames = PayloadsOf(r)
  BY <1>3, <1>7, <1>8 DEF PayloadsOf
<1> QED
  BY <1>2, <1>6, <1>9

(* The variables of parse_stream and the frames keep their types. *)
THEOREM FrameTypes == Spec => []TypeOK
<1>1. Init => IInv
  BY InitIInv
<1>2. IInv /\ [Next]_vars => IInv'
  BY NextIInv
<1>3. IInv => TypeOK
  BY DEF IInv
<1> QED
  BY <1>1, <1>2, <1>3, PTL DEF Spec

(* parse_stream: "exactly one final END (or an ERROR terminator) and nothing*)
(* after it"; lost, repeated, reordered, cut, damaged or foreign frames     *)
(* never pass for a response.                                               *)
THEOREM OnlyWholeResponses == Spec => []AcceptedIsWhole
<1>1. Init => IInv
  BY InitIInv
<1>2. IInv /\ [Next]_vars => IInv'
  BY NextIInv
<1>3. IInv => AcceptedIsWhole
  BY IInvAccepted
<1> QED
  BY <1>1, <1>2, <1>3, PTL DEF Spec
-----------------------------------------------------------------------------
(* The other direction: a whole response is refused only for what the      *)
(* encoders leave to their callers.                                         *)

(* parse_frame takes a frame that an encoder wrote exactly if LeftToCaller. *)
Fair == \A s \in Streams : \A k \in 1..Len(sent[s]) :
            \A z \in BOOLEAN :
                ParseOk(sent[s][k], z) <=> LeftToCaller(sent[s][k], z)

Exact ==
    /\ off = 0 => streamId = Unset
    /\ off > 0 /\ Terminal(body[off]) => terminated
    /\ \A k \in 1..off : ParseOk(body[k], withZstd)

(* The size of a payload of one item. *)
LEMMA RawLenOfOne ==
    ASSUME NEW p, Len(p.items) = 1, p.items[1].len \in Nat, PerItem(p.kind) \in Nat
    PROVE  RawLen(p) = Overhead(p.kind) + (PerItem(p.kind) + p.items[1].len)
<1> DEFINE n == Len(p.items)
           D == (0..n) \X (0..n)
           e == PerItem(p.kind) + p.items[1].len
           Sum(f, r) == LET m == (r[1] + r[2]) \div 2 IN
                        IF r[1] >= r[2] THEN 0
                        ELSE IF r[2] = r[1] + 1 THEN PerItem(p.kind) + p.items[r[2]].len
                        ELSE f[<<r[1], m>>] + f[<<m, r[2]>>]
           U(f) == f = [r \in D |-> Sum(f, r)]
           g == [r \in D |-> IF r[1] >= r[2] THEN 0 ELSE e]
           h == CHOOSE f : U(f)
<1>1. \A r \in D : r[1] >= r[2] \/ (r[1] = 0 /\ r[2] = 1)
  OBVIOUS
<1>2. U(g)
  <2>1. \A r \in D : Sum(g, r) = IF r[1] >= r[2] THEN 0 ELSE e
    BY <1>1
  <2> QED
    BY <2>1
<1>3. U(h)
  BY <1>2
<1>4. RawLen(p) = Overhead(p.kind) + h[<<0, 1>>]
  BY DEF RawLen
<1> HIDE DEF h
<1>5. h[<<0, 1>>] = e
  <2>1. <<0, 1>> \in D
    OBVIOUS
  <2>2. h[<<0, 1>>] = Sum(h, <<0, 1>>)
    BY <1>3, <2>1
  <2> QED
    BY <2>2
<1> QED
  BY <1>4, <1>5

(* What encode lets through keeps to the limit parse_frame has for the kind. *)
LEMMA EncodedFits ==
    ASSUME NEW p \in Payloads, EncodeOk(p)
    PROVE  RawLen(p) <= RawLimit(p.kind) /\ (p.kind = "END" => RawLen(p) = 48)
<1>1. p.kind \in FrameKinds /\ CountOk(p)
  BY PayloadsAssumption DEF EncodeOk
<1>2. CASE p.kind \in {"META", "OBJECT", "ERROR"}
  BY <1>2 DEF EncodeOk
<1>3. CASE p.kind = "CHUNK"
  <2>1. Len(p.items) = 1 /\ p.items[1].len \in Nat /\ p.items[1].len <= ChunkMaxLen
    BY <1>1, <1>3, PayloadsAssumption DEF CountOk, EncodeOk
  <2>2. PerItem(p.kind) = 0 /\ Overhead(p.kind) = 76 /\ RawLimit(p.kind) = 76 + ChunkMaxLen
    <3>1. PerItem("CHUNK") = 0 /\ Overhead("CHUNK") = 76
      BY SMT DEF PerItem, Overhead, TerminalKinds
    <3>2. RawLimit("CHUNK") = 76 + ChunkMaxLen
      BY SMT DEF RawLimit
    <3> QED
      BY <1>3, <3>1, <3>2, Zenon
  <2>3. RawLen(p) = 76 + (0 + p.items[1].len)
    BY <2>1, <2>2, RawLenOfOne
  <2>4. ChunkMaxLen \in Nat
    BY SMT DEF ChunkMaxLen
  <2> DEFINE l == p.items[1].len
             c == ChunkMaxLen
  <2>5. l \in Nat /\ c \in Nat /\ l <= c
    BY <2>1, <2>4
  <2> HIDE DEF l, c
  <2>6. 76 + (0 + l) <= 76 + c
    BY <2>5
  <2> QED
    BY <1>3, <2>2, <2>3, <2>6, Zenon DEF l, c
<1>4. CASE p.kind = "END"
  <2>1. Len(p.items) = 1 /\ p.items[1].len = 48
    BY <1>4, PayloadsAssumption
  <2>2. PerItem(p.kind) = 0 /\ Overhead(p.kind) = 0 /\ RawLimit(p.kind) = 48
    <3>1. PerItem("END") = 0 /\ Overhead("END") = 0
      BY SMT DEF PerItem, Overhead, TerminalKinds
    <3>2. RawLimit("END") = 48
      BY SMT DEF RawLimit
    <3> QED
      BY <1>4, <3>1, <3>2, Zenon
  <2>3. RawLen(p) = 0 + (0 + 48)
    BY <2>1, <2>2, RawLenOfOne
  <2> QED
    BY <2>2, <2>3
<1> QED
  BY <1>1, <1>2, <1>3, <1>4 DEF FrameKinds, DataKinds, TerminalKinds

(* parse_frame lets through what encode lets through, if the caller did its *)
(* part, and nothing else: the other limits of both sides are the same.     *)
LEMMA EncodedIsJudged ==
    ASSUME NEW p \in Payloads, NEW zstd \in BOOLEAN, NEW s \in Nat, NEW n,
           NEW z \in BOOLEAN, EncodeOk(p), zstd => p.kind \in DataKinds
    PROVE  LET f == Frame(p, zstd, s, n) IN ParseOk(f, z) <=> LeftToCaller(f, z)
<1> DEFINE f == Frame(p, zstd, s, n)
<1>1. /\ f.kind = p.kind /\ f.zstd = zstd /\ f.stream = s /\ f.payload = p
      /\ f.digest = p /\ f.damage = "none" /\ f.rawLen = RawLen(p)
  BY DEF Frame
<1> HIDE DEF f
<1>2. RawLen(p) <= RawLimit(p.kind) /\ (p.kind = "END" => RawLen(p) = 48)
  BY EncodedFits
<1>3. DecodeOk(p) <=> /\ p.kind = "META" => \A item \in Items(p) : item.len <= PageMaxBytes
                      /\ p.kind \in {"META", "OBJECT"} => Distinct(p)
  BY <1>2 DEF EncodeOk, DecodeOk, PageFits
<1>4. ParseOk(f, z) <=> s # 0 /\ (zstd => z) /\ DecodeOk(p)
  BY <1>1, <1>2 DEF ParseOk
<1>5. LeftToCaller(f, z) <=>
        /\ s # 0 /\ (zstd => z)
        /\ p.kind = "META" => \A item \in Items(p) : item.len <= PageMaxBytes
        /\ p.kind \in {"META", "OBJECT"} => Distinct(p)
  BY <1>1 DEF LeftToCaller
<1> QED
  BY <1>3, <1>4, <1>5 DEF f

(* What holds of every frame an encoder may make holds of those written. *)
LEMMA WriteOne ==
    ASSUME IInv, Write
    PROVE  \E s \in Streams, p \in Payloads, zstd \in BOOLEAN :
             /\ <<s, p, zstd>> \in Traffic /\ EncodeOk(p)
             /\ zstd => p.kind \in DataKinds
             /\ Len(sent[s]) \in Nat /\ Len(sent'[s]) = Len(sent[s]) + 1
             /\ sent'[s][Len(sent[s]) + 1] = Frame(p, zstd, s, Len(sent[s]))
             /\ \A k \in 1..Len(sent[s]) : sent'[s][k] = sent[s][k]
             /\ \A t \in Streams \ {s} : sent'[t] = sent[t]
<1>1. PICK s \in Streams, p \in Payloads, zstd \in BOOLEAN :
        /\ <<s, p, zstd>> \in Traffic /\ EncodeOk(p)
        /\ zstd => p.kind \in DataKinds
        /\ sent' = [sent EXCEPT ![s] = Append(@, Frame(p, zstd, s, Len(sent[s])))]
  BY DEF Write
<1> DEFINE f == Frame(p, zstd, s, Len(sent[s]))
<1>2. sent[s] \in Seq(WireFrame) /\ Len(sent[s]) \in Nat
  BY DEF IInv, TypeOK
<1>3. \A t \in Streams \ {s} : sent'[t] = sent[t]
  BY <1>1 DEF IInv, TypeOK
<1> HIDE DEF f
<1>4. sent'[s] = Append(sent[s], f)
  BY <1>1 DEF IInv, TypeOK, f
<1>5. /\ Len(sent'[s]) = Len(sent[s]) + 1 /\ sent'[s][Len(sent[s]) + 1] = f
      /\ \A k \in 1..Len(sent[s]) : sent'[s][k] = sent[s][k]
  BY <1>2, <1>4
<1> QED
  BY <1>1, <1>2, <1>3, <1>5, Zenon DEF f

LEMMA SentStays == [Next]_vars => Write \/ UNCHANGED sent
BY DEF Next, Deliver, Close, ParseStream, RejectTrailing, RejectFrame,
       RejectStream, RejectSequence, Reject, Accept, EndOfBody, vars

LEMMA FairStep ==
    ASSUME IInv, Fair, [Next]_vars
    PROVE  Fair'
<1> SUFFICES ASSUME NEW t \in Streams, NEW k \in 1..Len(sent'[t]),
                    NEW z \in BOOLEAN
             PROVE  ParseOk(sent'[t][k], z) <=> LeftToCaller(sent'[t][k], z)
  BY DEF Fair, ParseOk, LeftToCaller
<1>1. CASE Write
  <2>1. PICK s \in Streams, p \in Payloads, zstd \in BOOLEAN :
          /\ EncodeOk(p) /\ (zstd => p.kind \in DataKinds)
          /\ Len(sent[s]) \in Nat /\ Len(sent'[s]) = Len(sent[s]) + 1
          /\ sent'[s][Len(sent[s]) + 1] = Frame(p, zstd, s, Len(sent[s]))
          /\ \A i \in 1..Len(sent[s]) : sent'[s][i] = sent[s][i]
          /\ \A r \in Streams \ {s} : sent'[r] = sent[r]
    BY <1>1, WriteOne, Zenon
  <2> DEFINE f == Frame(p, zstd, s, Len(sent[s]))
  <2>2. s \in Nat
    BY StreamsAssumption
  <2>3. ParseOk(f, z) <=> LeftToCaller(f, z)
    BY <2>1, <2>2, EncodedIsJudged, Zenon
  <2> HIDE DEF f
  <2>4. CASE t # s
    BY <2>1, <2>4 DEF Fair
  <2>5. CASE t = s /\ k \in 1..Len(sent[s])
    BY <2>1, <2>5 DEF Fair
  <2>6. CASE t = s /\ k = Len(sent[s]) + 1
    BY <2>1, <2>3, <2>6 DEF f
  <2> QED
    BY <2>1, <2>4, <2>5, <2>6
<1>2. CASE UNCHANGED sent
  BY <1>2 DEF Fair
<1> QED
  BY <1>1, <1>2, SentStays

LEMMA ExactStep == IInv /\ Exact /\ [Next]_vars => Exact'
<1> SUFFICES ASSUME IInv, Exact, [Next]_vars PROVE Exact'
  OBVIOUS
<1>1. off \in Nat
  BY DEF IInv, TypeOK
<1>2. CASE Accept
  <2>1. /\ off' = off + 1 /\ body' = body /\ (Terminal(body[off + 1]) => terminated')
        /\ withZstd' = withZstd /\ ParseOk(body[off + 1], withZstd)
    BY <1>2 DEF Accept, Next1
  <2>2. \A k \in 1..off' : ParseOk(body[k], withZstd)
    BY <1>1, <2>1 DEF Exact
  <2> QED
    BY <1>1, <2>1, <2>2 DEF Exact, Terminal, ParseOk
<1>3. CASE Deliver
  <2>1. off = 0 /\ off' = off /\ streamId' = streamId
    BY <1>3 DEF IInv, Judged, Deliver, reader
  <2> QED
    BY <2>1 DEF Exact
<1>4. CASE ~Accept /\ ~Deliver
  <2>1. UNCHANGED <<withZstd, off, streamId, body, terminated>>
    BY <1>4 DEF Next, Write, Close, ParseStream, RejectTrailing, RejectFrame,
        RejectStream, RejectSequence, Reject, EndOfBody, vars, reader
  <2> QED
    BY <2>1 DEF Exact, Terminal, ParseOk
<1> QED
  BY <1>2, <1>3, <1>4

(* No rule of the loop is against a frame of a whole response but those of  *)
(* parse_frame, and the end of the body comes after its terminator.         *)
LEMMA GapStep ==
    ASSUME IInv, Fair, Exact, OnlyTheGapIsRefused, [Next]_vars
    PROVE  OnlyTheGapIsRefused'
<1> SUFFICES ASSUME NEW s \in Streams, outcome' # "pending",
                    Complete(sent[s])', (body = sent[s])'
             PROVE  outcome' = "ok" <=> \A k \in 1..Len(body') : LeftToCaller(body'[k], withZstd')
  BY DEF OnlyTheGapIsRefused, LeftToCaller
<1>1. outcome' = outcome \/ RejectTrailing \/ RejectFrame \/ RejectStream
        \/ RejectSequence \/ EndOfBody
  BY DEF Next, Write, Deliver, Close, ParseStream, Accept, vars, reader
<1>2. CASE outcome' = outcome
  <2>1. closed
    BY <1>2 DEF IInv, Judged
  <2>2. UNCHANGED <<withZstd, sent, body>>
    BY <2>1 DEF Next, Write, Deliver, Close, ParseStream, RejectTrailing,
        RejectFrame, RejectStream, RejectSequence, Reject, Accept, EndOfBody, vars
  <2>3. Complete(sent[s]) /\ body = sent[s]
    BY <2>2 DEF Complete, Terminal
  <2> QED
    BY <1>2, <2>2, <2>3 DEF OnlyTheGapIsRefused
<1>3. CASE outcome' # outcome
  <2>1. UNCHANGED <<withZstd, sent, body>>
    BY <1>1, <1>3 DEF RejectTrailing, RejectFrame, RejectStream, RejectSequence,
        Reject, EndOfBody
  <2>2. Complete(sent[s]) /\ body = sent[s]
    BY <2>1 DEF Complete, Terminal
  <2>3. off \in 0..Len(body) /\ Len(body) \in Nat
    BY DEF IInv, TypeOK
  <2>4. body # << >> /\ body \in Seq(WireFrame) /\ Terminal(body[Len(body)])
    BY <2>2 DEF Complete, IInv, TypeOK
  <2>5. Len(body) > 0
    BY <2>3, <2>4, EmptySeq
  <2>6. withZstd \in BOOLEAN
    BY ReadersAssumption DEF IInv, TypeOK
  <2>7. \A k \in 1..Len(body) :
           /\ ParseOk(body[k], withZstd) <=> LeftToCaller(body[k], withZstd)
           /\ body[k].stream = s /\ body[k].seq = k - 1
           /\ Terminal(body[k]) => k = Len(body)
    <3>1. \A k \in 1..Len(body) :
             /\ body[k].stream = s /\ body[k].seq = k - 1
             /\ Terminal(body[k]) => k = Len(body)
      BY <2>2 DEF IInv, Numbered
    <3>2. \A k \in 1..Len(body) :
             ParseOk(body[k], withZstd) <=> LeftToCaller(body[k], withZstd)
      BY <2>2, <2>6, Zenon DEF Fair
    <3> QED
      BY <3>1, <3>2
  <2>8. off > 0 => streamId = s
    BY <2>3, <2>7 DEF IInv, Consumed
  <2>9. CASE RejectTrailing
    BY <2>3, <2>7, <2>9 DEF RejectTrailing, IInv, Consumed
  <2>10. CASE RejectFrame
    <3>1. /\ off + 1 \in 1..Len(body) /\ ~ParseOk(body[off + 1], withZstd)
          /\ outcome' = "error"
      BY <2>3, <2>10 DEF RejectFrame, Reject, Next1
    <3> QED
      BY <2>1, <2>7, <3>1
  <2>11. CASE RejectStream
    BY <2>3, <2>7, <2>8, <2>11 DEF RejectStream, Next1, SameStream, HeaderSid, Exact
  <2>12. CASE RejectSequence
    BY <2>3, <2>7, <2>12
       DEF RejectSequence, Next1, InSequence, HeaderSeq, IInv, Consumed
  <2>13. CASE EndOfBody
    <3>1. off = Len(body) /\ outcome' = IF terminated THEN "ok" ELSE "error"
      BY <2>13 DEF EndOfBody
    <3>2. terminated /\ \A k \in 1..Len(body) : ParseOk(body[k], withZstd)
      BY <2>3, <2>4, <2>5, <3>1 DEF Exact
    <3> QED
      BY <2>1, <2>7, <3>1, <3>2
  <2> QED
    BY <1>1, <1>3, <2>9, <2>10, <2>11, <2>12, <2>13
<1> QED
  BY <1>2, <1>3

(* The gap between encoders and reader is exactly what is left to the       *)
(* caller, for any payloads and streams and either build of the reader.     *)
THEOREM GapIsExact == Spec => []OnlyTheGapIsRefused
<1>1. Init => IInv
  BY InitIInv
<1>2. IInv /\ [Next]_vars => IInv'
  BY NextIInv
<1>3. Init => Fair /\ Exact /\ OnlyTheGapIsRefused
  BY DEF Init, Fair, Exact, OnlyTheGapIsRefused
<1>4. IInv /\ Fair /\ Exact /\ OnlyTheGapIsRefused /\ [Next]_vars
        => Fair' /\ Exact' /\ OnlyTheGapIsRefused'
  BY FairStep, ExactStep, GapStep
<1> QED
  BY <1>1, <1>2, <1>3, <1>4, PTL DEF Spec

(* What the caller keeps to, the frames written keep to. *)
Kept == \A s \in Streams : \A k \in 1..Len(sent[s]) : \A z \in Readers :
            LeftToCaller(sent[s][k], z)

LEMMA KeptStep ==
    ASSUME IInv, Kept, [Next]_vars,
           \A t \in Traffic, n \in Nat, z \in Readers :
               LeftToCaller(Frame(t[2], t[3], t[1], n), z)
    PROVE  Kept'
<1> SUFFICES ASSUME NEW t \in Streams, NEW k \in 1..Len(sent'[t]),
                    NEW z \in Readers
             PROVE  LeftToCaller(sent'[t][k], z)
  BY DEF Kept, LeftToCaller
<1>1. CASE Write
  <2>1. PICK s \in Streams, p \in Payloads, zstd \in BOOLEAN :
          /\ <<s, p, zstd>> \in Traffic
          /\ Len(sent[s]) \in Nat /\ Len(sent'[s]) = Len(sent[s]) + 1
          /\ sent'[s][Len(sent[s]) + 1] = Frame(p, zstd, s, Len(sent[s]))
          /\ \A i \in 1..Len(sent[s]) : sent'[s][i] = sent[s][i]
          /\ \A r \in Streams \ {s} : sent'[r] = sent[r]
    BY <1>1, WriteOne, Zenon
  <2> DEFINE f == Frame(p, zstd, s, Len(sent[s]))
  <2>2. LeftToCaller(f, z)
    <3> HIDE DEF f
    <3> DEFINE u == <<s, p, zstd>>
    <3>1. u[1] = s /\ u[2] = p /\ u[3] = zstd /\ u \in Traffic
      BY <2>1
    <3> HIDE DEF u
    <3>2. LeftToCaller(Frame(u[2], u[3], u[1], Len(sent[s])), z)
      BY <2>1, <3>1
    <3> QED
      BY <3>1, <3>2 DEF f
  <2> HIDE DEF f
  <2>4. CASE t # s
    BY <2>1, <2>4 DEF Kept
  <2>5. CASE t = s /\ k \in 1..Len(sent[s])
    BY <2>1, <2>5 DEF Kept
  <2>6. CASE t = s /\ k = Len(sent[s]) + 1
    BY <2>1, <2>2, <2>6 DEF f
  <2> QED
    BY <2>1, <2>4, <2>5, <2>6
<1>2. CASE UNCHANGED sent
  BY <1>2 DEF Kept
<1> QED
  BY <1>1, <1>2, SentStays

(* README.md:20-21, "what the server wrote" and "what the client accepts"   *)
(* are the same code: a whole response is accepted, if the server numbers   *)
(* its streams from 1, compresses only for a reader that can decompress,    *)
(* and never frames a page or an object twice or a page beyond the limit.   *)
THEOREM WholeResponsesPass ==
    ASSUME \A t \in Traffic, n \in Nat, z \in Readers :
               LeftToCaller(Frame(t[2], t[3], t[1], n), z)
    PROVE  Spec => []WholeIsAccepted
<1>1. Init => IInv /\ Kept
  BY InitIInv DEF Init, Kept
<1>2. IInv /\ Kept /\ [Next]_vars => IInv' /\ Kept'
  BY NextIInv, KeptStep
<1>3. IInv /\ Kept /\ OnlyTheGapIsRefused => WholeIsAccepted
  BY DEF IInv, TypeOK, Kept, OnlyTheGapIsRefused, WholeIsAccepted
<1> QED
  BY <1>1, <1>2, <1>3, GapIsExact, PTL DEF Spec
=============================================================================
