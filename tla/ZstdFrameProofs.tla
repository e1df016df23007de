--------------------------- MODULE ZstdFrameProofs ---------------------------
(***************************************************************************)
(* For any payload, any length in the header and any limits, and however   *)
(* the decoder cuts its work into calls: decompress_strict returns only    *)
(* what is one whole frame of exactly that length.                         *)
(***************************************************************************)
EXTENDS ZstdFrame, TLAPS

(* The parts taken in are sound, and none before the last one ends a frame. *)
Sound(n) == /\ \A k \in 1..n : ~Parts[k].bad
            /\ \A k \in 1..n - 1 : ~Parts[k].last

(* Before the loop nothing is taken in; while it runs, the checks before it *)
(* have passed.                                                             *)
Fresh    == pc = "start" => input = 0
Underway ==
    pc = "loop" => /\ wire.magic /\ raw_len <= MaxRaw
                   /\ HeaderOk(wire.header, raw_len)
                   /\ Sound(input)

IInv == TypeOK /\ Fresh /\ Underway /\ AcceptedIsOneFrame

(* What a number of parts has made is a number. *)
LEMMA MadeIsNat ==
    ASSUME TypeOK, NEW n \in 0..Len(Parts)
    PROVE  Made(n) \in Nat
<1>1. CASE n = 0
  BY <1>1 DEF Made
<1>2. CASE n # 0
  <2>1. Parts \in Seq(Part)
    BY DEF TypeOK, Parts, Wire
  <2>2. Parts[n] \in Part
    BY <1>2, <2>1
  <2> QED
    BY <1>2, <2>2 DEF Made, Part
<1> QED
  BY <1>1, <1>2

(* A call that goes from a sound place stands at a sound place. *)
LEMMA ReachIsSound ==
    ASSUME TypeOK, Sound(input), NEW n \in input..Len(Parts), Reach(n)
    PROVE  Sound(n)
<1>1. input \in 0..Len(Parts) /\ Len(Parts) \in Nat
  <2>1. Parts \in Seq(Part)
    BY DEF TypeOK, Parts, Wire
  <2> QED
    BY <2>1 DEF TypeOK
<1>2. ASSUME NEW k \in 1..n PROVE ~Parts[k].bad
  <2>1. CASE k <= input
    BY <1>1, <2>1 DEF Sound
  <2>2. CASE k > input
    <3>1. k \in input + 1..n
      BY <1>1, <2>2
    <3> QED
      BY <3>1 DEF Reach
  <2> QED
    BY <1>1, <2>1, <2>2
<1>3. ASSUME NEW k \in 1..n - 1 PROVE ~Parts[k].last
  <2>1. CASE k <= input - 1
    BY <1>1, <2>1 DEF Sound
  <2>2. CASE k >= input
    <3>1. k + 1 \in input + 1..n
      BY <1>1, <2>2
    <3>2. ~Ended((k + 1) - 1)
      BY <3>1 DEF Reach
    <3> QED
      BY <1>1, <3>2 DEF Ended
  <2> QED
    BY <1>1, <2>1, <2>2
<1> QED
  BY <1>2, <1>3 DEF Sound

(* What is accepted at the end of a turn. *)
LEMMA AcceptedHere ==
    ASSUME IInv, pc = "loop", NEW n \in input..Len(Parts), Reach(n),
           HintZero(n), LengthOk(Out(n)), TrailingOk(n)
    PROVE  OneFrame(wire, raw_len) /\ InWindow(wire.header) /\ raw_len <= MaxRaw
<1>1. Parts \in Seq(Part) /\ raw_len \in Nat /\ input \in 0..Len(Parts)
  BY DEF IInv, TypeOK, Parts, Wire
<1>2. Sound(n)
  BY ReachIsSound DEF IInv, Underway
<1>3. n > 0 /\ n = Len(Parts) /\ Parts[n].last
  BY DEF HintZero, Ended, TrailingOk
<1>4. Parts[n].upto = raw_len
  <2>1. Made(n) \in Nat
    BY <1>1, MadeIsNat DEF IInv
  <2>2. Made(n) = Parts[n].upto
    BY <1>3 DEF Made
  <2> QED
    BY <1>1, <2>1, <2>2 DEF HintZero, LengthOk, Out, Least
<1>5. wire.magic /\ HeaderOk(wire.header, raw_len) /\ raw_len <= MaxRaw
  BY DEF IInv, Underway
<1>6. OneFrame(wire, raw_len)
  BY <1>1, <1>2, <1>3, <1>4, <1>5 DEF OneFrame, Sound, HeaderOk, Parts
<1> QED
  BY <1>5, <1>6 DEF HeaderOk, InWindow

(* The start of the function. *)
LEMMA InitHolds == Init => IInv
<1> SUFFICES ASSUME Init PROVE IInv
  OBVIOUS
<1>1. Parts \in Seq(Part)
  BY WiresAssumption DEF Init, Parts, Wire
<1>2. TypeOK
  BY <1>1, WiresAssumption DEF Init, TypeOK
<1> QED
  BY <1>2 DEF Init, IInv, Fresh, Underway, AcceptedIsOneFrame

(* The checks before the loop. *)
LEMMA StartKeeps == ASSUME IInv, Start PROVE IInv'
<1>1. TypeOK'
  BY DEF IInv, TypeOK, Start, Return, Parts
<1>2. /\ wire' = wire /\ raw_len' = raw_len /\ input' = 0 /\ pc = "start"
      /\ outcome' # "ok"
  BY DEF IInv, TypeOK, Fresh, Start, Return
<1>3. Fresh'
  BY <1>2 DEF Fresh
<1>4. Underway'
  <2> SUFFICES ASSUME pc' = "loop"
               PROVE  wire.magic /\ raw_len <= MaxRaw /\ HeaderOk(wire.header, raw_len)
    BY <1>2 DEF Underway, Sound, Parts, HeaderOk, ContentSize, DeclaredOk
  <2> QED
    BY DEF Start, Return
<1>5. AcceptedIsOneFrame'
  BY <1>2 DEF AcceptedIsOneFrame
<1> QED
  BY <1>1, <1>3, <1>4, <1>5 DEF IInv

(* A call that fails ends the function with a refusal. *)
LEMMA CallFailsKeeps == ASSUME IInv, CallFails PROVE IInv'
<1>1. TypeOK'
  BY DEF IInv, TypeOK, CallFails, Return, Parts
<1>2. pc' = "done" /\ outcome' = "refused"
  BY DEF CallFails, Return
<1> QED
  BY <1>1, <1>2 DEF IInv, Fresh, Underway, AcceptedIsOneFrame

(* A turn: either the loop goes on from a sound place, or what it accepts   *)
(* is one frame.                                                            *)
LEMMA TurnKeeps == ASSUME IInv, Turn PROVE IInv'
<1>1. PICK n \in input..Len(Parts) :
           /\ Reach(n) /\ input' = n /\ output' = Out(n) /\ Judge(n)
  BY DEF Turn
<1>2. /\ wire' = wire /\ raw_len' = raw_len /\ pc = "loop"
      /\ outcome = "pending" /\ Parts' = Parts
  BY DEF Turn, IInv, TypeOK, Parts
<1>3. n \in 0..Len(Parts) /\ Out(n) \in Nat
  <2>1. Parts \in Seq(Part) /\ input \in 0..Len(Parts) /\ raw_len \in Nat
    BY DEF IInv, TypeOK, Parts, Wire
  <2>2. n \in 0..Len(Parts)
    BY <2>1
  <2>3. Made(n) \in Nat
    BY <2>2, MadeIsNat DEF IInv
  <2> QED
    BY <2>1, <2>2, <2>3 DEF Out, Least
<1>4. /\ pc' \in {"loop", "done"} /\ outcome' \in {"pending", "ok", "refused"}
      /\ pc' # "done" => outcome' = "pending"
  BY <1>1, <1>2 DEF Judge, Return
<1>5. TypeOK'
  BY <1>1, <1>2, <1>3, <1>4 DEF IInv, TypeOK
<1>6. Fresh'
  BY <1>4 DEF Fresh
<1>7. Underway'
  <2>1. Sound(n)
    BY <1>2, ReachIsSound, <1>1 DEF IInv, Underway
  <2>2. Sound(n)'
    BY <2>1, <1>2 DEF Sound
  <2>3. Sound(input)'
    BY <1>1, <1>2, <2>1 DEF Sound
  <2> QED
    BY <1>2, <2>3 DEF IInv, Underway, HeaderOk, DeclaredOk, ContentSize
<1>8. AcceptedIsOneFrame'
  <2> SUFFICES ASSUME outcome' = "ok"
               PROVE  /\ OneFrame(wire, raw_len) /\ raw_len <= MaxRaw
                      /\ InWindow(wire.header)
                      /\ input' = Len(Parts) /\ output' = raw_len
    BY <1>2 DEF AcceptedIsOneFrame, OneFrame, InWindow
  <2>1. HintZero(n) /\ LengthOk(Out(n)) /\ TrailingOk(n)
    BY <1>1, <1>2 DEF Judge, Return, Broke
  <2> QED
    BY <1>1, <1>2, <2>1, AcceptedHere DEF LengthOk, TrailingOk
<1> QED
  BY <1>5, <1>6, <1>7, <1>8 DEF IInv

(* The invariant holds in every reachable state. *)
LEMMA Inductive == Spec => []IInv
<1>1. IInv /\ [Next]_vars => IInv'
  <2> SUFFICES ASSUME IInv, [Next]_vars PROVE IInv'
    OBVIOUS
  <2>1. CASE Start
    BY <2>1, StartKeeps
  <2>2. CASE CallFails
    BY <2>2, CallFailsKeeps
  <2>3. CASE Turn
    BY <2>3, TurnKeeps
  <2>4. CASE UNCHANGED vars
    BY <2>4 DEF vars, IInv, TypeOK, Fresh, Underway, Sound, HeaderOk, DeclaredOk,
                ContentSize, Parts, AcceptedIsOneFrame, OneFrame, InWindow
  <2> QED
    BY <2>1, <2>2, <2>3, <2>4 DEF Next
<1> QED
  BY <1>1, InitHolds, PTL DEF Spec

(* Every variable keeps its type, for any payload and any decoder that keeps *)
(* the contract.                                                             *)
THEOREM ZstdTypes == Spec => []TypeOK
<1>1. IInv => TypeOK
  BY DEF IInv
<1> QED
  BY <1>1, Inductive, PTL

(* Nothing but one whole frame of the length in the header is returned by   *)
(* decompress_strict: no second frame, no trailing bytes, no short read.     *)
THEOREM OnlyOneFrame == Spec => []AcceptedIsOneFrame
<1>1. IInv => AcceptedIsOneFrame
  BY DEF IInv
<1> QED
  BY <1>1, Inductive, PTL
-----------------------------------------------------------------------------
(* The other direction.  The payload is one that arrived; what follows      *)
(* supposes that it is one frame within the limits.                         *)
Arrived == wire \in Wires

Proper == /\ OneFrame(wire, raw_len) /\ raw_len <= MaxRaw /\ InWindow(wire.header)
          /\ SizeSays(wire.header.size, raw_len)

(* The parts of a proper payload: the last one ends the frame, and up to it *)
(* no more than the whole has been made.                                    *)
LEMMA ProperParts ==
    ASSUME IInv, Arrived, Proper, NEW n \in 0..Len(Parts)
    PROVE  /\ Len(Parts) \in Nat /\ raw_len \in Nat
           /\ Made(n) \in Nat /\ Made(n) <= raw_len
           /\ Ended(n) <=> n = Len(Parts)
           /\ Ended(n) => Made(n) = raw_len
           /\ \A k \in 1..Len(Parts) : ~Parts[k].bad
<1>1. Len(Parts) \in Nat /\ raw_len \in Nat /\ Made(n) \in Nat
  BY MadeIsNat DEF IInv, TypeOK, Parts, Wire
<1>2. /\ Len(Parts) > 0 /\ Parts[Len(Parts)].last
      /\ Parts[Len(Parts)].upto = raw_len
      /\ \A k \in 1..Len(Parts) - 1 : ~Parts[k].last
      /\ \A k \in 1..Len(Parts) : ~Parts[k].bad
  BY DEF Proper, OneFrame, Parts
<1>3. Ended(n) <=> n = Len(Parts)
  BY <1>1, <1>2 DEF Ended
<1>4. Made(n) <= raw_len
  <2>1. CASE n = 0
    BY <1>1, <2>1 DEF Made
  <2>2. CASE n # 0
    <3>1. Parts[n].upto <= Parts[Len(Parts)].upto
      BY <1>1, <1>2, <2>2, FormatAssumption DEF Arrived, Parts
    <3> QED
      BY <1>2, <2>2, <3>1 DEF Made
  <2> QED
    BY <2>1, <2>2
<1>5. Ended(n) => Made(n) = raw_len
  BY <1>1, <1>2, <1>3 DEF Made
<1> QED
  BY <1>1, <1>2, <1>3, <1>4, <1>5

(* The checks before the loop let it through. *)
LEMMA StartTakesIt == ASSUME IInv, Arrived, Proper, Start PROVE outcome' # "refused"
<1> DEFINE h == wire.header
<1>1. /\ wire.magic /\ raw_len <= MaxRaw /\ ~h.cut /\ ~h.reserved
      /\ h.dictionary = 0 /\ (~h.single => h.window <= MaxWindow)
  BY DEF Proper, OneFrame, InWindow
<1>2. h.size # << >> => ContentSize(h.size) = raw_len
  <2> SUFFICES ASSUME h.size # << >> PROVE ContentSize(h.size) = raw_len
    OBVIOUS
  <2>1. h.size \in [width : {1, 2, 4, 8}, stored : Nat] /\ raw_len \in Nat
    BY DEF IInv, TypeOK, Wire, Header, SizeField
  <2> QED
    BY <2>1, LimitsAssumption DEF Proper, SizeSays, ContentSize
<1>3. h.single => ContentSize(h.size) <= MaxWindow
  <2>1. h.single => h.size # << >>
    BY FormatAssumption DEF Arrived
  <2>2. raw_len \in Nat
    BY DEF IInv, TypeOK
  <2> QED
    BY <1>1, <1>2, <2>1, <2>2, LimitsAssumption
<1>4. HeaderOk(wire.header, raw_len)
  BY <1>1, <1>2, <1>3 DEF HeaderOk, DeclaredOk
<1>5. UNCHANGED outcome
  BY <1>1, <1>4 DEF Start
<1> QED
  BY <1>5 DEF Start, IInv, TypeOK

(* No call fails on it. *)
LEMMA CallTakesIt == ASSUME IInv, Arrived, Proper, CallFails PROVE FALSE
<1>1. PICK n \in 0..Len(Parts) : Fault(n) \/ (Reach(n) /\ LengthBelied(n))
  BY DEF CallFails
<1>2. ~Fault(n)
  BY ProperParts DEF Fault
<1>3. ~LengthBelied(n)
  BY ProperParts DEF LengthBelied, Proper
<1> QED
  BY <1>1, <1>2, <1>3

(* A turn that does not end the frame got further and has room left: the    *)
(* decoder stops for want of room only at a frame that is too long.         *)
LEMMA TurnTakesIt == ASSUME IInv, Arrived, Proper, Turn PROVE outcome' # "refused"
<1>1. PICK n \in input..Len(Parts) :
        /\ Reach(n) /\ ~LengthBelied(n) /\ (Early(n) \/ Stuck(n))
        /\ input' = n /\ output' = Out(n) /\ Judge(n)
  BY DEF Turn
<1>2. n \in 0..Len(Parts)
  BY DEF IInv, TypeOK
<1>3. /\ Made(n) \in Nat /\ Made(n) <= raw_len /\ raw_len \in Nat
      /\ Ended(n) <=> n = Len(Parts)
      /\ Ended(n) => Made(n) = raw_len
  BY <1>2, ProperParts
<1>4. CASE Ended(n)
  <2>1. HintZero(n) /\ LengthOk(Out(n)) /\ TrailingOk(n)
    BY <1>3, <1>4 DEF HintZero, LengthOk, Out, Least, TrailingOk
  <2> QED
    BY <1>1, <2>1 DEF Judge, Broke, Return
<1>5. CASE ~Ended(n)
  <2>1. Early(n) /\ ~HintZero(n)
    BY <1>1, <1>3, <1>5 DEF Stuck, HintZero
  <2>2. UNCHANGED outcome
    BY <1>1, <1>3, <2>1 DEF Early, Judge, Broke, NoProgress
  <2> QED
    BY <2>2 DEF Turn, IInv, TypeOK
<1> QED
  BY <1>4, <1>5

(* A single frame within the limits is never refused, however the decoder   *)
(* cuts it into calls: a checksum or an empty block that follows the last   *)
(* byte is no missing progress, and an output that is full no error.        *)
THEOREM OneFrameIsAccepted == Spec => []FrameIsAccepted
<1>1. Init => Arrived /\ FrameIsAccepted
  BY DEF Init, Arrived, FrameIsAccepted
<1>2. IInv /\ Arrived /\ FrameIsAccepted /\ [Next]_vars
        => Arrived' /\ FrameIsAccepted'
  <2> SUFFICES ASSUME IInv, Arrived, FrameIsAccepted, [Next]_vars
               PROVE  Arrived' /\ FrameIsAccepted'
    OBVIOUS
  <2>1. UNCHANGED <<wire, raw_len>>
    BY DEF Next, Start, CallFails, Turn, vars
  <2>2. Proper' <=> Proper
    BY <2>1 DEF Proper, OneFrame, InWindow
  <2>3. Proper => outcome' # "refused"
    BY StartTakesIt, CallTakesIt, TurnTakesIt DEF Next, vars, FrameIsAccepted, Proper
  <2> QED
    BY <2>1, <2>2, <2>3 DEF Arrived, FrameIsAccepted, Proper
<1> QED
  BY <1>1, <1>2, Inductive, PTL DEF Spec
=============================================================================
