------------------------------ MODULE ZstdFrame -----------------------------
(***************************************************************************)
(* decompress_strict of src/src/zstd1.rs: the look at the frame header     *)
(* before the decoder sees it, and the loop that drives the decoder.       *)
(*                                                                         *)
(* The decoder, ZSTD_decompressStream, is outside this repository.  It is  *)
(* taken as what it promises.  A call takes in parts of the input, a part  *)
(* being a block or the checksum; a part is taken in when what the earlier *)
(* ones made has gone out.  A call goes on until the frame is over, the    *)
(* input is used up or what is held does not fit the output.  It may       *)
(* return earlier, having got further, as long as there is room in the     *)
(* output.  It fails at a damaged part, and at a frame that is not as long *)
(* as its header says.                                                     *)
(***************************************************************************)
EXTENDS Integers, Sequences

CONSTANTS Wires,      \* what may stand in a frame's payload
          RawLens,    \* what the MST/2 header may say its length is
          MaxRaw,     \* MAX_RAW_PAYLOAD, 1 MiB + 76 in the code
          MaxWindow,  \* 2^MAX_WINDOW_LOG, 8 MiB in the code
          Bias        \* what a two-byte size leaves out, 256 in the code

(* "upto" is what the frame has made once the part is taken in. *)
Part == [upto : Nat, last : BOOLEAN, bad : BOOLEAN]

(* A content size as it is stored, or << >>: its width in bytes and number. *)
SizeField == {<< >>} \cup [width : {1, 2, 4, 8}, stored : Nat]

Header == [cut : BOOLEAN,          \* the payload ends inside the header
           reserved : BOOLEAN, single : BOOLEAN, window : Nat,
           dictionary : Nat, size : SizeField]

Wire == [magic : BOOLEAN, header : Header, parts : Seq(Part)]

ASSUME WiresAssumption  == Wires \subseteq Wire /\ RawLens \subseteq Nat
ASSUME LimitsAssumption ==
    {MaxRaw, MaxWindow, Bias} \subseteq Nat /\ MaxRaw <= MaxWindow

(* A single segment always stores its size, and parts only add bytes. *)
ASSUME FormatAssumption ==
    \A w \in Wires :
        /\ w.header.single => w.header.size # << >>
        /\ \A j, k \in 1..Len(w.parts) :
               j <= k => w.parts[j].upto <= w.parts[k].upto

VARIABLES wire, raw_len,
          input,     \* parts taken in, of wire.parts
          output,    \* bytes put out
          pc,        \* "start", "loop", "done"
          outcome    \* "pending", "ok" or "refused"

vars == <<wire, raw_len, input, output, pc, outcome>>

Parts == wire.parts
Made(n) == IF n = 0 THEN 0 ELSE Parts[n].upto
Least(m, n) == IF m < n THEN m ELSE n

-----------------------------------------------------------------------------
(* validate_frame_header. *)
ContentSizeStored(size) == size.stored       \* mutant of ContentSize
ContentSize(size) == size.stored + IF size.width = 2 THEN Bias ELSE 0

DeclaredOk(size, len) == size # << >> => ContentSize(size) = len

HeaderOk(header, len) ==
    /\ ~header.cut /\ ~header.reserved
    /\ ~header.single => header.window <= MaxWindow
    /\ header.dictionary = 0
    /\ header.single => ContentSize(header.size) <= MaxWindow
    /\ DeclaredOk(header.size, len)

Init ==
    /\ wire \in Wires /\ raw_len \in RawLens
    /\ input = 0 /\ output = 0 /\ pc = "start" /\ outcome = "pending"

Verdict(verdict) == outcome' = verdict /\ UNCHANGED pc    \* mutant of Return
Return(verdict) == pc' = "done" /\ outcome' = verdict

Start ==
    /\ pc = "start"
    /\ IF raw_len <= MaxRaw /\ wire.magic /\ HeaderOk(wire.header, raw_len)
       THEN pc' = "loop" /\ UNCHANGED outcome ELSE Return("refused")
    /\ UNCHANGED <<wire, raw_len, input, output>>

-----------------------------------------------------------------------------
(* The decoder's contract.  Where a call may stand after taking in n parts: *)
(* everything before part n is out, and of part n what there is room for.   *)
Ended(n) == n > 0 /\ Parts[n].last
Out(n)   == Least(Made(n), raw_len)

Reach(n) ==
    /\ n >= input
    /\ \A k \in input + 1..n : ~Parts[k].bad /\ ~Ended(k - 1) /\ Made(k - 1) <= raw_len

SizeSays(size, n) ==          \* what the format means by a size field
    size # << >> => IF size.width = 2 THEN n >= Bias /\ size.stored = n - Bias
                    ELSE size.stored = n

LengthBelied(n) == Ended(n) /\ ~SizeSays(wire.header.size, Made(n))

Stuck(n) == n = Len(Parts) \/ Ended(n) \/ Made(n) > raw_len
Early(n) == Out(n) < raw_len /\ (n # input \/ Out(n) # output)

Fault(n) == /\ n < Len(Parts) /\ Reach(n) /\ ~Ended(n) /\ Made(n) <= raw_len
            /\ Parts[n + 1].bad

(* The frame is over and everything is out: the hint is 0. *)
HintZero(n) == Ended(n) /\ Made(n) <= raw_len

-----------------------------------------------------------------------------
CallFails ==        \* decompress_stream returns an error
    /\ pc = "loop"
    /\ \E n \in 0..Len(Parts) : Fault(n) \/ (Reach(n) /\ LengthBelied(n))
    /\ Return("refused")
    /\ UNCHANGED <<wire, raw_len, input, output>>

(* The checks of a turn and those behind the loop, in the order of the code. *)
AnyTrailing(n) == n <= Len(Parts)          \* mutant of TrailingOk
TrailingOk(n)  == n = Len(Parts)
AtMost(out)    == out <= raw_len           \* mutant of LengthOk
LengthOk(out)  == out = raw_len
Nothing(n, out)    == n = 0 /\ out = 0     \* mutant of NoProgress
NoProgress(n, out) == n = input /\ out = output
FullFirst(n)   == HintZero(n) /\ Out(n) # raw_len   \* mutant of Broke
Broke(n)       == HintZero(n)

Judge(n) ==
    IF Broke(n)
    THEN Return(IF LengthOk(Out(n)) /\ TrailingOk(n) THEN "ok" ELSE "refused")
    ELSE IF NoProgress(n, Out(n)) \/ Out(n) = raw_len THEN Return("refused")
    ELSE UNCHANGED <<pc, outcome>>

Turn ==
    /\ pc = "loop"
    /\ \E n \in input..Len(Parts) :
         /\ Reach(n) /\ ~LengthBelied(n) /\ (Early(n) \/ Stuck(n))
         /\ input' = n /\ output' = Out(n)
         /\ Judge(n)
    /\ UNCHANGED <<wire, raw_len>>

Next == Start \/ CallFails \/ Turn

Spec     == Init /\ [][Next]_vars
FairSpec == Spec /\ WF_vars(Next)

-----------------------------------------------------------------------------
TypeOK ==
    /\ wire \in Wire /\ raw_len \in Nat
    /\ input \in 0..Len(Parts) /\ output \in Nat
    /\ pc \in {"start", "loop", "done"}
    /\ outcome \in {"pending", "ok", "refused"}
    /\ pc # "done" => outcome = "pending"

(* The payload is one frame as the standard has it, nothing before and      *)
(* nothing behind it, with n bytes in it.                                   *)
OneFrame(w, n) ==
    /\ w.magic /\ ~w.header.cut /\ ~w.header.reserved /\ w.header.dictionary = 0
    /\ Len(w.parts) > 0 /\ w.parts[Len(w.parts)].last
    /\ \A k \in 1..Len(w.parts) - 1 : ~w.parts[k].last
    /\ \A k \in 1..Len(w.parts) : ~w.parts[k].bad
    /\ w.parts[Len(w.parts)].upto = n

InWindow(header) == ~header.single => header.window <= MaxWindow

(* Exactly one frame, its exact length, nothing behind it (the head of      *)
(* zstd1.rs): what is accepted is that, however the calls cut it up.        *)
AcceptedIsOneFrame ==
    outcome = "ok" =>
        /\ OneFrame(wire, raw_len) /\ raw_len <= MaxRaw /\ InWindow(wire.header)
        /\ input = Len(Parts) /\ output = raw_len

(* And the other way round: a single frame within the limits is never       *)
(* refused, with or without a content size, a checksum or an empty block    *)
(* at its end.                                                              *)
FrameIsAccepted ==
    (/\ OneFrame(wire, raw_len) /\ raw_len <= MaxRaw /\ InWindow(wire.header)
     /\ SizeSays(wire.header.size, raw_len))
    => outcome # "refused"

(* The loop ends, whatever the payload. *)
Terminates == <>(outcome # "pending")
=============================================================================
