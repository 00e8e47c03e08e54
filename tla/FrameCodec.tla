----------------------------- MODULE FrameCodec -----------------------------
(***************************************************************************)
(* What frame_codec.rs does with the values of the `frames` table: a value *)
(* is one frame's CON text, or a group that holds the texts of several     *)
(* consecutive frames of a trajectory, or a redirect to a slot of a group. *)
(* Compression itself is left out; what is kept is which key a frame's     *)
(* bytes live under, since that is what later writers can get wrong.       *)
(*                                                                         *)
(* A CON text, and the frame parsed from it, is abstracted to the molecule *)
(* it describes, the unit system its numbers are written in, and whether   *)
(* they carry digits that the default decimal writer would drop.           *)
(***************************************************************************)
EXTENDS Integers, Sequences

CONSTANTS Trajs,             \* trajectory ids (u64 in the code)
          MaxFrames,         \* bound on the frames of one trajectory
          Mols,              \* what a frame describes
          UnitSystems,       \* unit systems a frame can be written in
          GroupLen,          \* GROUP_LEN: frames per aligned run
          GroupIsShorter(_), \* does zstd make this run's group shorter?
          Nil                \* an absent row, or a value that does not decode

ASSUME CodecAssumption ==
    /\ Trajs \subseteq Nat
    /\ MaxFrames \in Nat
    /\ GroupLen \in Nat \ {0}

Texts == [mol : Mols, units : UnitSystems, fine : BOOLEAN]

FrameIdx == 0 .. MaxFrames - 1

Keys == Trajs \X FrameIdx

\* A frame's CON text on its own; legacy UTF-8 and tagged zstd read alike.
Single(text) == [kind |-> "single", texts |-> <<text>>]

\* The texts of a run, stored under the key of the run's first frame.
Group(texts) == [kind |-> "group", texts |-> texts]

\* Slot `slot` of the group stored under frame index `head`.
Redirect(head, slot) == [kind |-> "redirect", head |-> head, slot |-> slot]

Values ==
    [kind : {"single", "group"}, texts : Seq(Texts)]
        \cup [kind : {"redirect"}, head : FrameIdx, slot : Nat \ {0}]

\* What is absent is told from everything that can be there.
ASSUME NilAssumption ==
    /\ Nil \notin Texts
    /\ Nil \notin Seq(Texts)
    /\ Nil \notin Values
    /\ Nil \notin Keys
    /\ Nil \notin Nat

(***************************************************************************)
(* pack_aligned cuts the frames lo..hi at multiples of GROUP_LEN and       *)
(* stores each run as a group when that is shorter. The frames it is given *)
(* are consecutive, so a run is named by its first and last index.         *)
(***************************************************************************)
Run(lo, hi, i) == {j \in lo .. hi : j \div GroupLen = i \div GroupLen}

RunHead(lo, hi, i) ==
    CHOOSE h \in Run(lo, hi, i) : \A j \in Run(lo, hi, i) : h <= j

RunLast(lo, hi, i) ==
    CHOOSE l \in Run(lo, hi, i) : \A j \in Run(lo, hi, i) : j <= l

\* texts[1] is the text of frame lo.
RunTexts(lo, hi, i, texts) ==
    LET head == RunHead(lo, hi, i)
    IN  [s \in 1 .. RunLast(lo, hi, i) - head + 1 |-> texts[head - lo + s]]

\* Mutant: the slot is taken from the absolute index, as if every run began
\* at a multiple of GROUP_LEN.
PackAlignedAbsoluteSlot(lo, texts) ==
    LET hi == lo + Len(texts) - 1
    IN  [i \in lo .. hi |->
            LET head == RunHead(lo, hi, i)
                run  == RunTexts(lo, hi, i, texts)
            IN  IF Len(run) > 1 /\ GroupIsShorter(run)
                THEN IF i = head THEN Group(run) ELSE Redirect(head, i % GroupLen)
                ELSE Single(texts[i - lo + 1])]

PackAligned(lo, texts) ==
    LET hi == lo + Len(texts) - 1
    IN  [i \in lo .. hi |->
            LET head == RunHead(lo, hi, i)
                run  == RunTexts(lo, hi, i, texts)
            IN  IF Len(run) > 1 /\ GroupIsShorter(run)
                THEN IF i = head THEN Group(run) ELSE Redirect(head, i - head)
                ELSE Single(texts[i - lo + 1])]

\* The values an ingest prepares: grouped only when the handle compresses.
StoredValues(lo, texts, compress) ==
    IF compress THEN PackAligned(lo, texts)
                ELSE [i \in lo .. lo + Len(texts) - 1 |-> Single(texts[i - lo + 1])]

\* A group or a single value opens to the texts it holds; slot 0 is the first.
SlotText(value, slot) ==
    IF value = Nil \/ value.kind = "redirect" \/ slot >= Len(value.texts)
    THEN Nil
    ELSE value.texts[slot + 1]

\* decode_frame: Nil stands for MissingFrame and for "corrupt frame value".
Decode(frames, key) ==
    LET value == frames[key]
    IN  IF value # Nil /\ value.kind = "redirect"
        THEN SlotText(frames[<<key[1], value.head>>], value.slot)
        ELSE SlotText(value, 0)
=============================================================================
