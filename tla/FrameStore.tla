----------------------------- MODULE FrameStore -----------------------------
(***************************************************************************)
(* What a corpus promises about content, with no tables, no codec and no   *)
(* transactions: a trajectory is unclaimed or it is a sequence of texts.   *)
(* It is claimed once, with everything in it; it grows only at its end;    *)
(* and a frame's text changes only by a unit conversion, which starts at   *)
(* frame 0 and covers the frames that were there when it began.            *)
(***************************************************************************)
EXTENDS FrameCodec

VARIABLE content   \* trajectory -> Nil or its texts, in frame order

Converted(text, units) == [text EXCEPT !.units = units]

Init == content = [t \in Trajs |-> Nil]

Claim(t, texts) ==
    /\ content[t] = Nil
    /\ content' = [content EXCEPT ![t] = texts]

Extend(t, texts) ==
    /\ content[t] # Nil
    /\ content' = [content EXCEPT ![t] = @ \o texts]

ConvertUnits(t, n, units) ==
    /\ content[t] # Nil
    /\ n <= Len(content[t])
    /\ content' = [content EXCEPT ![t] =
                       [i \in DOMAIN @ |-> IF i <= n THEN Converted(@[i], units) ELSE @[i]]]

\* The texts a step may add are those of the new state, so that the bound on
\* trajectories is the only one.
Next ==
    \E t \in Trajs :
        \/ content'[t] # Nil /\ Claim(t, content'[t])
        \/ content'[t] # Nil /\ content[t] # Nil
             /\ Extend(t, SubSeq(content'[t], Len(content[t]) + 1, Len(content'[t])))
        \/ \E n \in 1 .. MaxFrames, units \in UnitSystems : ConvertUnits(t, n, units)

Spec == Init /\ [][Next]_content
=============================================================================
