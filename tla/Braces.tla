------------------------------- MODULE Braces -------------------------------
(***************************************************************************)
(* PromptsService.lastBalanced: what is taken for the answer in the text   *)
(* K2 wrote, which may hold its reasoning too.  It walks back from the     *)
(* last closing brace to where the braces first even out.                  *)
(***************************************************************************)
EXTENDS FiniteSetsExt, Integers, Sequences

CONSTANT NoText  \* null

VARIABLE text    \* what K2 wrote: a sequence of characters

\* Mutant of LastBalanced: to the first opening brace of the text.
LastBraces(raw) ==
    LET ends == {i \in DOMAIN raw : raw[i] = "}"}
        opens == {i \in DOMAIN raw : raw[i] = "{"}
    IN  IF ~\E i \in opens, k \in ends : i < k THEN NoText
        ELSE SubSeq(raw, Min(opens), Max(ends))

\* Where a brace stands between two places, and how many there are.
Places(raw, brace, i, k) == {n \in i .. k : raw[n] = brace}

Count(raw, brace, i, k) == Cardinality(Places(raw, brace, i, k))

Ends(raw) == {i \in DOMAIN raw : raw[i] = "}"}

\* Where the depth is zero, on the way back from the last closing brace.
Even(raw) ==
    LET end == Max(Ends(raw))
    IN  {i \in 1 .. end : Count(raw, "{", i, end) = Count(raw, "}", i, end)}

LastBalanced(raw) ==
    IF Ends(raw) = {} \/ Even(raw) = {} THEN NoText
    ELSE SubSeq(raw, Max(Even(raw)), Max(Ends(raw)))

-----------------------------------------------------------------------------
(* Properties                                                              *)

\* What lastBalanced takes for the answer begins and ends with a brace, and
\* its braces even out there and nowhere before: JSON.parse is never given
\* half an object, or two.
BlockBalanced ==
    LET block == LastBalanced(text)
    IN  block # NoText =>
          /\ block[1] = "{" /\ block[Len(block)] = "}"
          /\ Count(block, "}", 1, Len(block)) = Count(block, "{", 1, Len(block))
          /\ \A n \in 1 .. Len(block) - 1 :
                Count(block, "}", 1, n) < Count(block, "{", 1, n)
=============================================================================
