-------------------------------- MODULE Strings --------------------------------
(***************************************************************************)
(* Strings as sequences of characters, or of words where a text is not     *)
(* taken apart any further.                                                *)
(***************************************************************************)
EXTENDS SequencesExt, Integers

\* The characters of s before position i, and after it.
Before(s, i) == SubSeq(s, 1, i - 1)
After(s, i) == SubSeq(s, i + 1, Len(s))

\* Where the next of these characters is in s, from position i on; one past the
\* end if there is none.
NextIn(s, chars, i) == Min({j \in i..Len(s) : s[j] \in chars} \cup {Len(s) + 1})

\* Spaces taken off at both ends.
TrimSpace(s) ==
    LET kept == {i \in DOMAIN s : s[i] # " "}
    IN  IF kept = {} THEN <<>> ELSE SubSeq(s, Min(kept), Max(kept))

\* Where s occurs in t.
Occurrences(s, t) == {i \in DOMAIN t : IsPrefix(s, SubSeq(t, i, Len(t)))}
================================================================================
