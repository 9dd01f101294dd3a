---------------------------- MODULE MCCanFrames -----------------------------
(***************************************************************************)
(* CanFrames with the layouts of CanSimple, for TLC.                       *)
(***************************************************************************)
EXTENDS CanSimple

\* Ids that differ in one bit each, in all, or in none of the low five; and
\* one that is another's in the low six.
MCNodeIds == {0, 1, 33, 63, 65}
MCDrives  == {0, 1, 33, 63}

\* All zeros, all ones, and a word with the ends of every field in it, the
\* error bits without a name among them.
MCPatterns == {{}, Bits, {0, 6, 7, 15, 18, 30, 31}}
MCJunk     == {{}, Bits}
=============================================================================
