--------------------------------- MODULE Find ---------------------------------
(***************************************************************************)
(* find and findp of src/utils.c, one pass of their loops per step: the    *)
(* search for a line end, a ": ", or the last chunk in the unread window   *)
(* of a session's buffer.  Positions count from 0, as in C.                *)
(***************************************************************************)
EXTENDS Integers, Sequences

CONSTANTS
  Byte,
  Buffers,      \* what may be searched
  Needles       \* what may be searched for

ASSUME FindConstants ==
  /\ Buffers \subseteq Seq(Byte)
  /\ Needles \subseteq Seq(Byte) \ {<<>>}

VARIABLES
  buf, needle,  \* the arguments
  partial,      \* whether findp was called
  i, j,
  found         \* the value returned

findVars == <<buf, needle, partial, i, j, found>>

hlen == Len(buf)
nlen == Len(needle)
Running == -2
NotFound == -1

FindInit ==
  /\ buf \in Buffers
  /\ needle \in Needles
  /\ partial \in BOOLEAN
  /\ i = 0
  /\ j = 0
  /\ found = Running

FindReturn(value) ==
  /\ found' = value
  /\ UNCHANGED <<buf, needle, partial, i, j>>

\* Mutant of InLoop: find goes on to the end of the buffer, as findp does.
InLoopToEnd == found = Running /\ i <= hlen

\* The loop's condition.  find returns at once when the needle is the longer.
InLoop == found = Running /\ IF partial THEN i <= hlen ELSE i <= hlen - nlen

\* buf[i + j] = s[j]; what lies behind the buffer may be equal or not.
Compares(equal) == i + j < hlen => equal = (buf[i + j + 1] = needle[j + 1])

\* The needle, or for findp the buffer, is used up.
UsedUp == j = nlen - 1 \/ (partial /\ i + j + 1 = hlen)

ByteEqual ==
  /\ InLoop /\ Compares(TRUE) /\ ~UsedUp
  /\ j' = j + 1
  /\ UNCHANGED <<buf, needle, partial, i, found>>

LastEqual ==
  /\ InLoop /\ Compares(TRUE) /\ UsedUp
  /\ FindReturn(i)

\* Mutant of ByteDiffers: the next place is behind what was compared equal.
ByteDiffersSkip ==
  /\ InLoop /\ Compares(FALSE)
  /\ i' = i + j + 1
  /\ j' = 0
  /\ UNCHANGED <<buf, needle, partial, found>>

\* Mutant of ByteDiffers: the same place is tried again.
ByteDiffersAgain ==
  /\ InLoop /\ Compares(FALSE)
  /\ j' = 0
  /\ UNCHANGED <<buf, needle, partial, i, found>>

ByteDiffers ==
  /\ InLoop /\ Compares(FALSE)
  /\ i' = i + 1
  /\ j' = 0
  /\ UNCHANGED <<buf, needle, partial, found>>

LoopEnds ==
  /\ found = Running /\ ~InLoop
  /\ FindReturn(NotFound)

FindNext == ByteEqual \/ LastEqual \/ ByteDiffers \/ LoopEnds

FindSpec == FindInit /\ [][FindNext]_findVars

-----------------------------------------------------------------------------
(* What the parsers rely on.                                               *)

FindTypeOK ==
  /\ buf \in Seq(Byte)
  /\ needle \in Seq(Byte) \ {<<>>}
  /\ partial \in BOOLEAN
  /\ i \in Nat /\ j \in Nat
  /\ found \in Int

\* What the call looks for is at k: the needle, or for findp as much of it as the
\* buffer still has room for.
IsAt(k) ==
  IF partial
  THEN k < hlen /\ \A m \in 1..nlen : k + m <= hlen => buf[k + m] = needle[m]
  ELSE k + nlen <= hlen /\ \A m \in 1..nlen : buf[k + m] = needle[m]

\* find returns the first place where the needle is, and -1 only if there is none,
\* so that no parser takes a later line end for the first; findp does too, but for
\* the place behind the buffer (src/utils.c:44-82).
FirstFound ==
  found # Running =>
    IF found = NotFound THEN \A k \in 0..hlen : ~IsAt(k)
    ELSE /\ IsAt(found) \/ (partial /\ found = hlen)
         /\ \A k \in 0..(found - 1) : ~IsAt(k)

\* find reads inside the window, behind which are bytes of earlier requests.
ReadsInside == InLoop /\ ~partial => i + j < hlen
=============================================================================
