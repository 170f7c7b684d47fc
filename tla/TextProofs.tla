------------------------------ MODULE TextProofs ------------------------------
(* Proofs about Find, Match and ParsePath, for every buffer, pattern and target. *)
EXTENDS Find, Match, ParsePath, TLAPS

-----------------------------------------------------------------------------
(* find and findp.                                                         *)

\* While the search runs no earlier place will do, and at this one the bytes before
\* j are equal; findp does not look behind the buffer unless it begins there.
Searching ==
  /\ j < nlen
  /\ partial /\ i < hlen => i + j < hlen
  /\ \A k \in 0..(i - 1) : ~IsAt(k)
  /\ \A m \in 1..j : i + m <= hlen => buf[i + m] = needle[m]

FindInv == FindTypeOK /\ FirstFound /\ (found = Running => Searching)

LEMMA FindStarts == FindInit => FindInv
  BY FindConstants, SMT
     DEF FindInit, FindInv, FindTypeOK, FirstFound, Searching, Running, hlen, nlen, IsAt

LEMMA ByteEqualKeeps == FindInv /\ ByteEqual => FindInv'
<1> SUFFICES ASSUME FindInv, ByteEqual PROVE FindInv'
  OBVIOUS
<1> USE DEF FindInv, FindTypeOK, Running, hlen, nlen
<1>1. FindTypeOK' /\ FirstFound' /\ found' = found
  BY DEF ByteEqual, InLoop, FirstFound
<1>2. (j' < nlen' /\ (partial' /\ i' < hlen' => i' + j' < hlen'))
  BY SMT DEF ByteEqual, InLoop, UsedUp, Searching
<1>3. (\A k \in 0..(i - 1) : ~IsAt(k))'
  BY DEF ByteEqual, InLoop, IsAt, Searching
<1>4. (\A m \in 1..j : i + m <= hlen => buf[i + m] = needle[m])'
  <2> SUFFICES ASSUME NEW m \in 1..(j + 1), i + m <= hlen PROVE buf[i + m] = needle[m]
    BY DEF ByteEqual
  <2>1. CASE m \in 1..j
    BY <2>1 DEF ByteEqual, InLoop, Searching
  <2>2. CASE m = j + 1
    BY <2>2, SMT DEF ByteEqual, Compares
  <2> QED BY <2>1, <2>2
<1> QED BY <1>1, <1>2, <1>3, <1>4 DEF Searching

LEMMA LastEqualKeeps == FindInv /\ LastEqual => FindInv'
<1> SUFFICES ASSUME FindInv, LastEqual PROVE FindInv'
  OBVIOUS
<1> USE DEF FindInv, FindTypeOK, Running, NotFound, hlen, nlen
<1>1. /\ found' = i /\ UNCHANGED <<buf, needle, partial, i, j>>
      /\ InLoop /\ Searching /\ UsedUp /\ Compares(TRUE)
  BY DEF LastEqual, FindReturn, InLoop
<1>2. IsAt(i) \/ (partial /\ i = hlen)
  <2>1. CASE ~partial
    <3>1. j = nlen - 1 /\ i + nlen <= hlen
      BY <1>1, <2>1 DEF UsedUp, InLoop
    <3>2. ASSUME NEW m \in 1..nlen PROVE buf[i + m] = needle[m]
      <4>1. CASE m \in 1..j
        BY <1>1, <3>1, <4>1 DEF Searching
      <4>2. CASE m = j + 1
        BY <1>1, <3>1, <4>2, SMT DEF Compares
      <4> QED BY <3>1, <4>1, <4>2
    <3> QED BY <2>1, <3>1, <3>2 DEF IsAt
  <2>2. CASE partial /\ i < hlen
    <3>1. ASSUME NEW m \in 1..nlen, i + m <= hlen PROVE buf[i + m] = needle[m]
      <4>1. CASE m \in 1..j
        BY <1>1, <3>1, <4>1 DEF Searching
      <4>2. CASE m = j + 1
        BY <1>1, <3>1, <4>2, SMT DEF Compares
      <4>3. m <= j + 1
        BY <1>1, <2>2, <3>1 DEF UsedUp
      <4> QED BY <4>1, <4>2, <4>3
    <3> QED BY <2>2, <3>1 DEF IsAt
  <2> QED BY <1>1, <2>1, <2>2 DEF InLoop
<1>3. \A k \in 0..(i - 1) : ~IsAt(k)
  BY <1>1 DEF Searching
<1> QED BY <1>1, <1>2, <1>3 DEF FirstFound, IsAt

LEMMA ByteDiffersKeeps == FindInv /\ ByteDiffers => FindInv'
<1> SUFFICES ASSUME FindInv, ByteDiffers PROVE FindInv'
  OBVIOUS
<1> USE DEF FindInv, FindTypeOK, Running, NotFound, hlen, nlen
<1>1. /\ i' = i + 1 /\ j' = 0 /\ UNCHANGED <<buf, needle, partial, found>>
      /\ found = Running /\ InLoop /\ Searching /\ Compares(FALSE)
  BY DEF ByteDiffers, InLoop
<1>2. ~IsAt(i)
  <2>1. i < hlen => j + 1 \in 1..nlen /\ i + (j + 1) <= hlen /\ buf[i + (j + 1)] # needle[j + 1]
    BY <1>1, SMT DEF Searching, InLoop, Compares
  <2> QED BY <1>1, <2>1, SMT DEF IsAt, InLoop
<1>3. \A k \in 0..i : ~IsAt(k)
  BY <1>1, <1>2 DEF Searching
<1>4. (\A k \in 0..(i - 1) : ~IsAt(k))'
  <2>1. i' - 1 = i
    BY <1>1
  <2> QED BY <1>1, <1>3, <2>1 DEF IsAt
<1> QED BY <1>1, <1>4 DEF FirstFound, Searching

LEMMA LoopEndsKeeps == FindInv /\ LoopEnds => FindInv'
<1> SUFFICES ASSUME FindInv, LoopEnds PROVE FindInv'
  OBVIOUS
<1> USE DEF FindInv, FindTypeOK, Running, NotFound, hlen, nlen
<1>1. /\ found' = NotFound /\ UNCHANGED <<buf, needle, partial, i, j>>
      /\ ~InLoop /\ Searching /\ found = Running
  BY DEF LoopEnds, FindReturn
<1>2. ASSUME NEW k \in 0..hlen PROVE ~IsAt(k)
  BY <1>1, SMT DEF Searching, InLoop, IsAt
<1> QED BY <1>1, <1>2 DEF FirstFound, IsAt

LEMMA FindKept == FindSpec => []FindInv
<1>1. FindInv /\ [FindNext]_findVars => FindInv'
  <2> SUFFICES ASSUME FindInv, [FindNext]_findVars PROVE FindInv'
    OBVIOUS
  <2>1. CASE UNCHANGED findVars
    BY <2>1 DEF findVars, FindInv, FindTypeOK, FirstFound, Searching, IsAt, hlen, nlen
  <2> QED
    BY <2>1, ByteEqualKeeps, LastEqualKeeps, ByteDiffersKeeps, LoopEndsKeeps DEF FindNext
<1> QED BY <1>1, FindStarts, PTL DEF FindSpec

\* find returns the first place of the needle in any buffer, and findp the first of as
\* much of it as the buffer holds (src/utils.c:44-82).
THEOREM FirstPlace == FindSpec => []FirstFound
<1>1. FindInv => FirstFound
  BY DEF FindInv
<1> QED BY <1>1, FindKept, PTL

\* find compares no byte behind the buffer (src/utils.c:53-54).
THEOREM NothingBehind == FindSpec => []ReadsInside
<1>1. FindInv => ReadsInside
  BY SMT DEF FindInv, FindTypeOK, Searching, ReadsInside, InLoop, hlen, nlen
<1> QED BY <1>1, FindKept, PTL

-----------------------------------------------------------------------------
(* fnmatch.                                                                *)

\* What the k-th character of the pattern takes: the string from a up to b.
Piece(k, a, b) ==
  IF pattern[k] = "*" THEN a <= b
  ELSE b = a + 1 /\ a <= Len(string) /\ pattern[k] \in {string[a], "?"}

Place == 1..(Len(string) + 1)

\* While the loop runs the pattern has taken the string up to s, and so it would have
\* if the last star passed had taken all since.
Matching ==
  /\ Takes(p - 1, s)
  /\ pl # 0 => /\ pl - 1 \in 1..Len(pattern)
               /\ pattern[pl - 1] = "*"
               /\ Takes(pl - 1, s)

MatchInv == MatchTypeOK /\ OnlyGlobs /\ (verdict = "none" => Matching)

\* What is matched grows by the piece of the next character.
LEMMA TakesMore ==
  ASSUME MatchTypeOK, NEW n \in 0..(Len(pattern) - 1), NEW m \in Place, NEW m2 \in Place,
         Takes(n, m), Piece(n + 1, m, m2)
  PROVE  Takes(n + 1, m2)
<1>1. PICK f \in [1..(n + 1) -> Place] : Aligned(f, n, m)
  BY DEF Takes, Place
<1> DEFINE g == [k \in 1..(n + 2) |-> IF k = n + 2 THEN m2 ELSE f[k]]
<1>2. g \in [1..(n + 2) -> Place]
  BY <1>1
<1>3. \A k \in 1..(n + 1) : g[k] = f[k] /\ k \in 1..(n + 2)
  OBVIOUS
<1>4. g[1] = 1 /\ g[n + 2] = m2 /\ g[n + 1] = m
  BY <1>1, <1>3 DEF Aligned
<1>5. ASSUME NEW k \in 1..(n + 1) PROVE Piece(k, g[k], g[k + 1])
  <2>1. CASE k = n + 1
    BY <1>4, <2>1
  <2>2. CASE k \in 1..n
    <3>1. g[k] = f[k] /\ g[k + 1] = f[k + 1]
      BY <1>3, <2>2
    <3> QED BY <1>1, <2>2, <3>1, Zenon DEF Aligned, Piece
  <2> QED BY <2>1, <2>2
<1>6. Aligned(g, n + 1, m2)
  <2>1. n + 1 + 1 = n + 2
    OBVIOUS
  <2> HIDE DEF g
  <2> QED BY <1>4, <1>5, <2>1, Zenon DEF Aligned, Piece
<1>7. g \in [1..(n + 1 + 1) -> 1..(Len(string) + 1)]
  <2>1. n + 1 + 1 = n + 2
    OBVIOUS
  <2> HIDE DEF g
  <2> QED BY <1>2, <2>1 DEF Place
<1> HIDE DEF g
<1> QED BY <1>6, <1>7, Zenon DEF Takes

\* A star takes another character.
LEMMA StarGrows ==
  ASSUME MatchTypeOK, NEW n \in 1..Len(pattern), NEW m \in Place, m + 1 \in Place,
         pattern[n] = "*", Takes(n, m)
  PROVE  Takes(n, m + 1)
<1>1. PICK f \in [1..(n + 1) -> Place] : Aligned(f, n, m)
  BY DEF Takes, Place
<1> DEFINE g == [f EXCEPT ![n + 1] = m + 1]
<1>2. g \in [1..(n + 1) -> Place]
  BY <1>1
<1>3. g[1] = 1 /\ g[n + 1] = m + 1 /\ \A k \in 1..n : g[k] = f[k]
  BY <1>1 DEF Aligned
<1>4. ASSUME NEW k \in 1..n PROVE Piece(k, g[k], g[k + 1])
  <2>1. CASE k = n
    <3>1. f[n] <= f[n + 1] /\ f[n + 1] = m /\ f[n] \in Place
      BY <1>1 DEF Aligned
    <3> QED BY <1>3, <2>1, <3>1 DEF Piece, Place
  <2>2. CASE k + 1 \in 1..n
    <3>1. g[k] = f[k] /\ g[k + 1] = f[k + 1]
      BY <1>3, <2>2
    <3> QED BY <1>1, <3>1, Zenon DEF Aligned, Piece
  <2> QED BY <2>1, <2>2
<1>5. Aligned(g, n, m + 1)
  <2> HIDE DEF g
  <2> QED BY <1>3, <1>4, Zenon DEF Aligned, Piece
<1> HIDE DEF g
<1> QED BY <1>2, <1>5, Zenon DEF Takes, Place

LEMMA MatchStarts == MatchInit => MatchInv
<1> SUFFICES ASSUME MatchInit PROVE MatchInv
  OBVIOUS
<1>1. MatchTypeOK
  BY MatchConstants DEF MatchInit, MatchTypeOK
<1>2. Takes(0, 1)
  <2> DEFINE f == [k \in 1..(0 + 1) |-> 1]
  <2>1. f \in [1..(0 + 1) -> 1..(Len(string) + 1)]
    BY <1>1 DEF MatchTypeOK
  <2>2. Aligned(f, 0, 1)
    BY DEF Aligned
  <2> QED BY <2>1, <2>2 DEF Takes
<1> QED BY <1>1, <1>2 DEF MatchInit, MatchInv, Matching, OnlyGlobs

\* After the star has been stepped over, the same is true of Behind and Back.
LEMMA SteppedOver ==
  ASSUME MatchInv, verdict = "none"
  PROVE  /\ Behind \in 1..(Len(pattern) + 1) /\ s \in Place
         /\ Takes(Behind - 1, s)
         /\ Back # 0 => /\ Back \in 2..(Len(pattern) + 1)
                        /\ pattern[Back - 1] = "*"
                        /\ Takes(Back - 1, s)
<1> USE DEF MatchInv, MatchTypeOK, Matching, Place
<1>1. CASE AtStar
  <2>1. p \in 1..Len(pattern) /\ Behind = p + 1 /\ Back = p + 1
    BY <1>1 DEF AtStar, Behind, Back
  <2>2. Takes(p, s)
    <3>1. p - 1 \in 0..(Len(pattern) - 1) /\ (p - 1) + 1 = p
      BY <2>1
    <3>2. Piece((p - 1) + 1, s, s)
      BY <1>1, <3>1 DEF AtStar, Piece
    <3> QED BY <3>1, <3>2, TakesMore
  <2>3. (p + 1) - 1 = p
    BY <2>1
  <2> QED BY <1>1, <2>1, <2>2, <2>3 DEF AtStar
<1>2. CASE ~AtStar
  BY <1>2 DEF Behind, Back
<1> QED BY <1>1, <1>2

LEMMA StarTakesRestKeeps == MatchInv /\ StarTakesRest => MatchInv'
<1> SUFFICES ASSUME MatchInv, StarTakesRest PROVE MatchInv'
  OBVIOUS
<1>1. /\ verdict' = "yes" /\ UNCHANGED <<pattern, string, p, s, pl>>
      /\ verdict = "none" /\ AtStar /\ PatternEnds /\ MatchTypeOK
  BY DEF StarTakesRest, Verdict, MatchInv
<1>2. p = Len(pattern) /\ (p - 1) + 1 = p /\ p - 1 \in 0..(Len(pattern) - 1)
  BY <1>1 DEF PatternEnds, Behind, AtStar, MatchTypeOK
<1>3. Takes((p - 1) + 1, Len(string) + 1)
  <2>1. s \in Place /\ Len(string) + 1 \in Place /\ Takes(p - 1, s)
    BY <1>1 DEF MatchInv, MatchTypeOK, Matching, Place
  <2>2. Piece((p - 1) + 1, s, Len(string) + 1)
    BY <1>1, <1>2, <2>1 DEF Piece, AtStar, Place, MatchTypeOK
  <2> QED BY <1>1, <1>2, <2>1, <2>2, TakesMore
<1> QED BY <1>1, <1>2, <1>3 DEF MatchInv, MatchTypeOK, OnlyGlobs, Glob, Takes, Aligned

LEMMA AtEndKeeps == MatchInv /\ AtEnd => MatchInv'
<1> SUFFICES ASSUME MatchInv, AtEnd PROVE MatchInv'
  OBVIOUS
<1>1. /\ verdict' = (IF PatternEnds /\ StringEnds THEN "yes" ELSE "no")
      /\ UNCHANGED <<pattern, string, p, s, pl>>
      /\ verdict = "none" /\ MatchTypeOK
  BY DEF AtEnd, Verdict, MatchInv
<1>2. PatternEnds /\ StringEnds => Glob
  <2>1. PatternEnds => Behind - 1 = Len(pattern)
    BY <1>1, SteppedOver DEF PatternEnds, MatchTypeOK
  <2>2. StringEnds => s = Len(string) + 1
    BY <1>1, SteppedOver DEF StringEnds, MatchTypeOK
  <2> QED BY <1>1, <2>1, <2>2, SteppedOver DEF Glob
<1> QED BY <1>1, <1>2 DEF MatchInv, MatchTypeOK, OnlyGlobs, Glob, Takes, Aligned

LEMMA BothAdvanceKeeps == MatchInv /\ BothAdvance => MatchInv'
<1> SUFFICES ASSUME MatchInv, BothAdvance PROVE MatchInv'
  OBVIOUS
<1>1. /\ p' = Behind + 1 /\ s' = s + 1 /\ pl' = Back
      /\ UNCHANGED <<pattern, string, verdict>>
      /\ Comparing /\ CharsMatch /\ MatchTypeOK
  BY DEF BothAdvance, MatchInv
<1>2. /\ verdict = "none" /\ Behind \in 1..Len(pattern)
      /\ s \in 1..Len(string) /\ s \in Place /\ s + 1 \in Place
      /\ Takes(Behind - 1, s)
  BY <1>1, SteppedOver DEF Comparing, PatternEnds, StringEnds, MatchTypeOK, Place
<1>3. Takes(Behind, s + 1)
  <2>1. Behind - 1 \in 0..(Len(pattern) - 1) /\ (Behind - 1) + 1 = Behind
    BY <1>1, <1>2 DEF MatchTypeOK
  <2>2. Piece((Behind - 1) + 1, s, s + 1)
    BY <1>1, <1>2, <2>1 DEF Piece, CharsMatch, Place, MatchTypeOK
  <2> QED BY <1>1, <1>2, <2>1, <2>2, TakesMore
<1>4. Back # 0 => Takes(Back - 1, s + 1)
  <2> SUFFICES ASSUME Back # 0 PROVE Takes(Back - 1, s + 1)
    OBVIOUS
  <2>1. Back - 1 \in 1..Len(pattern)
    BY <1>1, <1>2, SteppedOver DEF MatchTypeOK
  <2> QED BY <1>1, <1>2, <2>1, SteppedOver, StarGrows
<1>5. /\ (Behind + 1) - 1 = Behind /\ Back \in 0..(Len(pattern) + 1)
      /\ Back # 0 => Back - 1 \in 1..Len(pattern) /\ pattern[Back - 1] = "*"
  BY <1>1, <1>2, SteppedOver DEF MatchTypeOK
<1>6. MatchTypeOK'
  BY <1>1, <1>2, <1>5 DEF MatchTypeOK
<1>7. Matching'
  <2>1. p' - 1 = Behind /\ s' = s + 1 /\ pl' = Back
    BY <1>1, <1>5
  <2>2. Takes(p - 1, s)'
    BY <1>1, <1>3, <2>1 DEF Takes, Aligned
  <2>3. pl' # 0 => Takes(pl - 1, s)'
    BY <1>1, <1>4, <2>1 DEF Takes, Aligned
  <2> QED BY <1>1, <1>5, <2>1, <2>2, <2>3 DEF Matching
<1> QED BY <1>1, <1>2, <1>6, <1>7 DEF MatchInv, OnlyGlobs

LEMMA GoBackKeeps == MatchInv /\ GoBack => MatchInv'
<1> SUFFICES ASSUME MatchInv, GoBack PROVE MatchInv'
  OBVIOUS
<1>1. /\ p' = Back /\ s' = s + 1 /\ pl' = Back /\ Back # 0
      /\ UNCHANGED <<pattern, string, verdict>>
      /\ Comparing /\ MatchTypeOK
  BY DEF GoBack, MatchInv
<1>2. /\ verdict = "none" /\ s \in Place /\ s + 1 \in Place
      /\ Back \in 2..(Len(pattern) + 1) /\ Back - 1 \in 1..Len(pattern)
      /\ pattern[Back - 1] = "*" /\ Takes(Back - 1, s)
  BY <1>1, SteppedOver DEF Comparing, StringEnds, MatchTypeOK, Place
<1>3. Takes(Back - 1, s + 1)
  BY <1>1, <1>2, StarGrows
<1>4. MatchTypeOK'
  BY <1>1, <1>2 DEF MatchTypeOK, Place
<1>5. Matching'
  <2>1. Takes(p - 1, s)'
    BY <1>1, <1>3 DEF Takes, Aligned
  <2>2. pl' = p' /\ pl' - 1 \in 1..Len(pattern') /\ pattern'[pl' - 1] = "*"
    BY <1>1, <1>2
  <2> QED BY <2>1, <2>2 DEF Matching
<1> QED BY <1>1, <1>2, <1>4, <1>5 DEF MatchInv, OnlyGlobs

LEMMA MismatchKeeps == MatchInv /\ Mismatch => MatchInv'
<1> SUFFICES ASSUME MatchInv, Mismatch PROVE MatchInv'
  OBVIOUS
<1>1. verdict' = "no" /\ UNCHANGED <<pattern, string, p, s, pl>> /\ MatchTypeOK
  BY DEF Mismatch, Verdict, MatchInv
<1> QED BY <1>1 DEF MatchInv, MatchTypeOK, OnlyGlobs

LEMMA MatchKept == MatchSpec => []MatchInv
<1>1. MatchInv /\ [MatchNext]_matchVars => MatchInv'
  <2> SUFFICES ASSUME MatchInv, [MatchNext]_matchVars PROVE MatchInv'
    OBVIOUS
  <2>1. CASE UNCHANGED matchVars
    <3>1. UNCHANGED <<pattern, string, p, s, pl, verdict>>
      BY <2>1 DEF matchVars
    <3>2. MatchTypeOK' /\ OnlyGlobs'
      BY <3>1 DEF MatchInv, MatchTypeOK, OnlyGlobs, Glob, Takes, Aligned
    <3>3. verdict = "none" => Matching'
      <4> SUFFICES ASSUME verdict = "none" PROVE Matching'
        OBVIOUS
      <4>1. (Takes(p - 1, s))' <=> Takes(p - 1, s)
        BY <3>1 DEF Takes, Aligned
      <4>2. (Takes(pl - 1, s))' <=> Takes(pl - 1, s)
        BY <3>1 DEF Takes, Aligned
      <4> QED BY <3>1, <4>1, <4>2 DEF MatchInv, Matching
    <3> QED BY <3>1, <3>2, <3>3 DEF MatchInv
  <2> QED
    BY <2>1, StarTakesRestKeeps, AtEndKeeps, BothAdvanceKeeps, GoBackKeeps, MismatchKeeps
       DEF MatchNext
<1> QED BY <1>1, MatchStarts, PTL DEF MatchSpec

\* Whatever fnmatch accepts is matched by the pattern as a glob, for every pattern and
\* path: a star read as a character only makes it refuse (src/utils.c:11-42).
THEOREM AcceptsOnlyGlobs == MatchSpec => []OnlyGlobs
<1>1. MatchInv => OnlyGlobs
  BY DEF MatchInv
<1> QED BY <1>1, MatchKept, PTL

-----------------------------------------------------------------------------
(* Patterns without a star before their end.                               *)

\* The whole pattern takes the whole string, the k-th character from f[k] on.
Whole(f) == f \in [1..(Len(pattern) + 1) -> Place] /\ Aligned(f, Len(pattern), Len(string) + 1)

\* The loop compares character by character, as every match of the whole has to.
Straight == p = s /\ pl = 0 /\ \A f : Whole(f) => f[p] = p

PlainInv == MatchTypeOK /\ PlainGlobs /\ (verdict = "none" /\ Plain => Straight)

LEMMA PlainStarts == MatchInit => PlainInv
BY MatchConstants
   DEF MatchInit, PlainInv, MatchTypeOK, PlainGlobs, Straight, Whole, Aligned

\* While the loop runs, only a star at the end of the pattern is met.
LEMMA PlainFacts ==
  ASSUME PlainInv, verdict = "none", Plain, ~(AtStar /\ PatternEnds)
  PROVE  /\ ~AtStar /\ Behind = p /\ Back = 0 /\ Straight /\ MatchTypeOK
         /\ ~PatternEnds => p \in 1..Len(pattern) /\ pattern[p] # "*"
<1>1. MatchTypeOK /\ Straight
  BY DEF PlainInv
<1>2. ~AtStar
  BY <1>1 DEF AtStar, PatternEnds, Behind, Plain, MatchTypeOK
<1>3. Behind = p /\ Back = 0
  BY <1>1, <1>2 DEF Behind, Back, Straight
<1> QED
  BY <1>1, <1>2, <1>3 DEF AtStar, PatternEnds, MatchTypeOK

\* What every match of the whole says of the next comparison.
LEMMA WholeFacts ==
  ASSUME MatchTypeOK, Straight, NEW f, Whole(f)
  PROVE  /\ p = Len(pattern) + 1 => s = Len(string) + 1
         /\ p \in 1..Len(pattern) /\ pattern[p] # "*" =>
              s <= Len(string) /\ pattern[p] \in {string[s], "?"} /\ f[p + 1] = p + 1
<1>1. f[p] = s /\ p = s /\ Aligned(f, Len(pattern), Len(string) + 1)
  BY DEF Straight, Whole
<1>2. p = Len(pattern) + 1 => s = Len(string) + 1
  BY <1>1 DEF Aligned
<1>3. ASSUME p \in 1..Len(pattern), pattern[p] # "*"
      PROVE  s <= Len(string) /\ pattern[p] \in {string[s], "?"} /\ f[p + 1] = p + 1
  <2>1. f[p + 1] = f[p] + 1 /\ f[p] <= Len(string) /\ pattern[p] \in {string[f[p]], "?"}
    BY <1>1, <1>3 DEF Aligned
  <2> QED BY <1>1, <2>1
<1> QED BY <1>2, <1>3

LEMMA GlobIsWhole == Glob <=> \E f : Whole(f)
BY DEF Glob, Takes, Whole, Place

LEMMA StarPlain == PlainInv /\ StarTakesRest => PlainInv'
BY DEF StarTakesRest, Verdict, PlainInv, MatchTypeOK, PlainGlobs

LEMMA AtEndPlain == PlainInv /\ AtEnd => PlainInv'
<1> SUFFICES ASSUME PlainInv, AtEnd PROVE PlainInv'
  OBVIOUS
<1>1. /\ verdict' = (IF PatternEnds /\ StringEnds THEN "yes" ELSE "no")
      /\ UNCHANGED <<pattern, string, p, s, pl>> /\ verdict = "none" /\ MatchTypeOK
      /\ ~(AtStar /\ PatternEnds) /\ (PatternEnds \/ StringEnds)
  BY DEF AtEnd, Verdict, PlainInv
<1>2. ASSUME Plain, Glob PROVE PatternEnds /\ StringEnds
  <2>1. PICK f : Whole(f)
    BY <1>2, GlobIsWhole
  <2>2. /\ Behind = p /\ Straight
        /\ ~PatternEnds => p \in 1..Len(pattern) /\ pattern[p] # "*"
    BY <1>1, <1>2, PlainFacts
  <2>3. /\ p = Len(pattern) + 1 => s = Len(string) + 1
        /\ ~PatternEnds => s <= Len(string)
    BY <1>1, <2>1, <2>2, WholeFacts
  <2>4. PatternEnds
    BY <1>1, <2>3 DEF StringEnds, MatchTypeOK
  <2>5. p = Len(pattern) + 1
    BY <1>1, <2>2, <2>4 DEF PatternEnds, MatchTypeOK
  <2> QED BY <1>1, <2>3, <2>4, <2>5 DEF StringEnds, MatchTypeOK
<1>3. Glob' = Glob /\ Plain' = Plain
  BY <1>1 DEF Glob, Takes, Aligned, Plain
<1>4. MatchTypeOK' /\ verdict' # "none"
  BY <1>1 DEF MatchTypeOK
<1> QED BY <1>1, <1>2, <1>3, <1>4 DEF PlainInv, PlainGlobs

LEMMA AdvancePlain == PlainInv /\ BothAdvance => PlainInv'
<1> SUFFICES ASSUME PlainInv, BothAdvance PROVE PlainInv'
  OBVIOUS
<1>1. /\ p' = Behind + 1 /\ s' = s + 1 /\ pl' = Back
      /\ UNCHANGED <<pattern, string, verdict>> /\ verdict = "none"
      /\ ~PatternEnds /\ ~StringEnds /\ MatchTypeOK
  BY DEF BothAdvance, Comparing, PlainInv
<1>2. MatchTypeOK'
  BY <1>1 DEF MatchTypeOK, PatternEnds, StringEnds, Behind, Back, AtStar
<1>3. ASSUME Plain PROVE Straight'
  <2>1. /\ Behind = p /\ Back = 0 /\ Straight /\ p \in 1..Len(pattern) /\ pattern[p] # "*"
    BY <1>1, <1>3, PlainFacts
  <2>2. \A f : Whole(f) => f[p + 1] = p + 1
    BY <1>1, <2>1, WholeFacts
  <2>3. \A f : Whole(f)' <=> Whole(f)
    BY <1>1 DEF Whole, Aligned, Place
  <2>4. p' = p + 1 /\ p' = s' /\ pl' = 0
    BY <1>1, <2>1 DEF Straight
  <2> QED BY <2>2, <2>3, <2>4 DEF Straight
<1>4. Plain' = Plain /\ PlainGlobs'
  BY <1>1 DEF Plain, PlainGlobs
<1> QED BY <1>2, <1>3, <1>4 DEF PlainInv

LEMMA RefusePlain == PlainInv /\ (GoBack \/ Mismatch) => PlainInv'
<1> SUFFICES ASSUME PlainInv, GoBack \/ Mismatch PROVE PlainInv'
  OBVIOUS
<1>1. /\ UNCHANGED <<pattern, string>> /\ verdict = "none" /\ MatchTypeOK
      /\ ~PatternEnds /\ ~StringEnds /\ ~CharsMatch
      /\ GoBack => Back # 0 /\ verdict' = verdict
  BY DEF GoBack, Mismatch, Comparing, Verdict, PlainInv
<1>2. MatchTypeOK'
  BY <1>1
     DEF MatchTypeOK, GoBack, Mismatch, Verdict, PatternEnds, StringEnds, Behind, Back, AtStar
<1>3. ASSUME Plain PROVE ~Glob /\ Back = 0
  <2>1. /\ Behind = p /\ Back = 0 /\ Straight /\ p \in 1..Len(pattern) /\ pattern[p] # "*"
    BY <1>1, <1>3, PlainFacts
  <2>2. ASSUME NEW f, Whole(f) PROVE FALSE
    BY <1>1, <2>1, <2>2, WholeFacts DEF CharsMatch
  <2> QED BY <2>1, <2>2, GlobIsWhole
<1>4. Glob' = Glob /\ Plain' = Plain
  BY <1>1 DEF Glob, Takes, Aligned, Plain
<1>5. Mismatch => verdict' = "no"
  BY DEF Mismatch, Verdict
<1> QED BY <1>1, <1>2, <1>3, <1>4, <1>5 DEF PlainInv, PlainGlobs

\* fnmatch refuses no path that its pattern matches, when the pattern has no star or only
\* one at its end, for every such pattern and every path (src/utils.c:11-42).
THEOREM PlainRoutesMatch == MatchSpec => []PlainGlobs
<1>1. PlainInv /\ [MatchNext]_matchVars => PlainInv'
  <2> SUFFICES ASSUME PlainInv, [MatchNext]_matchVars PROVE PlainInv'
    OBVIOUS
  <2>1. CASE UNCHANGED matchVars
    <3>1. UNCHANGED <<pattern, string, p, s, pl, verdict>>
      BY <2>1 DEF matchVars
    <3> QED
      BY <3>1 DEF PlainInv, MatchTypeOK, PlainGlobs, Glob, Takes, Aligned, Plain, Straight,
                  Whole, Place
  <2> QED BY <2>1, StarPlain, AtEndPlain, AdvancePlain, RefusePlain DEF MatchNext
<1>2. PlainInv => PlainGlobs
  BY DEF PlainInv
<1> QED BY <1>1, <1>2, PlainStarts, PTL DEF MatchSpec

-----------------------------------------------------------------------------
(* parse_path.                                                             *)

\* The terminator behind the target is not overwritten either.
PathInv == PathTypeOK /\ UnreadIntact /\ path[Len(path)] = NUL

Memory == Letter \cup {NUL, "space"}

LEMMA Terminated ==
  ASSUME NEW str \in Seq(Letter)
  PROVE  /\ Append(str, NUL) \in Seq(Memory)
         /\ Len(Append(str, NUL)) = Len(str) + 1
         /\ Append(str, NUL)[Len(str) + 1] = NUL
         /\ \A k \in 1..Len(str) : Append(str, NUL)[k] = str[k]
<1> HIDE DEF Letter
<1>1. str \in Seq(Memory) /\ NUL \in Memory
  BY DEF Memory
<1> QED BY <1>1

LEMMA PathStarts == PathInit => PathInv
<1> SUFFICES ASSUME PathInit PROVE PathInv
  OBVIOUS
<1>1. given \in Seq(Letter) /\ leftover \in Nat
  BY ParsePathConstants DEF PathInit
<1>2. /\ path \in Seq(Letter \cup {NUL, "space"}) /\ Len(path) = Len(given) + 1
      /\ \A k \in 1..Len(given) : path[k] = given[k]
      /\ path[Len(path)] = NUL
  BY <1>1, Terminated DEF PathInit, Memory
<1> QED BY <1>1, <1>2 DEF PathInit, PathInv, PathTypeOK, UnreadIntact, NoQuery, OldValue

\* A character is written behind the reading pointer, and n >= 1 are stepped over.
LEMMA WriteKeeps ==
  ASSUME PathInv, parsing, NEW char \in Letter \cup {NUL, "space"}, NEW n \in 1..3,
         pi + n <= Len(path), Write(char, n)
  PROVE  PathInv'
<1> USE DEF PathInv, PathTypeOK, UnreadIntact
<1>1. /\ path' = [path EXCEPT ![po] = char] /\ po' = po + 1 /\ pi' = pi + n
      /\ path_len' = path_len + 1
      /\ UNCHANGED <<given, leftover, query, query_len, parsing>>
  BY DEF Write
<1>2. path' \in Seq(Letter \cup {NUL, "space"}) /\ Len(path') = Len(path)
  BY <1>1
<1>3. \A k \in po'..Len(given) : path'[k] = given[k]
  BY <1>1
<1>4. path'[Len(path')] = NUL
  BY <1>1, <1>2
<1>5. /\ pi' \in Nat /\ po' \in Nat /\ path_len' \in Nat
      /\ 1 <= po' /\ po' <= pi' /\ pi' <= Len(path')
  BY <1>1, <1>2
<1>6. PathTypeOK'
  BY <1>1, <1>2, <1>5
<1>7. UnreadIntact'
  BY <1>1, <1>2, <1>3, <1>5
<1> QED BY <1>4, <1>6, <1>7

LEMMA SkipKeeps ==
  ASSUME PathInv, NEW n \in 1..3, pi + n <= Len(path), Skip(n)
  PROVE  PathInv'
<1> USE DEF PathInv, PathTypeOK, UnreadIntact
<1>1. pi' = pi + n /\ UNCHANGED <<given, path, po, path_len, leftover, query, query_len, parsing>>
  BY DEF Skip
<1> QED BY <1>1

\* What is read before the end of the target is a letter of it.
LEMMA AheadIsLetter ==
  ASSUME PathInv, At(1)
  PROVE  Ahead(0) \in Letter
<1>1. pi \in 1..Len(given) /\ path[pi] = given[pi] /\ given \in Seq(Letter)
  BY DEF PathInv, PathTypeOK, UnreadIntact, At
<1> QED BY <1>1 DEF Ahead, PathInv, PathTypeOK

LEMMA PathKept == PathSpec => []PathInv
<1>1. PathInv /\ [PathNext]_pathVars => PathInv'
  <2> SUFFICES ASSUME PathInv, [PathNext]_pathVars PROVE PathInv'
    OBVIOUS
  <2>1. CASE DecodeEscape
    <3>1. pi + 3 <= Len(path)
      BY <2>1 DEF DecodeEscape, Escape, At, Ahead, Hex, NUL, PathInv, PathTypeOK, UnreadIntact
    <3>2. Unescaped(Ahead(1), Ahead(2)) \in Letter \cup {NUL, "space"}
      BY DEF Unescaped, Letter
    <3> QED BY <2>1, <3>1, <3>2, WriteKeeps DEF DecodeEscape, Escape, At
  <2>2. CASE DecodePlus
    BY <2>2, WriteKeeps DEF DecodePlus, At
  <2>3. CASE SkipDot
    BY <2>3, SkipKeeps DEF SkipDot, DotSegment, At
  <2>4. CASE SkipSlash
    BY <2>4, SkipKeeps DEF SkipSlash, SlashAgain, At
  <2>5. CASE Copy
    BY <2>5, AheadIsLetter, WriteKeeps DEF Copy, At
  <2>6. CASE Query
    <3>1. /\ path' = [path EXCEPT ![po] = NUL] /\ pi' = pi + 1 /\ po' = po + 1
          /\ query' = pi + 1 /\ parsing' = FALSE
          /\ UNCHANGED <<given, path_len, leftover, query_len>>
          /\ pi + 1 <= Len(path)
      BY <2>6 DEF Query, At
    <3>2. /\ path' \in Seq(Letter \cup {NUL, "space"}) /\ Len(path') = Len(path)
          /\ \A k \in 1..Len(path) : path'[k] = IF k = po THEN NUL ELSE path[k]
      BY <3>1 DEF PathInv, PathTypeOK, UnreadIntact
    <3>inside. /\ pi \in Nat /\ po \in Nat /\ 1 <= po /\ po <= pi /\ pi < Len(path)
          /\ Len(path) \in Nat /\ Len(given) \in Nat /\ Len(path) = Len(given) + 1
          /\ \A k \in po..Len(given) : path[k] = given[k]
          /\ path[Len(path)] = NUL
      BY <3>1 DEF PathInv, PathTypeOK, UnreadIntact
    <3>ahead. \A k \in (po + 1)..Len(given) : path'[k] = given[k]
      BY <3>2, <3>inside
    <3>3. UnreadIntact' /\ path'[Len(path')] = NUL
      BY <3>1, <3>2, <3>inside, <3>ahead DEF UnreadIntact
    <3>4. /\ given' \in Seq(Letter) /\ pi' \in Nat /\ po' \in Nat /\ path_len' \in Nat
          /\ leftover' \in Nat /\ query' \in Int /\ query_len' \in {"left", "strlen"}
      BY <3>1 DEF PathInv, PathTypeOK
    <3>5. PathTypeOK'
      BY <3>1, <3>2, <3>4 DEF PathTypeOK
    <3> QED BY <3>3, <3>5 DEF PathInv
  <2>7. CASE EndOfTarget
    <3>1. UNCHANGED <<given, path, pi, po, path_len, leftover, query>>
          /\ parsing' \in BOOLEAN /\ query_len' \in {"left", "strlen"}
      BY <2>7 DEF EndOfTarget, PathInv, PathTypeOK
    <3> QED BY <3>1 DEF PathInv, PathTypeOK, UnreadIntact
  <2>8. CASE UNCHANGED pathVars
    <3>1. UNCHANGED <<given, path, pi, po, path_len, leftover, query, query_len, parsing>>
      BY <2>8 DEF pathVars
    <3> QED BY <3>1 DEF PathInv, PathTypeOK, UnreadIntact
  <2> QED BY <2>1, <2>2, <2>3, <2>4, <2>5, <2>6, <2>7, <2>8 DEF PathNext
<1> QED BY <1>1, PathStarts, PTL DEF PathSpec

\* Whatever the target, parse_path overwrites nothing that it has not read and does not
\* read behind the end: the query that handlers get is what the peer sent, and so is what
\* lies behind the decoded path
\* (src/http.c:291-336).
THEOREM NeverOvertakes == PathSpec => []UnreadIntact
<1>1. PathInv => UnreadIntact
  BY DEF PathInv
<1> QED BY <1>1, PathKept, PTL

-----------------------------------------------------------------------------
(* What every pass of a loop leaves less of.                               *)

\* The places that find has not given up, and the bytes still to compare at this one.
Untried    == hlen + 1 - i
Uncompared == nlen - j

LEMMA FindGivesUp == FindSpec => [](found = Running => i <= hlen + 1)
<1>1. FindInit => (found = Running => i <= hlen + 1)
  BY FindConstants, SMT DEF FindInit, hlen
<1>2. FindInv /\ (found = Running => i <= hlen + 1) /\ [FindNext]_findVars
        => (found = Running => i <= hlen + 1)'
  <2> SUFFICES ASSUME FindInv, found = Running => i <= hlen + 1, [FindNext]_findVars,
                      found' = Running
               PROVE  i' <= hlen' + 1
    OBVIOUS
  <2>1. CASE ByteDiffers
    <3>1. i' = i + 1 /\ hlen' = hlen /\ InLoop /\ i \in Nat /\ hlen \in Nat /\ nlen \in Nat
      BY <2>1 DEF ByteDiffers, hlen, nlen, FindInv, FindTypeOK
    <3> QED BY <3>1 DEF InLoop
  <2>2. CASE ByteEqual \/ LastEqual \/ LoopEnds \/ UNCHANGED findVars
    <3>1. UNCHANGED <<buf, i>> /\ found = Running
      BY <2>2 DEF ByteEqual, LastEqual, LoopEnds, FindReturn, InLoop, findVars
    <3> QED BY <3>1 DEF hlen
  <2> QED BY <2>1, <2>2 DEF FindNext
<1> QED BY <1>1, <1>2, FindKept, PTL DEF FindSpec

\* A pass of find or findp returns, compares one more byte at the same place, or gives up
\* the place for the next: for any buffer and needle the passes are bounded by two natural
\* numbers in lexicographic order (src/utils.c:44-82).
THEOREM FindPassesShrink ==
  FindSpec =>
    /\ [](found = Running => Untried \in Nat /\ Uncompared \in Nat)
    /\ [][found' # Running
          \/ Untried' < Untried
          \/ (Untried' = Untried /\ Uncompared' < Uncompared)]_findVars
<1> DEFINE Bounded == found = Running => i <= hlen + 1
<1>1. FindInv /\ Bounded => (found = Running => Untried \in Nat /\ Uncompared \in Nat)
  BY SMT DEF FindInv, FindTypeOK, Searching, Untried, Uncompared, hlen, nlen
<1>2. FindInv /\ [FindNext]_findVars
        => [found' # Running
            \/ Untried' < Untried
            \/ (Untried' = Untried /\ Uncompared' < Uncompared)]_findVars
  <2> SUFFICES ASSUME FindInv, FindNext
               PROVE  \/ found' # Running
                      \/ Untried' < Untried
                      \/ Untried' = Untried /\ Uncompared' < Uncompared
    BY Zenon
  <2>1. i \in Nat /\ j \in Nat /\ hlen \in Nat /\ nlen \in Nat
    BY DEF FindInv, FindTypeOK, hlen, nlen
  <2>2. CASE ByteEqual
    <3>1. i' = i /\ j' = j + 1 /\ hlen' = hlen /\ nlen' = nlen
      BY <2>2 DEF ByteEqual, hlen, nlen
    <3> QED BY <2>1, <3>1 DEF Untried, Uncompared
  <2>3. CASE LastEqual \/ LoopEnds
    <3>1. found' \in {i, -1}
      BY <2>3 DEF LastEqual, LoopEnds, FindReturn, NotFound
    <3> QED BY <2>1, <3>1, SMT DEF Running
  <2>4. CASE ByteDiffers
    <3>1. i' = i + 1 /\ hlen' = hlen
      BY <2>4 DEF ByteDiffers, hlen
    <3> QED BY <2>1, <3>1 DEF Untried
  <2> QED BY <2>2, <2>3, <2>4 DEF FindNext
<1>3. FindSpec => []Bounded
  BY FindGivesUp
<1> HIDE DEF Bounded
<1> QED BY <1>1, <1>2, <1>3, FindKept, PTL DEF FindSpec

\* The characters of the string that fnmatch has not consumed, and one pass for its end.
Unmatched == Len(string) + 1 - s

\* Every pass of fnmatch decides or consumes a character for good, for any pattern: going
\* back is in the pattern only, so that a path of n characters costs at most n + 1 passes
\* however many stars a route has (src/utils.c:11-42).
THEOREM MatchPassesShrink ==
  MatchSpec => /\ [](Unmatched \in Nat)
               /\ [][verdict' # "none" \/ Unmatched' = Unmatched - 1]_matchVars
<1>1. MatchInv => Unmatched \in Nat
  BY SMT DEF MatchInv, MatchTypeOK, Unmatched
<1>2. MatchInv /\ [MatchNext]_matchVars
        => [verdict' # "none" \/ Unmatched' = Unmatched - 1]_matchVars
  <2> SUFFICES ASSUME MatchInv, MatchNext
               PROVE  verdict' # "none" \/ Unmatched' = Unmatched - 1
    BY Zenon
  <2>1. CASE StarTakesRest \/ AtEnd \/ Mismatch
    BY <2>1 DEF StarTakesRest, AtEnd, Mismatch, Verdict
  <2>2. CASE BothAdvance \/ GoBack
    <3>1. s' = s + 1 /\ string' = string /\ s \in Int /\ Len(string) \in Nat
      BY <2>2 DEF BothAdvance, GoBack, MatchInv, MatchTypeOK
    <3> QED BY <3>1 DEF Unmatched
  <2> QED BY <2>1, <2>2 DEF MatchNext
<1> QED BY <1>1, <1>2, MatchKept, PTL DEF MatchSpec

\* The characters of the target that parse_path has not read.
Unparsed == Len(path) - pi

\* Every pass of parse_path ends the loop or reads at least one character of the target,
\* whatever was decoded into the memory it reads from: the passes are at most as many as
\* the target has characters, and one (src/http.c:291-336).
THEOREM PathPassesShrink ==
  PathSpec => /\ [](Unparsed \in Nat)
              /\ [][~parsing' \/ Unparsed' < Unparsed]_pathVars
<1>1. PathInv => Unparsed \in Nat
  BY SMT DEF PathInv, PathTypeOK, UnreadIntact, Unparsed
<1>2. PathInv /\ [PathNext]_pathVars => [~parsing' \/ Unparsed' < Unparsed]_pathVars
  <2> SUFFICES ASSUME PathInv, PathNext PROVE ~parsing' \/ Unparsed' < Unparsed
    BY Zenon
  <2>1. pi \in Nat /\ Len(path) \in Nat
    BY DEF PathInv, PathTypeOK
  <2>2. CASE Query \/ EndOfTarget
    BY <2>2 DEF Query, EndOfTarget
  <2>3. CASE SkipDot \/ SkipSlash
    <3>1. pi' \in {pi + 1, pi + 2} /\ path' = path
      BY <2>3 DEF SkipDot, SkipSlash, Skip
    <3> QED BY <2>1, <3>1 DEF Unparsed
  <2>4. CASE DecodeEscape \/ DecodePlus \/ Copy
    <3>1. /\ pi' \in {pi + 1, pi + 3}
          /\ \E char : path' = [path EXCEPT ![po] = char]
      BY <2>4 DEF DecodeEscape, DecodePlus, Copy, Write
    <3>2. Len(path') = Len(path)
      BY <3>1 DEF PathInv, PathTypeOK
    <3> QED BY <2>1, <3>1, <3>2 DEF Unparsed
  <2> QED BY <2>2, <2>3, <2>4 DEF PathNext
<1> QED BY <1>1, <1>2, PathKept, PTL DEF PathSpec
=============================================================================
