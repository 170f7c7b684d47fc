--------------------------------- MODULE Match --------------------------------
(***************************************************************************)
(* fnmatch of src/utils.c, which decides whether a route is asked about a  *)
(* request: one pass of its loop per step.                                 *)
(***************************************************************************)
EXTENDS Integers, Sequences

CONSTANTS
  Patterns,     \* patterns of routes
  Paths,        \* paths of requests
  Char          \* their characters, "*" and "?" included

ASSUME MatchConstants ==
  /\ Patterns \subseteq Seq(Char)
  /\ Paths \subseteq Seq(Char)

VARIABLES
  pattern, string,  \* the arguments
  p, s,             \* the characters to compare next; Len + 1 is the end
  pl,               \* where to go back to in the pattern, or 0 for NULL
  verdict

matchVars == <<pattern, string, p, s, pl, verdict>>

MatchInit ==
  /\ pattern \in Patterns
  /\ string \in Paths
  /\ p = 1
  /\ s = 1
  /\ pl = 0
  /\ verdict = "none"

\* The pass begins by stepping over a star, which is also the place to go back to.
AtStar == p <= Len(pattern) /\ pattern[p] = "*"
Behind == IF AtStar THEN p + 1 ELSE p
Back   == IF AtStar THEN p + 1 ELSE pl

PatternEnds == Behind > Len(pattern)
StringEnds  == s > Len(string)

\* Mutant of CharsMatch: "?" is a character like any other.
CharsEqual == pattern[Behind] = string[s]

CharsMatch == pattern[Behind] = string[s] \/ pattern[Behind] = "?"

Verdict(v) ==
  /\ verdict' = v
  /\ UNCHANGED <<pattern, string, p, s, pl>>

\* A star that ends the pattern takes the rest.
StarTakesRest ==
  /\ verdict = "none" /\ AtStar /\ PatternEnds
  /\ Verdict("yes")

\* Mutant of AtEnd: the pattern's end decides alone.
AtEndOfPattern ==
  /\ verdict = "none" /\ ~(AtStar /\ PatternEnds)
  /\ PatternEnds \/ StringEnds
  /\ Verdict(IF PatternEnds THEN "yes" ELSE "no")

AtEnd ==
  /\ verdict = "none" /\ ~(AtStar /\ PatternEnds)
  /\ PatternEnds \/ StringEnds
  /\ Verdict(IF PatternEnds /\ StringEnds THEN "yes" ELSE "no")

Comparing == verdict = "none" /\ ~PatternEnds /\ ~StringEnds

BothAdvance ==
  /\ Comparing /\ CharsMatch
  /\ p' = Behind + 1
  /\ s' = s + 1
  /\ pl' = Back
  /\ UNCHANGED <<pattern, string, verdict>>

\* The star takes one more character; the string does not go back.
GoBack ==
  /\ Comparing /\ ~CharsMatch /\ Back # 0
  /\ p' = Back
  /\ s' = s + 1
  /\ pl' = Back
  /\ UNCHANGED <<pattern, string, verdict>>

Mismatch ==
  /\ Comparing /\ ~CharsMatch /\ Back = 0
  /\ Verdict("no")

MatchNext == StarTakesRest \/ AtEnd \/ BothAdvance \/ GoBack \/ Mismatch

MatchSpec == MatchInit /\ [][MatchNext]_matchVars

-----------------------------------------------------------------------------
(* What a glob is: the pattern's characters are given consecutive pieces   *)
(* of the string, f[k] being where the piece of the k-th begins.           *)

MatchTypeOK ==
  /\ pattern \in Seq(Char) /\ string \in Seq(Char)
  /\ p \in 1..(Len(pattern) + 1) /\ s \in 1..(Len(string) + 1)
  /\ pl \in 0..(Len(pattern) + 1)
  /\ verdict \in {"none", "yes", "no"}

\* The first n characters of the pattern match the string up to m.
Aligned(f, n, m) ==
  /\ f[1] = 1 /\ f[n + 1] = m
  /\ \A k \in 1..n :
       IF pattern[k] = "*" THEN f[k] <= f[k + 1]
       ELSE /\ f[k + 1] = f[k] + 1
            /\ f[k] <= Len(string)
            /\ pattern[k] \in {string[f[k]], "?"}

Takes(n, m) == \E f \in [1..(n + 1) -> 1..(Len(string) + 1)] : Aligned(f, n, m)
Glob == Takes(Len(pattern), Len(string) + 1)

\* A route is asked only about paths its pattern matches (src/utils.c:11-42).
OnlyGlobs == verdict = "yes" => Glob

\* A pattern without a star, or with one at its end only, matches all it should.
Plain == \A k \in 1..(Len(pattern) - 1) : pattern[k] # "*"
PlainGlobs == verdict = "no" /\ Plain => ~Glob
=============================================================================
