------------------------------- MODULE ParsePath ------------------------------
(***************************************************************************)
(* parse_path of src/http.c: the path of a request is decoded where it     *)
(* lies in the session's buffer, by a reading and a writing pointer.  One  *)
(* pass of the loop per step.                                              *)
(*                                                                         *)
(* sess->data is not reset between requests and is a union: path_len and   *)
(* query begin with what the last header or body chunk left there.         *)
(***************************************************************************)
EXTENDS Integers, Sequences

CONSTANTS
  Targets,      \* the request targets: sequences over Letter
  Leftovers     \* what path_len may begin with

NUL   == "nul"
Hex   == {"0", "2", "F"}
Letter == Hex \cup {"/", ".", "+", "?", "%", "x"}

ASSUME ParsePathConstants ==
  /\ Targets \subseteq Seq(Letter)
  /\ Leftovers \subseteq Nat

VARIABLES
  given,        \* history: the target as it was received
  path,         \* the memory from data->path to the first NUL behind it
  pi, po,
  path_len,
  leftover,     \* history: what path_len began with
  query,        \* data->query: a place in path, or one of the two below
  query_len,    \* "left" until it is set
  parsing

pathVars == <<given, path, pi, po, path_len, leftover, query, query_len, parsing>>

NoQuery  == 0   \* NULL
OldValue == -1  \* the value of an earlier header

PathInit ==
  /\ given \in Targets
  /\ path = Append(given, NUL)
  /\ pi = 1
  /\ po = 1
  /\ leftover \in Leftovers
  /\ path_len = leftover
  /\ query \in {NoQuery} \cup (IF leftover > 0 THEN {OldValue} ELSE {})
  /\ query_len = "left"
  /\ parsing = TRUE

At(k) == parsing /\ pi + k <= Len(path)
Ahead(k) == path[pi + k]

\* The two digits of a "%xx", and what they stand for.
Escape == At(2) /\ Ahead(0) = "%" /\ Ahead(1) \in Hex /\ Ahead(2) \in Hex
Unescaped(high, low) ==
  CASE high = "2" /\ low = "F" -> "/"
    [] high = "0" /\ low = "0" -> NUL
    [] OTHER -> "x"

\* "/." before the end or another "/"; *(pi + 1) and *(pi + 2)
DotSegment == At(2) /\ Ahead(0) = "/" /\ Ahead(1) = "." /\ Ahead(2) \in {NUL, "/"}

\* A "/" behind one that was written.  What lies before the path is no "/".
SlashAgain ==
  /\ At(1) /\ Ahead(0) = "/" /\ Ahead(1) # "."
  /\ path_len > 0 /\ po > 1 /\ path[po - 1] = "/"

\* One character is written, and n have been read.
Write(char, n) ==
  /\ path' = [path EXCEPT ![po] = char]
  /\ po' = po + 1
  /\ pi' = pi + n
  /\ path_len' = path_len + 1
  /\ UNCHANGED <<given, leftover, query, query_len, parsing>>

Skip(n) ==
  /\ pi' = pi + n
  /\ UNCHANGED <<given, path, po, path_len, leftover, query, query_len, parsing>>

DecodeEscape == Escape /\ Write(Unescaped(Ahead(1), Ahead(2)), 3)

DecodePlus == At(1) /\ Ahead(0) = "+" /\ Write("space", 1)

\* Mutant of SkipDot: the slash that follows is skipped too.
SkipDotSlash == DotSegment /\ Skip(IF At(3) THEN 3 ELSE 2)

SkipDot == DotSegment /\ Skip(2)

SkipSlash == SlashAgain /\ Skip(1)

\* "/.." is copied too: the test for its end adds 3 to the character '/' and
\* compares the sum, which is never NUL or another '/'.
Copy ==
  /\ At(1) /\ Ahead(0) \notin {"+", "?"}
  /\ ~Escape /\ ~DotSegment /\ ~SlashAgain
  /\ Write(Ahead(0), 1)

\* Mutant of Query: the "?" is not stepped over before the path is cut.
QueryUnread ==
  /\ At(1) /\ Ahead(0) = "?"
  /\ path' = [path EXCEPT ![po] = NUL]
  /\ po' = po + 1
  /\ query' = pi
  /\ parsing' = FALSE
  /\ UNCHANGED <<given, pi, path_len, leftover, query_len>>

\* The function returns here, before query_len is set.
Query ==
  /\ At(1) /\ Ahead(0) = "?"
  /\ path' = [path EXCEPT ![po] = NUL]
  /\ pi' = pi + 1
  /\ po' = po + 1
  /\ query' = pi'
  /\ parsing' = FALSE
  /\ UNCHANGED <<given, path_len, leftover, query_len>>

\* *pi is NUL.  Nothing is written at po.
EndOfTarget ==
  /\ parsing /\ pi = Len(path)
  /\ parsing' = FALSE
  /\ query_len' = IF query # NoQuery THEN "strlen" ELSE query_len
  /\ UNCHANGED <<given, path, pi, po, path_len, leftover, query>>

PathNext ==
  DecodeEscape \/ DecodePlus \/ SkipDot \/ SkipSlash \/ Copy \/ Query \/ EndOfTarget

PathSpec == PathInit /\ [][PathNext]_pathVars

-----------------------------------------------------------------------------
(* What request_begin and the handlers rely on.                            *)

PathTypeOK ==
  /\ given \in Seq(Letter)
  /\ path \in Seq(Letter \cup {NUL, "space"})
  /\ pi \in Nat /\ po \in Nat
  /\ path_len \in Nat /\ leftover \in Nat
  /\ query \in Int
  /\ query_len \in {"left", "strlen"}
  /\ parsing \in BOOLEAN

\* The writing pointer never overtakes the reading one: what was not written over is
\* what the peer sent, and so is all that has not been read, the query string included
\* (src/http.c:291-336).
UnreadIntact ==
  /\ 1 <= po /\ po <= pi /\ pi <= Len(path)
  /\ Len(path) = Len(given) + 1
  /\ \A k \in po..Len(given) : path[k] = given[k]
=============================================================================
