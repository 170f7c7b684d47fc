-------------------------------- MODULE MCText --------------------------------
(***************************************************************************)
(* The functions of the parsers that work on text, for TLC: a behaviour is *)
(* one call of find, findp, fnmatch or parse_path.                         *)
(***************************************************************************)
EXTENDS Find, Match, ParsePath, SequencesExt

textVars == <<findVars, matchVars, pathVars>>

UpTo(S, n) == UNION {[1..k -> S] : k \in 0..n}

\* A space of "\r\n" and of "\r\n\r\n", and needles that begin again in themselves.
MCByte    == {"cr", "lf", "x"}
MCBuffers == UpTo(MCByte, 4)
MCNeedles == {<<"cr", "lf">>, <<"cr", "lf", "cr">>, <<"cr", "cr", "lf">>, <<"x">>}

MCChar     == {"*", "?", "a", "b"}
MCPatterns == UpTo(MCChar, 4)
MCPaths    == UpTo({"a", "b"}, 4)

MCTargets == {<<"/">> \o s4 : s4 \in UpTo(Letter \ {"0"}, 3)}
         \cup {<<"/">> \o s5 : s5 \in UpTo({"/", ".", "x"}, 5)}
         \cup {<<"/", "%", "2", "F">> \o s3 : s3 \in UpTo({"/", ".", "+", "?"}, 2)}
         \cup {<<"/", "%", "0", "0", "x">>}
MCLeftovers == {0, 3}

\* The calls that a behaviour is not about have returned from empty arguments.
FindIdle ==
  /\ buf = <<>> /\ needle = <<"x">> /\ partial = FALSE
  /\ i = 0 /\ j = 0 /\ found = NotFound
MatchIdle ==
  /\ pattern = <<>> /\ string = <<>>
  /\ p = 1 /\ s = 1 /\ pl = 0 /\ verdict = "yes"
PathIdle ==
  /\ given = <<>> /\ path = <<NUL>> /\ pi = 1 /\ po = 1
  /\ path_len = 0 /\ leftover = 0 /\ query = NoQuery /\ query_len = "left"
  /\ parsing = FALSE

Init ==
  \/ FindInit /\ MatchIdle /\ PathIdle
  \/ FindIdle /\ MatchInit /\ PathIdle
  \/ FindIdle /\ MatchIdle /\ PathInit

Next ==
  \/ FindNext /\ UNCHANGED <<matchVars, pathVars>>
  \/ MatchNext /\ UNCHANGED <<findVars, pathVars>>
  \/ PathNext /\ UNCHANGED <<findVars, matchVars>>

Spec == Init /\ [][Next]_textVars /\ WF_textVars(Next)

-----------------------------------------------------------------------------

\* Every call returns: what is not consumed at one pass is at a later one, so that
\* no request makes the worker spin (src/utils.c:11-82, src/http.c:288-340).
Returns == <>[](found # Running /\ verdict # "none" /\ ~parsing)

\* The pieces of a path between its slashes, but for the empty ones.
Segments(str) ==
  LET add(segs, char) ==
        IF char = "/" THEN Append(segs, <<>>)
        ELSE [segs EXCEPT ![Len(segs)] = Append(@, char)]
  IN  SelectSeq(FoldLeft(add, << <<>> >>, str), LAMBDA seg : seg # <<>>)

\* What a target stands for: escapes and "+" decoded, "/." and what follows "?" left out.
Meaning ==
  LET end       == IF Contains(given, "?") THEN SelectInSeq(given, LAMBDA c : c = "?") - 1
                   ELSE Len(given)
      escape(k) == k \in 1..(end - 2) /\ given[k] = "%" /\ {given[k + 1], given[k + 2]} \subseteq Hex
      dot(k)    == /\ k \in 2..end /\ given[k] = "." /\ given[k - 1] = "/"
                   /\ k = Len(given) \/ given[k + 1] = "/"
      left(k)   == escape(k - 1) \/ escape(k - 2) \/ dot(k) \/ dot(k + 1)
      kept      == SelectSeq([k \in 1..end |-> k], LAMBDA k : ~left(k))
  IN  [m \in 1..Len(kept) |->
         CASE escape(kept[m])     -> Unescaped(given[kept[m] + 1], given[kept[m] + 2])
           [] given[kept[m]] = "+" -> "space"
           [] OTHER                -> given[kept[m]]]

\* The bytes of the target that lie behind what was written.  A query's NUL hides them.
Remains == IF query > 0 THEN <<>> ELSE SubSeq(given, po, Len(given))

\* A string of C.
UpToNul(str) == IF Contains(str, NUL) THEN SubSeq(str, 1, SelectInSeq(str, LAMBDA c : c = NUL) - 1)
                ELSE str

\* The path that fnmatch compares with the routes names the segments of the target and,
\* where decoding has shortened a target without a query, as many of its last bytes as it
\* was shortened by, for the second time; ".." is an ordinary segment
\* (src/http.c:288-340, 449).
SameSegments ==
  ~parsing => Segments(UpToNul(path)) = Segments(UpToNul(Meaning \o Remains))
=============================================================================
