----------------------------- MODULE MCDhfPaths -----------------------------
(***************************************************************************)
(* /t holds the base directory b and its neighbour bx, whose name begins   *)
(* with that of b.  b holds a file f and directories d, with a file g, and *)
(* e, which is empty.  bx holds a file h.  The process starts in /t.       *)
(***************************************************************************)
EXTENDS DhfPaths

MCDir       == {"Root", "T", "B", "BX", "D", "E"}
MCNode      == MCDir \cup {"F", "G", "H"}
MCComponent == {"t", "b", "bx", "d", "e", "f", "g", "h", "n"}
MCParent ==
  [x \in MCNode |-> CASE x \in {"Root", "T"} -> "Root" [] x \in {"B", "BX"} -> "T"
                      [] x \in {"D", "E", "F"} -> "B" [] x = "G" -> "D" [] x = "H" -> "BX"]
MCName ==
  [x \in MCNode |-> CASE x = "Root" -> "n" [] x = "T" -> "t" [] x = "B" -> "b"
                      [] x = "BX" -> "bx" [] x = "D" -> "d" [] x = "E" -> "e"
                      [] x = "F" -> "f" [] x = "G" -> "g" [] x = "H" -> "h"]
MCLonger == {<<"bx", "b">>}
MCPath ==
  {<<>>, <<"d">>, <<"e">>, <<"f">>, <<"n">>, <<"d", "g">>, <<"..">>,
   <<"..", "bx">>, <<"..", "bx", "h">>, <<"f", "..">>}
MCAbsolute == [abs |-> TRUE, comps |-> <<"t", "b">>]
MCBase ==
  {MCAbsolute, [abs |-> FALSE, comps |-> <<"b">>], [abs |-> TRUE, comps |-> <<>>]}

\* What a call returned is never read again.
MCView == <<tree, cwd, basepath, streams>>
=============================================================================
