------------------------------ MODULE MCDhfHost ------------------------------
(***************************************************************************)
(* A base path with one file, one directory and one free name, the         *)
(* simulator being started in it.  The file and the directory go by        *)
(* relative names, which mean the same under the base path and as they     *)
(* are.  The free name starts with a slash: appended to the base path it   *)
(* is free, as it is it leads out of the base path.                        *)
(***************************************************************************)
EXTENDS DhfHost

MCNode == {"F", "D", "N"}
MCName == {"f", "d", "/n"}
MCBaseOf ==
  [x \in MCName |-> CASE x = "f" -> "F" [] x = "d" -> "D" [] x = "/n" -> "N"]
MCRawOf == [MCBaseOf EXCEPT !["/n"] = Outside]
MCInitialFs ==
  [x \in MCNode |-> CASE x = "F" -> "file" [] x = "D" -> "dir" [] x = "N" -> "absent"]

\* The answer and the request it belongs to are written and never read, and
\* errno is only read to be answered as an error: states that differ in nothing
\* else have successors that differ in nothing else.
MCView == <<kind, process, errno # OK, client, collided>>
==============================================================================
