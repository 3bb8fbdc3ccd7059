----------------------------- MODULE MCDhfService -----------------------------
(***************************************************************************)
(* Two files and a directory, each with one name that means the same under *)
(* the base path and as it is.                                             *)
(***************************************************************************)
EXTENDS DhfService

MCNode == {"F", "G", "D"}
MCName == {"f", "g", "d"}
MCBaseOf ==
  [x \in MCName |-> CASE x = "f" -> "F" [] x = "g" -> "G" [] x = "d" -> "D"]
MCInitialFs == [x \in MCNode |-> IF x = "D" THEN "dir" ELSE "file"]

\* Of errno and of an error code only that there is one matters to what follows,
\* and the request last served is the one asked last.
MCServiceView ==
  <<kind, process, errno # OK, result_code # OK, result_len, client, delivery,
    talk, history>>
===============================================================================
