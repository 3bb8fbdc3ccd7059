------------------------------ MODULE MCQBoot ------------------------------
(***************************************************************************)
(* Two letters: enough for three commands, a variable, and values that     *)
(* fit and that do not.                                                    *)
(***************************************************************************)
EXTENDS PowerOn

MCLetter   == {"b", "s"}
MCBoot     == <<"b">>
MCSetenv   == <<"s">>
MCReset    == <<"s", "s">>
MCVariable == {<<"b">>}
=============================================================================
