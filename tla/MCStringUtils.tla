----------------------------- MODULE MCStringUtils -----------------------------
(***************************************************************************)
(* All strings of up to MaxLength of four characters.                      *)
(***************************************************************************)
EXTENDS StringUtils

CONSTANTS Backslash, Letter, MaxLength

MCStrings == UNION {[1 .. n -> {Slash, Backslash, Dot, Letter}] : n \in 0 .. MaxLength}
=============================================================================
