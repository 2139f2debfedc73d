------------------------------ MODULE StringUtils ------------------------------
(***************************************************************************)
(* Strings are sequences of characters.  The matching, path and splitting  *)
(* functions are operators; the state machine that splits at a character   *)
(* is a machine here as well, run on every string of a set.                *)
(***************************************************************************)
EXTENDS Naturals, Sequences, FiniteSetsExt, SequencesExt

CONSTANTS
  Strings,      \* the strings to be split
  Slashes,      \* "/" and "\\"
  Slash, Dot,   \* characters
  Delimiters    \* characters to split at

ASSUME CharactersAssumption == Slash \in Slashes /\ Dot \notin Slashes

\* What the strings are made of.
Characters == UNION {ToSet(string) : string \in Strings}

ASSUME StringsAssumption == Strings \subseteq Seq(Characters)

VARIABLES
  s, delimiter,      \* the arguments
  state, pos,        \* "normal", "delimiter" or "end"; the next character
  tmp, result

splitVars == <<s, delimiter, state, pos, tmp, result>>

-----------------------------------------------------------------------------
(* Matching and paths.  0 stands for npos, positions begin at 1.           *)

Npos == 0

StartsWith(str, sub) == Len(sub) <= Len(str) /\ SubSeq(str, 1, Len(sub)) = sub
EndWith(str, sub) ==
  Len(sub) <= Len(str) /\ SubSeq(str, Len(str) - Len(sub) + 1, Len(str)) = sub

FindLastOf(str, chars) == Max({Npos} \cup {k \in DOMAIN str : str[k] \in chars})

FilePath(path) ==
  LET p == FindLastOf(path, Slashes) IN
  IF p # Npos THEN SubSeq(path, 1, p - 1) ELSE <<Dot, Slash>>

\* Mutant: a separator at the end is not looked for.
MutantFileNameExt(path) ==
  LET p == FindLastOf(path, Slashes) IN
  IF p # Npos THEN SubSeq(path, p + 1, Len(path)) ELSE path

FileNameExt(path) ==
  LET p == FindLastOf(path, Slashes) IN
  IF p # Npos /\ p < Len(path) THEN SubSeq(path, p + 1, Len(path)) ELSE path

FileName(path) ==
  LET name == FileNameExt(path)
      p == FindLastOf(name, {Dot}) IN
  IF p # Npos /\ p # 1 THEN SubSeq(name, 1, p - 1) ELSE name

\* The whole name if there is no extension.
Extension(path) ==
  LET name == FileNameExt(path)
      p == FindLastOf(name, {Dot}) IN
  IF p # Npos /\ p # 1 /\ p < Len(name) THEN SubSeq(name, p + 1, Len(name)) ELSE name

-----------------------------------------------------------------------------
(* Splitting.                                                              *)

\* The first place, from position from on, where sub begins.
Find(str, sub, from) ==
  LET places == {k \in from .. Len(str) - Len(sub) + 1 :
                   SubSeq(str, k, k + Len(sub) - 1) = sub}
  IN  IF places = {} THEN Npos ELSE Min(places)

\* The pieces between delimiters, also the empty ones, but for an empty one at the end.
SplitString(str, delim) ==
  LET from[last \in 1 .. Len(str) + 1] ==
        LET next == Find(str, delim, last) IN
        IF next # Npos
        THEN <<SubSeq(str, last, next - 1)>> \o from[next + Len(delim)]
        ELSE IF last <= Len(str) THEN <<SubSeq(str, last, Len(str))>> ELSE <<>>
  IN  IF delim = <<>> THEN <<>> ELSE from[1]

SplitInit ==
  /\ s \in Strings /\ delimiter \in Delimiters
  /\ state = "normal" /\ pos = 1
  /\ tmp = <<>> /\ result = <<>>

Normal ==
  /\ state = "normal" /\ pos <= Len(s)
  /\ IF s[pos] = delimiter
     THEN state' = "delimiter" /\ UNCHANGED <<pos, tmp>>
     ELSE tmp' = Append(tmp, s[pos]) /\ pos' = pos + 1 /\ UNCHANGED state
  /\ UNCHANGED <<s, delimiter, result>>

\* Mutant: an empty piece is left out.
MutantDelimiter ==
  /\ state = "delimiter" /\ state' = "normal"
  /\ result' = IF tmp = <<>> THEN result ELSE Append(result, tmp)
  /\ tmp' = <<>>
  /\ pos' = pos + 1
  /\ UNCHANGED <<s, delimiter>>

Delimiter ==
  /\ state = "delimiter" /\ state' = "normal"
  /\ result' = Append(result, tmp)
  /\ tmp' = <<>>
  /\ pos' = pos + 1
  /\ UNCHANGED <<s, delimiter>>

End ==
  /\ state = "normal" /\ pos > Len(s) /\ state' = "end"
  /\ result' = IF tmp # <<>> THEN Append(result, tmp) ELSE result
  /\ UNCHANGED <<s, delimiter, pos, tmp>>

SplitNext == Normal \/ Delimiter \/ End

SplitSpec == SplitInit /\ [][SplitNext]_splitVars
-----------------------------------------------------------------------------
(* Properties.                                                             *)

Joined(pieces, delim) ==
  FlattenSeq([k \in DOMAIN pieces |-> IF k = 1 THEN pieces[k] ELSE delim \o pieces[k]])

\* The state machine and the search agree on every string, and with any delimiter, also
\* one that overlaps itself, no piece has the delimiter in it and the pieces joined are
\* the string again, less a delimiter at its end.
SplitsBack ==
  state = "end" =>
    /\ result = SplitString(s, <<delimiter>>)
    /\ \A a, b \in Delimiters : \A delim \in {<<a>>, <<a, b>>} :
         LET pieces == SplitString(s, delim) IN
         /\ s \in {Joined(pieces, delim), Joined(pieces, delim) \o delim}
         /\ \A k \in DOMAIN pieces : Find(pieces[k], delim, 1) = Npos

\* Directory and file name make the path again, and name and extension the file name,
\* but for a path that ends in a separator, which is its own file name, and a file name
\* that begins or ends with its only dot, which is its own extension.
PathParts ==
  LET name == FileNameExt(s) IN
  /\ EndWith(s, name)
  /\ IF FindLastOf(s, Slashes) \in {Npos, Len(s)}
     THEN name = s
     ELSE \E slash \in Slashes : s = FilePath(s) \o <<slash>> \o name
  /\ FilePath(s) # <<Dot, Slash>> => StartsWith(s, FilePath(s))
  /\ IF Extension(s) = name
     THEN FileName(s) \in {name, Front(name)}
     ELSE name = FileName(s) \o <<Dot>> \o Extension(s)
=============================================================================
