---------------------------- MODULE FileLogProofs -----------------------------
(***************************************************************************)
(* FileLog, for any loggers, rotators and names, and any number of lines   *)
(* and failures.                                                           *)
(***************************************************************************)
EXTENDS FileLog, SequenceTheorems, TLAPS

-----------------------------------------------------------------------------
(* Types.                                                                  *)

LEMMA InitType == Init => TypeOK
<1> SUFFICES ASSUME Init PROVE TypeOK
  OBVIOUS
<1>1. PICK n \in {0, 1} : files = n /\ dir = [a \in Names |-> IF a = Path THEN n ELSE None]
  BY DEF Init
<1>2. /\ files \in Nat /\ 0 \in 0 .. files /\ n \in 0 .. files /\ failures \in 0 .. MaxFailures
      /\ replaced \subseteq 1 .. files
  BY <1>1, LogAssumption, SMT DEF Init
<1>3. dir \in [Names -> 0 .. files]
  BY <1>1, <1>2 DEF None
<1>4. \A a, b \in Names : dir[a] = dir[b] => a = b \/ dir[a] = None
  BY <1>1 DEF None
<1>5. <<>> \in Seq(Nat)
  BY SMT
<1> QED BY <1>2, <1>3, <1>4, <1>5 DEF Init, TypeOK, None

\* After open(2) the name stands for File, what had a name still has it, and names stand
\* for different files.
LEMMA Opened ==
  ASSUME TypeOK, OpenFile
  PROVE  /\ files' \in Nat /\ files <= files'
         /\ File \in 1 .. files'
         /\ dir[Path] # None => File = dir[Path]
         /\ dir[Path] = None => File = files + 1
         /\ dir' \in [Names -> 0 .. files'] /\ dir'[Path] = File
         /\ \A a \in Names : dir[a] # None => dir'[a] = dir[a]
         /\ \A a, b \in Names : dir'[a] = dir'[b] => a = b \/ dir'[a] = None
<1>1. /\ files \in Nat /\ dir \in [Names -> 0 .. files] /\ Path \in Names
      /\ dir' = [dir EXCEPT ![Path] = File]
      /\ \A a, b \in Names : dir[a] = dir[b] => a = b \/ dir[a] = None
  BY DEF TypeOK, OpenFile, Names
<1>2. CASE dir[Path] = None
  <2>1. files' = files + 1 /\ File = files + 1
    BY <1>2 DEF OpenFile, File
  <2>2. files' \in Nat /\ files <= files' /\ File \in 1 .. files' /\ File \in 0 .. files'
        /\ File # None /\ \A f \in 0 .. files : f \in 0 .. files' /\ f # File
    BY <1>1, <2>1, SMT DEF None
  <2> HIDE DEF File
  <2>3. dir' \in [Names -> 0 .. files'] /\ dir'[Path] = File
        /\ \A a \in Names : a # Path => dir'[a] = dir[a]
    BY <1>1, <2>2
  <2> QED BY <1>1, <1>2, <2>1, <2>2, <2>3
<1>3. CASE dir[Path] # None
  <2>1. files' = files /\ File = dir[Path]
    BY <1>3 DEF OpenFile, File
  <2>2. dir[Path] \in 1 .. files /\ files <= files
    BY <1>1, <1>3, SMT DEF None
  <2>3. dir' = dir
    BY <1>1, <2>1
  <2> QED BY <1>1, <1>3, <2>1, <2>2, <2>3
<1> QED BY <1>2, <1>3

\* What is a file stays one when there are more of them.
LEMMA Growing ==
  ASSUME TypeOK, files' \in Nat, files <= files'
  PROVE  /\ 0 .. files \subseteq 0 .. files' /\ replaced \subseteq 1 .. files'
         /\ desc \in 0 .. files' /\ fresh \in [Rotators -> 0 .. files']
         /\ target \in [Loggers -> 0 .. files']
<1>1. files \in Nat BY DEF TypeOK
<1>2. 0 .. files \subseteq 0 .. files' /\ 1 .. files \subseteq 1 .. files' BY <1>1, SMT
<1> QED BY <1>2 DEF TypeOK

LEMMA NextType == TypeOK /\ [Next]_vars => TypeOK'
<1> SUFFICES ASSUME TypeOK, [Next]_vars PROVE TypeOK'
  OBVIOUS
<1>0. ASSUME Fails PROVE failures' \in 0 .. MaxFailures
  BY <1>0, LogAssumption, SMT DEF Fails, TypeOK
<1>1. CASE Open
  <2>1. CASE OpenFile /\ desc' = File /\ opened' = TRUE /\ UNCHANGED failures
    <3>1. /\ files' \in Nat /\ files <= files' /\ File \in 0 .. files'
          /\ dir' \in [Names -> 0 .. files']
          /\ \A a, b \in Names : dir'[a] = dir'[b] => a = b \/ dir'[a] = None
      <4>1. files' \in Nat /\ File \in 1 .. files' => File \in 0 .. files' BY SMT
      <4> QED BY <2>1, <4>1, Opened
    <3>2. /\ fresh \in [Rotators -> 0 .. files'] /\ target \in [Loggers -> 0 .. files']
          /\ replaced \subseteq 1 .. files'
      BY <3>1, Growing
    <3> QED BY <1>1, <2>1, <3>1, <3>2 DEF Open, history, rotation, logging, TypeOK
  <2>2. CASE Fails /\ UNCHANGED <<desc, dir, files, opened>>
    BY <1>0, <1>1, <2>2 DEF Open, history, rotation, logging, TypeOK
  <2> QED BY <1>1, <2>1, <2>2 DEF Open
<1>2. ASSUME NEW l \in Loggers, WriteLog(l) PROVE TypeOK'
  <2>1. Stdout \in 0 .. files BY SMT DEF Stdout, TypeOK
  <2> QED BY <1>2, <2>1 DEF WriteLog, history, rotation, TypeOK
<1>3. ASSUME NEW l \in Loggers, FindFile(l) PROVE TypeOK'
  BY <1>3 DEF FindFile, history, rotation, TypeOK
<1>4. ASSUME NEW l \in Loggers, AppendLine(l) PROVE TypeOK'
  <2>1. target[l] \in Nat BY SMT DEF TypeOK
  <2>2. Append(lines[l], target[l]) \in Seq(Nat)
    BY <2>1, AppendProperties DEF TypeOK
  <2> QED BY <1>4, <2>2 DEF AppendLine, history, rotation, TypeOK
<1>5. ASSUME NEW r \in Rotators, NEW name \in Archive, Rotate(r, name) PROVE TypeOK'
  <2>1. None \in 0 .. files BY SMT DEF None, TypeOK
  <2>2. /\ Path \in Names /\ name \in Names /\ name # Path
    BY LogAssumption DEF Names
  <2>3. /\ dir'[name] = dir[Path] /\ dir'[Path] = None
        /\ \A a \in Names : a \notin {name, Path} => dir'[a] = dir[a]
        /\ dir' \in [Names -> 0 .. files]
    BY <1>5, <2>1, <2>2 DEF Rotate, TypeOK
  <2>4. \A a, b \in Names : dir'[a] = dir'[b] => a = b \/ dir'[a] = None
    BY <2>2, <2>3 DEF TypeOK
  <2>5. rot' \in [Rotators -> {"out", "open", "dup2"}]
    BY <1>5 DEF Rotate, TypeOK
  <2>6. overlapped' \in BOOLEAN /\ replaced' \subseteq 1 .. files
    <3>1. replaced' = replaced \cup ({dir[name]} \ {None}) /\ dir[name] \in 0 .. files
      BY <1>5, <2>2 DEF Rotate, TypeOK
    <3>2. files \in Nat /\ replaced \subseteq 1 .. files
      BY DEF TypeOK
    <3>3. {dir[name]} \ {None} \subseteq 1 .. files
      BY <3>1, <3>2, SMT DEF None
    <3>4. overlapped' \in BOOLEAN
      BY <1>5 DEF Rotate
    <3> QED BY <3>1, <3>2, <3>3, <3>4
  <2> QED BY <1>5, <2>3, <2>4, <2>5, <2>6 DEF Rotate, logging, TypeOK
<1>6. ASSUME NEW r \in Rotators, Reopen(r) PROVE TypeOK'
  <2>1. CASE OpenFile /\ fresh' = [fresh EXCEPT ![r] = File]
             /\ rot' = [rot EXCEPT ![r] = "dup2"] /\ UNCHANGED <<failures, stranded>>
    <3>1. /\ files' \in Nat /\ files <= files' /\ File \in 0 .. files'
          /\ dir' \in [Names -> 0 .. files']
          /\ \A a, b \in Names : dir'[a] = dir'[b] => a = b \/ dir'[a] = None
      <4>1. files' \in Nat /\ File \in 1 .. files' => File \in 0 .. files' BY SMT
      <4> QED BY <2>1, <4>1, Opened
    <3>2. /\ desc \in 0 .. files' /\ fresh \in [Rotators -> 0 .. files']
          /\ target \in [Loggers -> 0 .. files'] /\ replaced \subseteq 1 .. files'
      BY <3>1, Growing
    <3>3. fresh' \in [Rotators -> 0 .. files']
      BY <2>1, <3>1, <3>2
    <3> QED BY <1>6, <2>1, <3>1, <3>2, <3>3 DEF Reopen, logging, TypeOK
  <2>2. CASE Fails /\ stranded' = TRUE /\ rot' = [rot EXCEPT ![r] = "out"]
             /\ UNCHANGED <<dir, files, fresh>>
    BY <1>0, <1>6, <2>2 DEF Reopen, logging, TypeOK
  <2> QED BY <1>6, <2>1, <2>2 DEF Reopen
<1>7. ASSUME NEW r \in Rotators, Dup2(r) PROVE TypeOK'
  BY <1>7 DEF Dup2, history, logging, TypeOK
<1>8. CASE UNCHANGED vars
  BY <1>8 DEF vars, history, rotation, logging, TypeOK
<1> QED BY <1>1, <1>2, <1>3, <1>4, <1>5, <1>6, <1>7, <1>8 DEF Next

-----------------------------------------------------------------------------
(* No line is lost, but in a file that was replaced.                      *)

\* The standard output, or a file that has a name or had one that was given to another.
Named(f) == f = None \/ f \in replaced \/ \E a \in Names : dir[a] = f

(***************************************************************************)
(* Everything that a line may still go to, or has gone to, is named: a     *)
(* step takes away the last name of a file only to give it to another, and *)
(* a file without one never gets it back.                                  *)
(***************************************************************************)
NamedInv ==
  /\ \A a \in Names : dir[a] \notin replaced
  /\ Named(desc)
  /\ \A r \in Rotators : Named(fresh[r])
  /\ \A l \in Loggers : Named(target[l])
  /\ \A l \in Loggers : \A k \in DOMAIN lines[l] : Named(lines[l][k])

LEMMA InitNamed == Init => NamedInv
<1>1. DOMAIN <<>> = {} BY SMT
<1> QED BY <1>1 DEF Init, NamedInv, Named

\* The same of the state after a step.
NamedThen(f) == f = None \/ f \in replaced' \/ \E a \in Names : dir'[a] = f

\* How a step changes names: not at all, or as open(2) or rename(2) does.
LEMMA NameCases ==
  ASSUME [Next]_vars
  PROVE  \/ OpenFile /\ replaced' = replaced
         \/ dir' = dir /\ replaced' = replaced
         \/ \E r \in Rotators, name \in Archive : Rotate(r, name)
<1>1. CASE Next
  BY <1>1 DEF Next, Open, WriteLog, FindFile, AppendLine, Reopen, Dup2, history
<1>2. CASE UNCHANGED vars
  BY <1>2 DEF vars, history
<1> QED BY <1>1, <1>2

\* What rename(2) does to names.
LEMMA Renamed ==
  ASSUME TypeOK, NEW r \in Rotators, NEW name \in Archive, Rotate(r, name)
  PROVE  /\ Path \in Names /\ name \in Names /\ name # Path
         /\ dir'[name] = dir[Path] /\ dir'[Path] = None /\ dir[Path] # None
         /\ \A b \in Names : b \notin {name, Path} => dir'[b] = dir[b]
         /\ replaced' = replaced \cup ({dir[name]} \ {None})
<1>1. /\ Path \in Names /\ name \in Names /\ name # Path
      /\ dir' = [dir EXCEPT ![name] = dir[Path], ![Path] = None]
      /\ replaced' = replaced \cup ({dir[name]} \ {None}) /\ dir[Path] # None
  BY LogAssumption DEF Names, Rotate
<1>2. DOMAIN dir = Names BY DEF TypeOK
<1> QED BY <1>1, <1>2

\* What has a name before a step has one afterwards, or is replaced in it.
LEMMA StillNamed ==
  ASSUME TypeOK, [Next]_vars
  PROVE  \A f \in Nat : Named(f) => NamedThen(f)
<1> SUFFICES ASSUME NEW f \in Nat, Named(f) PROVE NamedThen(f)
  OBVIOUS
<1>1. CASE OpenFile /\ replaced' = replaced
  <2>1. \A a \in Names : dir[a] # None => dir'[a] = dir[a] BY <1>1, Opened
  <2> QED BY <1>1, <2>1 DEF Named, NamedThen
<1>2. ASSUME NEW r \in Rotators, NEW name \in Archive, Rotate(r, name) PROVE NamedThen(f)
  BY <1>2, Renamed DEF Named, NamedThen
<1>3. CASE dir' = dir /\ replaced' = replaced
  BY <1>3 DEF Named, NamedThen
<1> QED BY <1>1, <1>2, <1>3, NameCases

\* What was replaced has no name, and gets none.
LEMMA StaysReplaced ==
  ASSUME TypeOK, NamedInv, [Next]_vars
  PROVE  \A a \in Names : dir'[a] \notin replaced'
<1>1. \A a \in Names : dir[a] \notin replaced
  BY DEF NamedInv
<1>2. files \in Nat /\ replaced \subseteq 1 .. files
  BY DEF TypeOK
<1>3. files + 1 \notin replaced /\ None \notin replaced
  BY <1>2, SMT DEF None
<1>4. CASE OpenFile /\ replaced' = replaced
  <2>1. File \notin replaced
    <3>1. CASE dir[Path] = None
      BY <1>3, <1>4, <3>1, Opened
    <3>2. CASE dir[Path] # None
      <4>1. File = dir[Path] BY <1>4, <3>2, Opened
      <4> QED BY <1>1, <4>1 DEF Names
    <3> QED BY <3>1, <3>2
  <2>2. dir' = [dir EXCEPT ![Path] = File] /\ DOMAIN dir = Names
    BY <1>4 DEF OpenFile, TypeOK
  <2> HIDE DEF File
  <2> QED BY <1>1, <1>4, <2>1, <2>2
<1>5. ASSUME NEW r \in Rotators, NEW name \in Archive, Rotate(r, name)
      PROVE  \A a \in Names : dir'[a] \notin replaced'
  <2>1. \A a, b \in Names : dir[a] = dir[b] => a = b \/ dir[a] = None
    BY DEF TypeOK
  <2> SUFFICES ASSUME NEW a \in Names, dir'[a] \in replaced' PROVE FALSE
    OBVIOUS
  <2>2. CASE a = Path
    BY <1>3, <1>5, <2>2, Renamed
  <2>3. CASE a = name
    BY <1>1, <1>5, <2>1, <2>3, Renamed
  <2>4. CASE a \notin {name, Path}
    BY <1>1, <1>5, <2>1, <2>4, Renamed
  <2> QED BY <2>2, <2>3, <2>4
<1>6. CASE dir' = dir /\ replaced' = replaced
  BY <1>1, <1>6
<1> QED BY <1>4, <1>5, <1>6, NameCases

\* The file that open(2) has returned has a name.
LEMMA OpenedNamed == TypeOK /\ OpenFile => NamedThen(File)
<1> SUFFICES ASSUME TypeOK, OpenFile PROVE NamedThen(File)
  OBVIOUS
<1>1. dir'[Path] = File /\ Path \in Names
  BY Opened DEF Names
<1> QED BY <1>1 DEF NamedThen

\* So only what a step puts in the place of something is to be looked at.
LEMMA NamedAfter ==
  ASSUME TypeOK, NamedInv, [Next]_vars,
         desc' = desc \/ NamedThen(desc'),
         \A r \in Rotators : fresh'[r] = fresh[r] \/ NamedThen(fresh'[r]),
         \A l \in Loggers : target'[l] = target[l] \/ NamedThen(target'[l]),
         \A l \in Loggers : \A k \in DOMAIN lines'[l] :
           \/ k \in DOMAIN lines[l] /\ lines'[l][k] = lines[l][k]
           \/ NamedThen(lines'[l][k])
  PROVE  NamedInv'
<1>1. \A f \in Nat : Named(f) => NamedThen(f) BY StillNamed
<1>2. files \in Nat /\ \A f \in 0 .. files : f \in Nat BY SMT DEF TypeOK
<1>3. NamedThen(desc')
  BY <1>1, <1>2 DEF NamedInv, TypeOK
<1>4. ASSUME NEW r \in Rotators PROVE NamedThen(fresh'[r])
  BY <1>1, <1>2 DEF NamedInv, TypeOK
<1>5. ASSUME NEW l \in Loggers PROVE NamedThen(target'[l])
  BY <1>1, <1>2 DEF NamedInv, TypeOK
<1>6. ASSUME NEW l \in Loggers, NEW k \in DOMAIN lines'[l] PROVE NamedThen(lines'[l][k])
  <2>1. CASE k \in DOMAIN lines[l] /\ lines'[l][k] = lines[l][k]
    <3>1. lines[l][k] \in Nat
      <4>1. lines[l] \in Seq(Nat) BY DEF TypeOK
      <4> QED BY <2>1, <4>1, SMT
    <3> QED BY <1>1, <2>1, <3>1 DEF NamedInv
  <2> QED BY <2>1
<1> QED BY <1>3, <1>4, <1>5, <1>6, StaysReplaced DEF NamedInv, Named, NamedThen

LEMMA NextNamed == TypeOK /\ NamedInv /\ [Next]_vars => NamedInv'
<1> SUFFICES ASSUME TypeOK, NamedInv, [Next]_vars PROVE NamedInv'
  OBVIOUS
<1>0. \A f \in Nat : Named(f) => NamedThen(f) BY StillNamed
<1>a. files \in Nat /\ \A f \in 0 .. files : f \in Nat BY SMT DEF TypeOK
<1>1. CASE Open
  <2>1. desc' = desc \/ NamedThen(desc')
    BY <1>1, OpenedNamed DEF Open
  <2> QED BY <1>1, <2>1, NamedAfter DEF Open, history, rotation, logging
<1>2. ASSUME NEW l \in Loggers, WriteLog(l) PROVE NamedInv'
  <2>1. \A m \in Loggers : target'[m] = target[m] \/ NamedThen(target'[m])
    BY <1>2 DEF WriteLog, TypeOK, NamedThen, Stdout, None
  <2> QED BY <1>2, <2>1, NamedAfter DEF WriteLog, history, rotation
<1>3. ASSUME NEW l \in Loggers, FindFile(l) PROVE NamedInv'
  <2>1. NamedThen(desc)
    BY <1>0, <1>a DEF NamedInv, TypeOK
  <2>2. \A m \in Loggers : target'[m] = target[m] \/ NamedThen(target'[m])
    BY <1>3, <2>1 DEF FindFile, TypeOK
  <2> QED BY <1>3, <2>2, NamedAfter DEF FindFile, history, rotation
<1>4. ASSUME NEW l \in Loggers, AppendLine(l) PROVE NamedInv'
  <2>1. NamedThen(target[l]) /\ target[l] \in Nat /\ lines[l] \in Seq(Nat)
    BY <1>0, <1>a DEF NamedInv, TypeOK
  <2>2. /\ lines'[l] = Append(lines[l], target[l])
        /\ \A m \in Loggers : m # l => lines'[m] = lines[m]
    BY <1>4 DEF AppendLine, TypeOK
  <2>3. \A k \in DOMAIN lines'[l] :
          \/ k \in DOMAIN lines[l] /\ lines'[l][k] = lines[l][k]
          \/ lines'[l][k] = target[l]
    <3> DEFINE s == lines[l]
               x == target[l]
    <3> HIDE DEF s, x
    <3>1. \A k \in DOMAIN Append(s, x) :
            (k \in DOMAIN s /\ Append(s, x)[k] = s[k]) \/ Append(s, x)[k] = x
      BY <2>1, SMT DEF s, x
    <3> QED BY <2>2, <3>1 DEF s, x
  <2>4. \A m \in Loggers : \A k \in DOMAIN lines'[m] :
          \/ k \in DOMAIN lines[m] /\ lines'[m][k] = lines[m][k]
          \/ NamedThen(lines'[m][k])
    BY <2>1, <2>2, <2>3
  <2> QED BY <1>4, <2>4, NamedAfter DEF AppendLine, history, rotation
<1>5. ASSUME NEW r \in Rotators, NEW name \in Archive, Rotate(r, name) PROVE NamedInv'
  BY <1>5, NamedAfter DEF Rotate, logging
<1>6. ASSUME NEW r \in Rotators, Reopen(r) PROVE NamedInv'
  <2>1. \A s \in Rotators : fresh'[s] = fresh[s] \/ NamedThen(fresh'[s])
    BY <1>6, OpenedNamed DEF Reopen, TypeOK
  <2> QED BY <1>6, <2>1, NamedAfter DEF Reopen, logging
<1>7. ASSUME NEW r \in Rotators, Dup2(r) PROVE NamedInv'
  <2>1. NamedThen(fresh[r])
    BY <1>0, <1>a DEF NamedInv, TypeOK
  <2>2. desc' = desc \/ NamedThen(desc')
    BY <1>7, <2>1 DEF Dup2
  <2> QED BY <1>7, <2>2, NamedAfter DEF Dup2, logging
<1>8. CASE UNCHANGED vars
  BY <1>8, NamedAfter DEF vars, history, rotation, logging
<1> QED BY <1>1, <1>2, <1>3, <1>4, <1>5, <1>6, <1>7, <1>8 DEF Next

-----------------------------------------------------------------------------
(* The order of lines, as long as rotations do not overlap.                *)

\* Only one rotator is under way, and the file it has opened is the current one.
Turns ==
  /\ \A r, s \in Rotators : rot[r] # "out" /\ rot[s] # "out" => r = s
  /\ \A r \in Rotators : rot[r] = "dup2" => fresh[r] = dir[Path] /\ fresh[r] # None

\* A descriptor is given ever later files, and the file of the name is the last.
Ascending ==
  /\ ~ opened => desc = None
  /\ dir[Path] # None => desc <= dir[Path]

\* What has been written does not go beyond what is about to be written, nor that
\* beyond the descriptor.
Behind ==
  \A l \in Loggers :
    /\ target[l] <= desc
    /\ \A k \in DOMAIN lines[l] :
         lines[l][k] <= desc /\ (write[l] = "write" => lines[l][k] <= target[l])

OrderInv == ~ overlapped => Turns /\ CurrentFile /\ Ascending /\ Behind /\ FilesInOrder

LEMMA InitOrder == Init => OrderInv
<1> SUFFICES ASSUME Init PROVE OrderInv
  OBVIOUS
<1>1. PICK n \in {0, 1} : files = n /\ dir = [a \in Names |-> IF a = Path THEN n ELSE None]
  BY DEF Init
<1>2. DOMAIN <<>> = {} /\ Len(<<>>) = 0 /\ 2 .. 0 = {} /\ 0 <= 0 BY SMT
<1>3. Turns /\ CurrentFile BY DEF Init, Turns, CurrentFile
<1>4. Ascending
  <2>1. dir[Path] = n BY <1>1 DEF Names
  <2>2. 0 <= n BY SMT
  <2> QED BY <2>1, <2>2 DEF Init, Ascending, None
<1>5. Behind BY <1>2 DEF Init, Behind, None
<1>6. FilesInOrder BY <1>2 DEF Init, FilesInOrder
<1> QED BY <1>3, <1>4, <1>5, <1>6 DEF OrderInv

\* Lines that are not touched stay in order when the descriptor is given no earlier file.
LEMMA BehindAfter ==
  ASSUME TypeOK, TypeOK', desc <= desc', logging' = logging, Behind, FilesInOrder,
         ~ overlapped
  PROVE  Behind' /\ FilesInOrder'
<1>1. UNCHANGED <<write, target, lines>>
  BY DEF logging
<1>2. desc \in Nat /\ desc' \in Nat BY SMT DEF TypeOK
<1>3. ASSUME NEW l \in Loggers
      PROVE  /\ target[l] <= desc'
             /\ \A k \in DOMAIN lines[l] : lines[l][k] <= desc'
  <2>1. target[l] \in Nat BY SMT DEF TypeOK
  <2>2. \A k \in DOMAIN lines[l] : lines[l][k] \in Nat
    <3>1. lines[l] \in Seq(Nat) BY DEF TypeOK
    <3> QED BY <3>1, SMT
  <2> QED BY <1>2, <2>1, <2>2, SMT DEF Behind
<1>4. Behind' BY <1>1, <1>3 DEF Behind
<1>5. FilesInOrder' BY <1>1 DEF FilesInOrder
<1> QED BY <1>4, <1>5

LEMMA OpenOrder == TypeOK /\ TypeOK' /\ OrderInv /\ Open => OrderInv'
<1> SUFFICES ASSUME TypeOK, TypeOK', OrderInv, Open, ~ overlapped' PROVE OrderInv'
  BY DEF OrderInv
<1>1. Turns /\ CurrentFile /\ Ascending /\ Behind /\ FilesInOrder /\ ~ overlapped
  BY DEF OrderInv, Open, history
<1>2. CASE OpenFile /\ desc' = File /\ opened' = TRUE /\ UNCHANGED failures
  <2>1. /\ dir'[Path] = File /\ File \in Nat /\ File # None
        /\ dir[Path] # None => File = dir[Path]
    <3>1. files' \in Nat /\ File \in 1 .. files' => File \in Nat /\ File # 0 BY SMT
    <3> QED BY <1>2, <3>1, Opened DEF None
  <2>2. desc = 0 /\ 0 <= File /\ File <= File BY <1>1, <2>1, SMT DEF Open, Ascending, None
  <2>3. Turns' BY <1>1, <2>1 DEF Open, rotation, Turns
  <2>4. CurrentFile' /\ Ascending' BY <1>2, <2>1, <2>2 DEF CurrentFile, Ascending
  <2>5. Behind' /\ FilesInOrder' BY <1>1, <1>2, <2>2, BehindAfter DEF Open
  <2> QED BY <2>3, <2>4, <2>5 DEF OrderInv
<1>3. CASE Fails /\ UNCHANGED <<desc, dir, files, opened>>
  BY <1>1, <1>3 DEF Open, history, rotation, logging, OrderInv, Turns, CurrentFile, Ascending,
                    Behind, FilesInOrder
<1> QED BY <1>2, <1>3 DEF Open

LEMMA WriteOrder ==
  ASSUME TypeOK, OrderInv, NEW l \in Loggers, WriteLog(l) \/ FindFile(l) \/ AppendLine(l)
  PROVE  OrderInv'
<1> SUFFICES ASSUME ~ overlapped' PROVE OrderInv'
  BY DEF OrderInv
<1>0. UNCHANGED <<opened, desc, dir, rot, fresh, overlapped, stranded>>
  BY DEF WriteLog, FindFile, AppendLine, rotation, history
<1>1. Turns /\ CurrentFile /\ Ascending /\ Behind /\ FilesInOrder /\ ~ overlapped
  BY <1>0 DEF OrderInv
<1>2. (Turns /\ CurrentFile /\ Ascending)'
  BY <1>0, <1>1 DEF Turns, CurrentFile, Ascending
<1>3. /\ desc \in Nat /\ lines[l] \in Seq(Nat) /\ target[l] \in Nat
      /\ target[l] <= desc
      /\ \A k \in DOMAIN lines[l] :
           lines[l][k] <= desc /\ (write[l] = "write" => lines[l][k] <= target[l])
  <2>1. desc \in Nat BY SMT DEF TypeOK
  <2>2. target[l] \in Nat BY SMT DEF TypeOK
  <2> QED BY <1>1, <2>1, <2>2 DEF TypeOK, Behind
<1>4. CASE WriteLog(l)
  <2>1. /\ UNCHANGED lines /\ target'[l] = 0 /\ 0 <= desc
        /\ write'[l] = IF opened THEN "fd" ELSE "write"
        /\ \A m \in Loggers : m # l => target'[m] = target[m] /\ write'[m] = write[m]
    BY <1>3, <1>4 DEF WriteLog, TypeOK, Stdout
  <2>2. ~ opened => desc = 0 BY <1>1 DEF Ascending, None
  <2>3. Behind' BY <1>0, <1>1, <1>3, <2>1, <2>2 DEF Behind
  <2>4. FilesInOrder' BY <1>1, <2>1 DEF FilesInOrder
  <2> QED BY <1>2, <2>3, <2>4 DEF OrderInv
<1>5. CASE FindFile(l)
  <2>1. /\ UNCHANGED lines /\ target'[l] = desc /\ desc <= desc
        /\ \A m \in Loggers : m # l => target'[m] = target[m] /\ write'[m] = write[m]
    BY <1>3, <1>5, SMT DEF FindFile, TypeOK
  <2>2. Behind' BY <1>0, <1>1, <2>1 DEF Behind
  <2>3. FilesInOrder' BY <1>1, <2>1 DEF FilesInOrder
  <2> QED BY <1>2, <2>2, <2>3 DEF OrderInv
<1>6. CASE AppendLine(l)
  <2>1. /\ UNCHANGED target /\ write[l] = "write" /\ write'[l] = "out"
        /\ lines'[l] = Append(lines[l], target[l])
        /\ \A m \in Loggers : m # l => lines'[m] = lines[m] /\ write'[m] = write[m]
    BY <1>6 DEF AppendLine, TypeOK
  <2> DEFINE s == lines[l]
             x == target[l]
             t == Append(s, x)
  <2>2. /\ s \in Seq(Nat) /\ x \in Nat /\ x <= desc
        /\ \A k \in DOMAIN s : s[k] <= desc /\ s[k] <= x
        /\ \A k \in 2 .. Len(s) : s[k - 1] <= s[k]
    BY <1>1, <1>3, <2>1 DEF FilesInOrder
  <2> HIDE DEF s, x
  <2>3. /\ \A k \in DOMAIN t : t[k] <= desc
        /\ \A k \in 2 .. Len(t) : t[k - 1] <= t[k]
    <3>1. /\ Len(t) = Len(s) + 1 /\ DOMAIN t = 1 .. Len(t) /\ DOMAIN s = 1 .. Len(s)
          /\ Len(s) \in Nat
          /\ \A k \in 1 .. Len(s) : t[k] = s[k]
          /\ t[Len(s) + 1] = x
      BY <2>2, SMT
    <3>2. desc \in Nat /\ \A k \in 1 .. Len(s) : s[k] \in Nat
      BY <1>3, <2>2, <3>1
    <3> HIDE DEF t
    <3>3. ASSUME NEW k \in DOMAIN t PROVE t[k] <= desc
      <4>1. CASE k \in 1 .. Len(s) BY <2>2, <3>1, <4>1
      <4>2. CASE k = Len(s) + 1 BY <2>2, <3>1, <4>2
      <4>3. k \in 1 .. Len(s) \/ k = Len(s) + 1 BY <3>1, SMT
      <4> QED BY <4>1, <4>2, <4>3
    <3>4. ASSUME NEW k \in 2 .. Len(t) PROVE t[k - 1] <= t[k]
      <4>1. CASE k \in 2 .. Len(s)
        <5>1. k \in 1 .. Len(s) /\ k - 1 \in 1 .. Len(s) BY <3>1, <4>1, SMT
        <5>2. t[k] = s[k] /\ t[k - 1] = s[k - 1] BY <3>1, <5>1
        <5>3. s[k - 1] <= s[k] BY <2>2, <4>1
        <5> QED BY <5>2, <5>3
      <4>2. CASE k = Len(s) + 1
        <5>1. k - 1 = Len(s) /\ k - 1 \in 1 .. Len(s) BY <3>1, <3>4, <4>2, SMT
        <5>2. t[k] = x /\ t[k - 1] = s[k - 1] BY <3>1, <4>2, <5>1
        <5>3. s[k - 1] <= x BY <2>2, <3>1, <5>1
        <5> QED BY <5>2, <5>3
      <4>3. k \in 2 .. Len(s) \/ k = Len(s) + 1 BY <3>1, <3>4, SMT
      <4> QED BY <4>1, <4>2, <4>3
    <3> QED BY <3>3, <3>4
  <2>4. Behind'
    BY <1>0, <1>1, <1>3, <2>1, <2>3 DEF Behind, s, x
  <2>5. FilesInOrder'
    BY <1>1, <2>1, <2>3 DEF FilesInOrder, s, x
  <2> QED BY <1>2, <2>4, <2>5 DEF OrderInv
<1> QED BY <1>4, <1>5, <1>6

LEMMA RotateOrder ==
  ASSUME TypeOK, TypeOK', OrderInv, NEW r \in Rotators,
         (\E name \in Archive : Rotate(r, name)) \/ Reopen(r) \/ Dup2(r)
  PROVE  OrderInv'
<1> SUFFICES ASSUME ~ overlapped' PROVE OrderInv'
  BY DEF OrderInv
<1>0. ~ overlapped
  <2>1. CASE \E name \in Archive : Rotate(r, name) BY <2>1 DEF Rotate
  <2>2. CASE Reopen(r) BY <2>2 DEF Reopen
  <2>3. CASE Dup2(r) BY <2>3 DEF Dup2, history
  <2> QED BY <2>1, <2>2, <2>3
<1>1. Turns /\ CurrentFile /\ Ascending /\ Behind /\ FilesInOrder
  BY <1>0 DEF OrderInv
<1>2. desc \in Nat /\ desc <= desc BY SMT DEF TypeOK
<1>3. ASSUME NEW name \in Archive, Rotate(r, name) PROVE OrderInv'
  <2>1. /\ rot'[r] = "open"
        /\ \A s \in Rotators : s # r => rot[s] = "out" /\ rot'[s] = rot[s]
        /\ UNCHANGED <<opened, desc, fresh, stranded>> /\ logging' = logging
    BY <1>3 DEF Rotate, TypeOK
  <2>2. dir'[Path] = None
    BY <1>3, LogAssumption DEF Rotate, TypeOK, Names
  <2>3. Turns' BY <2>1 DEF Turns
  <2>4. CurrentFile' BY <2>1 DEF CurrentFile
  <2>5. Ascending' BY <1>1, <2>1, <2>2 DEF Ascending
  <2>6. Behind' /\ FilesInOrder' BY <1>0, <1>1, <1>2, <2>1, BehindAfter
  <2> QED BY <2>3, <2>4, <2>5, <2>6 DEF OrderInv
<1>4. CASE Reopen(r)
  <2>0. UNCHANGED <<opened, desc>> /\ logging' = logging
    BY <1>4 DEF Reopen
  <2>1. Behind' /\ FilesInOrder' BY <1>0, <1>1, <1>2, <2>0, BehindAfter
  <2>2. CASE OpenFile /\ fresh' = [fresh EXCEPT ![r] = File]
             /\ rot' = [rot EXCEPT ![r] = "dup2"]
    <3>1. /\ dir'[Path] = File /\ File # None /\ desc <= File
      <4>1. /\ files \in Nat /\ desc <= files
        BY SMT DEF TypeOK
      <4>2. CASE dir[Path] = None
        <5>1. File = files + 1 /\ dir'[Path] = File BY <2>2, <4>2, Opened
        <5> HIDE DEF File
        <5> QED BY <1>2, <4>1, <5>1, SMT DEF None
      <4>3. CASE dir[Path] # None
        BY <1>1, <2>2, <4>3, Opened DEF Ascending
      <4> QED BY <4>2, <4>3
    <3>2. /\ rot'[r] = "dup2" /\ fresh'[r] = File
          /\ \A s \in Rotators : s # r => rot'[s] = rot[s] /\ fresh'[s] = fresh[s]
      BY <2>2 DEF TypeOK
    <3>3. rot[r] = "open" BY <1>4 DEF Reopen
    <3>4. \A s \in Rotators : s # r => rot[s] = "out"
      BY <1>1, <3>3 DEF Turns
    <3>5. Turns' BY <3>1, <3>2, <3>4 DEF Turns
    <3>6. CurrentFile' BY <3>2 DEF CurrentFile
    <3>7. Ascending' BY <1>1, <2>0, <3>1 DEF Ascending
    <3> QED BY <2>1, <3>5, <3>6, <3>7 DEF OrderInv
  <2>3. CASE stranded' = TRUE /\ rot' = [rot EXCEPT ![r] = "out"]
             /\ UNCHANGED <<dir, files, fresh>>
    <3>1. rot'[r] = "out" /\ \A s \in Rotators : s # r => rot'[s] = rot[s]
      BY <2>3 DEF TypeOK
    <3>2. Turns' BY <1>1, <2>3, <3>1 DEF Turns
    <3>3. CurrentFile' BY <2>3 DEF CurrentFile
    <3>4. Ascending' BY <1>1, <2>0, <2>3 DEF Ascending
    <3> QED BY <2>1, <3>2, <3>3, <3>4 DEF OrderInv
  <2> QED BY <1>4, <2>2, <2>3 DEF Reopen
<1>5. CASE Dup2(r)
  <2>1. /\ rot[r] = "dup2" /\ rot'[r] = "out"
        /\ \A s \in Rotators : s # r => rot'[s] = rot[s]
        /\ desc' = IF opened THEN fresh[r] ELSE desc
        /\ UNCHANGED <<opened, dir, fresh>> /\ logging' = logging
    BY <1>5 DEF Dup2, TypeOK
  <2>2. fresh[r] = dir[Path] /\ dir[Path] # None /\ desc <= dir[Path] /\ dir[Path] \in Nat
    <3>1. fresh[r] \in Nat BY SMT DEF TypeOK
    <3> QED BY <1>1, <2>1, <3>1 DEF Turns, Ascending
  <2>3. desc <= desc' /\ (opened => desc' = dir[Path]) /\ dir[Path] <= dir[Path]
    BY <1>2, <2>1, <2>2, SMT
  <2>4. Turns' BY <1>1, <2>1 DEF Turns
  <2>5. CurrentFile' BY <2>1, <2>3 DEF CurrentFile
  <2>6. Ascending' BY <1>1, <2>1, <2>2, <2>3 DEF Ascending
  <2>7. Behind' /\ FilesInOrder' BY <1>0, <1>1, <2>1, <2>3, BehindAfter
  <2> QED BY <2>4, <2>5, <2>6, <2>7 DEF OrderInv
<1> QED BY <1>3, <1>4, <1>5

LEMMA NextOrder == TypeOK /\ TypeOK' /\ OrderInv /\ [Next]_vars => OrderInv'
<1> SUFFICES ASSUME TypeOK, TypeOK', OrderInv, [Next]_vars PROVE OrderInv'
  OBVIOUS
<1>1. CASE UNCHANGED vars
  BY <1>1 DEF vars, history, rotation, logging, OrderInv, Turns, CurrentFile, Ascending, Behind,
              FilesInOrder
<1> QED BY <1>1, OpenOrder, WriteOrder, RotateOrder DEF Next

-----------------------------------------------------------------------------
LEMMA Invariance == Spec => [](TypeOK /\ NamedInv /\ OrderInv)
<1>1. Init => TypeOK /\ NamedInv /\ OrderInv
  BY InitType, InitNamed, InitOrder
<1>2. TypeOK /\ NamedInv /\ OrderInv /\ [Next]_vars => (TypeOK /\ NamedInv /\ OrderInv)'
  BY NextType, NextNamed, NextOrder
<1> QED BY <1>1, <1>2, PTL DEF Spec

\* Every variable of FileLog keeps its type, and names stand for different files.
THEOREM LogTypeCorrect == Spec => []TypeOK
BY Invariance, PTL

\* Every line written is on the standard output or in a file that has a name, however
\* writes, rotations and failing calls of open interleave, unless its file was replaced
\* by a later Rotate that was given the name of it.
THEOREM LinesKept == Spec => []NoLineLost
<1>1. TypeOK /\ NamedInv => NoLineLost
  BY DEF NamedInv, Named, NoLineLost, None, Stdout
<1> QED BY <1>1, Invariance, PTL

\* Between rotations that do not overlap, and as long as open succeeds in them, the
\* descriptor is open on the file that has the name given to Open.
THEOREM WritesToCurrent == Spec => []CurrentFile
<1>1. OrderInv => CurrentFile
  BY DEF OrderInv, CurrentFile
<1> QED BY <1>1, Invariance, PTL

\* As long as rotations do not overlap, what a thread writes is in the files in the order
\* in which it was written.
THEOREM LinesInOrder == Spec => []FilesInOrder
<1>1. OrderInv => FilesInOrder
  BY DEF OrderInv, FilesInOrder
<1> QED BY <1>1, Invariance, PTL
=============================================================================
