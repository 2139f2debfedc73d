------------------------------- MODULE FileLog --------------------------------
(***************************************************************************)
(* The log file, written by any number of threads and rotated by others,   *)
(* with no lock: rename the file, open a new one under the old name, copy  *)
(* its descriptor over the one that everybody writes to.  A write looks    *)
(* its descriptor up when it begins and appends when it ends.              *)
(*                                                                         *)
(* Files are numbered in the order of their creation; what a logger wrote  *)
(* is the sequence of the files its lines went to.  Rotate may be given a   *)
(* name that a file has already: rename(2) then replaces that file.        *)
(***************************************************************************)
EXTENDS Naturals, Sequences

CONSTANTS
  Loggers,      \* threads that write
  Rotators,     \* threads that rotate
  Archive,      \* names for old files
  MaxLines,     \* bound on the lines of each logger
  MaxFiles,     \* bound on the files there have been when Rotate is called
  MaxFailures   \* bound on the calls of open that fail

None == 0
Stdout == 0
Path == "file_path_"

ASSUME LogAssumption == {MaxLines, MaxFiles, MaxFailures} \subseteq Nat /\ Path \notin Archive

VARIABLES
  opened,     \* fd_ # -1
  path,       \* file_path_ is not empty
  desc,       \* the file that the descriptor fd_ is open on
  dir,        \* the file that each name stands for, or None
  files,      \* how many have been made
  rot,        \* where each rotator is in Rotate
  fresh,      \* and the file it has opened
  write,      \* where each logger is in WriteLog
  target,     \* whether it has seen fd_, and then the file it writes to
  lines,      \* the file each of its lines went to
  failures,   \* how often open failed
  replaced,   \* history: the files that a rename to their name has replaced
  overlapped, \* history: two rotators were in Rotate at once
  stranded    \* history: open failed after the file had been renamed

rotation == <<rot, fresh>>
logging == <<write, target, lines>>
history == <<replaced, overlapped, stranded>>
vars == <<opened, path, desc, dir, files, rotation, logging, failures, history>>

Names == {Path} \cup Archive

\* The file may be there from an earlier run.
Init ==
  /\ opened = FALSE /\ path = FALSE /\ desc = None
  /\ \E n \in {0, 1} : files = n /\ dir = [a \in Names |-> IF a = Path THEN n ELSE None]
  /\ rot = [r \in Rotators |-> "out"] /\ fresh = [r \in Rotators |-> None]
  /\ write = [l \in Loggers |-> "out"] /\ target = [l \in Loggers |-> None]
  /\ lines = [l \in Loggers |-> <<>>]
  /\ failures = 0 /\ replaced = {} /\ overlapped = FALSE /\ stranded = FALSE

Fails == failures < MaxFailures /\ failures' = failures + 1

\* open(2) with O_CREAT: the file of that name, or a new one.
File == IF dir[Path] = None THEN files + 1 ELSE dir[Path]
OpenFile ==
  /\ files' = IF dir[Path] = None THEN files + 1 ELSE files
  /\ dir' = [dir EXCEPT ![Path] = File]

-----------------------------------------------------------------------------
\* Called until it succeeds.
Open ==
  /\ ~ opened
  /\ path' = TRUE
  /\ \/ OpenFile /\ desc' = File /\ opened' = TRUE /\ UNCHANGED failures
     \/ Fails /\ UNCHANGED <<desc, dir, files, opened>>
  /\ UNCHANGED <<rotation, logging, history>>

\* Logger::Write and WriteLog: fd_ is looked at ...
WriteLog(l) ==
  /\ write[l] = "out" /\ Len(lines[l]) < MaxLines
  /\ write' = [write EXCEPT ![l] = IF opened THEN "fd" ELSE "write"]
  /\ target' = [target EXCEPT ![l] = Stdout]
  /\ UNCHANGED <<opened, path, desc, dir, files, rotation, lines, failures, history>>

\* ... write(2) finds the file ...
FindFile(l) ==
  /\ write[l] = "fd"
  /\ write' = [write EXCEPT ![l] = "write"]
  /\ target' = [target EXCEPT ![l] = desc]
  /\ UNCHANGED <<opened, path, desc, dir, files, rotation, lines, failures, history>>

\* ... and appends to it.
AppendLine(l) ==
  /\ write[l] = "write"
  /\ write' = [write EXCEPT ![l] = "out"]
  /\ lines' = [lines EXCEPT ![l] = Append(@, target[l])]
  /\ UNCHANGED <<opened, path, desc, dir, files, rotation, target, failures, history>>

-----------------------------------------------------------------------------
\* Mutant: the file is removed where it should be renamed.
MutantUnlink(r, name) ==
  /\ rot[r] = "out" /\ path /\ files < MaxFiles
  /\ dir[Path] # None
  /\ dir' = [dir EXCEPT ![Path] = None]
  /\ rot' = [rot EXCEPT ![r] = "open"]
  /\ overlapped' = (overlapped \/ \E s \in Rotators \ {r} : rot[s] # "out")
  /\ UNCHANGED replaced
  /\ UNCHANGED <<opened, path, desc, files, fresh, logging, failures, stranded>>

\* Mutant: the file is copied where it should be renamed.
MutantCopy(r, name) ==
  /\ rot[r] = "out" /\ path /\ files < MaxFiles
  /\ dir[Path] # None
  /\ dir' = [dir EXCEPT ![name] = dir[Path]]
  /\ rot' = [rot EXCEPT ![r] = "open"]
  /\ overlapped' = (overlapped \/ \E s \in Rotators \ {r} : rot[s] # "out")
  /\ replaced' = replaced \cup ({dir[name]} \ {None})
  /\ UNCHANGED <<opened, path, desc, files, fresh, logging, failures, stranded>>

\* Mutant: fd_ is closed first, and the log left without one until the end.
MutantClose(r, name) ==
  /\ rot[r] = "out" /\ path /\ files < MaxFiles
  /\ dir[Path] # None
  /\ opened' = FALSE
  /\ dir' = [dir EXCEPT ![name] = dir[Path], ![Path] = None]
  /\ rot' = [rot EXCEPT ![r] = "open"]
  /\ overlapped' = (overlapped \/ \E s \in Rotators \ {r} : rot[s] # "out")
  /\ replaced' = replaced \cup ({dir[name]} \ {None})
  /\ UNCHANGED <<path, desc, files, fresh, logging, failures, stranded>>

\* Rotate, as far as rename, after which a file that had the new name has none.  When
\* rename fails it has changed nothing.
Rotate(r, name) ==
  /\ rot[r] = "out" /\ path /\ files < MaxFiles
  /\ dir[Path] # None
  /\ dir' = [dir EXCEPT ![name] = dir[Path], ![Path] = None]
  /\ rot' = [rot EXCEPT ![r] = "open"]
  /\ overlapped' = (overlapped \/ \E s \in Rotators \ {r} : rot[s] # "out")
  /\ replaced' = replaced \cup ({dir[name]} \ {None})
  /\ UNCHANGED <<opened, path, desc, files, fresh, logging, failures, stranded>>

Reopen(r) ==
  /\ rot[r] = "open"
  /\ \/ /\ OpenFile
        /\ fresh' = [fresh EXCEPT ![r] = File]
        /\ rot' = [rot EXCEPT ![r] = "dup2"]
        /\ UNCHANGED <<failures, stranded>>
     \/ /\ Fails
        /\ stranded' = TRUE
        /\ rot' = [rot EXCEPT ![r] = "out"]
        /\ UNCHANGED <<dir, files, fresh>>
  /\ UNCHANGED <<opened, path, desc, logging, replaced, overlapped>>

\* Mutant: the arguments of dup2 are exchanged.
MutantSwapped(r) ==
  /\ rot[r] = "dup2"
  /\ rot' = [rot EXCEPT ![r] = "out"]
  /\ UNCHANGED <<desc, opened, path, dir, files, fresh, logging, failures, history>>

\* dup2(fd, fd_), which fails on a log that is not open, and close(fd).
Dup2(r) ==
  /\ rot[r] = "dup2"
  /\ rot' = [rot EXCEPT ![r] = "out"]
  /\ desc' = IF opened THEN fresh[r] ELSE desc
  /\ UNCHANGED <<opened, path, dir, files, fresh, logging, failures, history>>

Next ==
  \/ Open
  \/ \E l \in Loggers : WriteLog(l) \/ FindFile(l) \/ AppendLine(l)
  \/ \E r \in Rotators : Reopen(r) \/ Dup2(r) \/ \E name \in Archive : Rotate(r, name)

Spec == Init /\ [][Next]_vars
-----------------------------------------------------------------------------
(* Properties.                                                             *)

\* Every variable holds a value of its type, and names stand for different files.
TypeOK ==
  /\ opened \in BOOLEAN /\ path \in BOOLEAN
  /\ overlapped \in BOOLEAN /\ stranded \in BOOLEAN
  /\ files \in Nat /\ failures \in 0 .. MaxFailures
  /\ desc \in 0 .. files /\ replaced \subseteq 1 .. files
  /\ dir \in [Names -> 0 .. files]
  /\ \A a, b \in Names : dir[a] = dir[b] => a = b \/ dir[a] = None
  /\ rot \in [Rotators -> {"out", "open", "dup2"}]
  /\ fresh \in [Rotators -> 0 .. files]
  /\ write \in [Loggers -> {"out", "fd", "write"}]
  /\ target \in [Loggers -> 0 .. files]
  /\ lines \in [Loggers -> Seq(Nat)]

\* Every line that was written is on the standard output or in a file that has a name,
\* whatever the interleaving of writes with any number of rotations, with one exception:
\* a line in a file that a later Rotate replaced, having been given its name, is gone.
NoLineLost ==
  \A l \in Loggers : \A k \in DOMAIN lines[l] :
    lines[l][k] # Stdout => (lines[l][k] \notin replaced <=> \E a \in Names : dir[a] = lines[l][k])

\* Between rotations that do not overlap lines go to the file of the name that Open was
\* given, unless open failed in the middle of one: then they go to the renamed file, and
\* no later Rotate finds a file to rename.
CurrentFile ==
  opened /\ ~ overlapped /\ ~ stranded /\ (\A r \in Rotators : rot[r] = "out")
    => desc = dir[Path]

\* A thread that writes one line after the other finds them in that order when it reads
\* the standard output, then the files in the order in which they were made, as long as
\* rotations do not overlap.
FilesInOrder ==
  ~ overlapped => \A l \in Loggers : \A k \in 2 .. Len(lines[l]) : lines[l][k - 1] <= lines[l][k]
=============================================================================
