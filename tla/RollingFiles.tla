----------------------------- MODULE RollingFiles -----------------------------
(***************************************************************************)
(* RollingFileSink of the logger (src/src/common/logger.cc).  File 0 is    *)
(* the current one, file i the one with suffix .i.  A line is its number,  *)
(* with a size in bytes, the line end included.  Removing, renaming and    *)
(* opening may fail; a stream that is open takes what is written to it     *)
(* (a full disk is left out).  The process may be restarted after a flush, *)
(* and continues the current file.                                         *)
(***************************************************************************)
EXTENDS Integers, FiniteSets, Sequences, SequencesExt

CONSTANTS
  MaxSize,   \* max_file_size_bytes
  MaxFiles,  \* max_files
  Sizes,     \* sizes of lines
  MaxLines,  \* bound: lines submitted
  MaxFaults  \* bound: failing file operations

\* ValidateOptions.
FilesAssumption == MaxSize \in Nat \ {0} /\ MaxFiles \in Nat \ {0} /\ Sizes \subseteq Nat \ {0}

VARIABLES
  files,     \* the lines of each file that exists
  opened,    \* stream_ is open
  current,   \* current_size_
  rolling,   \* the line that waits for Roll, and the index Roll is at
  size,      \* the size of each line
  accepted,  \* history: lines written, in order
  faults

vars == <<files, opened, current, rolling, size, accepted, faults>>

No == [line |-> 0, index |-> 0]

Init ==
  /\ files = [i \in {0} |-> <<>>]
  /\ opened = TRUE /\ current = 0 /\ rolling = No
  /\ size = <<>> /\ accepted = <<>> /\ faults = 0

Fault == faults < MaxFaults /\ faults' = faults + 1
Without(i) == [j \in DOMAIN files \ {i} |-> files[j]]
FileSize(i) == FoldLeft(LAMBDA n, l : n + size[l], 0, files[i])
With(i, c) == [j \in DOMAIN files \cup {i} |-> IF j = i THEN c ELSE files[j]]

\* Renamed(i): file i gets the name of file i + 1 and replaces it.
Renamed(i) == [j \in (DOMAIN files \ {i}) \cup {i + 1} |-> IF j = i + 1 THEN files[i] ELSE files[j]]

\* The stream takes the line; a stream that is not open refuses it.
Put(l, s) ==
  IF opened
    THEN /\ files' = With(0, Append(files[0], l))
         /\ current' = current + s
         /\ accepted' = Append(accepted, l)
    ELSE UNCHANGED <<files, current, accepted>>

\* Write: a line that does not fit rolls the files first, unless the
\* current file is empty.
TooLarge(s) == current > 0 /\ s > MaxSize - (IF current < MaxSize THEN current ELSE MaxSize)

Write(s) ==
  LET l == Len(size) + 1 IN
  /\ rolling = No /\ l <= MaxLines
  /\ size' = Append(size, s)
  /\ IF TooLarge(s)
       THEN /\ rolling' = [line |-> l, index |-> MaxFiles]
            /\ opened' = FALSE
            /\ UNCHANGED <<files, current, accepted>>
       ELSE Put(l, s) /\ UNCHANGED <<rolling, opened>>
  /\ UNCHANGED faults

\* Roll begins by removing the oldest file, if more than one is kept.
RollRemove ==
  /\ rolling.index = MaxFiles /\ MaxFiles > 1
  /\ \/ files' = Without(MaxFiles - 1) /\ UNCHANGED faults
     \/ Fault /\ UNCHANGED files
  /\ rolling' = [rolling EXCEPT !.index = MaxFiles - 1]
  /\ UNCHANGED <<opened, current, size, accepted>>

\* A rename that fails is passed over.
Bug_RollRename ==
  /\ rolling # No /\ rolling.index \in 1..(MaxFiles - 1)
  /\ LET i == rolling.index - 1 IN
       \/ files' = (IF i \in DOMAIN files THEN Renamed(i) ELSE files) /\ UNCHANGED faults
       \/ Fault /\ UNCHANGED files
  /\ rolling' = [rolling EXCEPT !.index = @ - 1]
  /\ UNCHANGED <<opened, current, size, accepted>>

\* Then every file takes the next number, from the oldest on; the first
\* rename that fails gives up, and the line is lost.
RollRename ==
  /\ rolling # No /\ rolling.index \in 1..(MaxFiles - 1)
  /\ LET i == rolling.index - 1 IN
       \/ /\ files' = IF i \in DOMAIN files THEN Renamed(i) ELSE files
          /\ rolling' = [rolling EXCEPT !.index = @ - 1]
          /\ UNCHANGED faults
       \/ Fault /\ rolling' = No /\ UNCHANGED files
  /\ UNCHANGED <<opened, current, size, accepted>>

\* At last the current file is opened empty and takes the line.
RollOpen ==
  /\ rolling # No /\ rolling.index = (IF MaxFiles = 1 THEN MaxFiles ELSE 0)
  /\ \/ /\ files' = With(0, <<rolling.line>>)
        /\ opened' = TRUE
        /\ current' = size[rolling.line]
        /\ accepted' = Append(accepted, rolling.line)
        /\ UNCHANGED faults
     \/ Fault /\ current' = 0 /\ UNCHANGED <<files, opened, accepted>>
  /\ rolling' = No
  /\ UNCHANGED size

\* The process ends after a flush and Initialize continues the file.
Restart ==
  /\ rolling = No
  /\ files' = With(0, IF 0 \in DOMAIN files THEN files[0] ELSE <<>>)
  /\ current' = IF 0 \in DOMAIN files THEN FileSize(0) ELSE 0
  /\ opened' = TRUE
  /\ UNCHANGED <<rolling, size, accepted, faults>>

Next == (\E s \in Sizes : Write(s)) \/ RollRemove \/ RollRename \/ RollOpen \/ Restart

Spec == Init /\ [][Next]_vars

-----------------------------------------------------------------------------
\* The lines of the files, oldest file first.
Retained ==
  LET content(i) == IF i \in DOMAIN files THEN files[i] ELSE <<>>
  IN FoldLeft(LAMBDA a, i : a \o content(MaxFiles - i), <<>>, [i \in 1..MaxFiles |-> i])

\* The files hold, in order and without a gap, the lines that were written
\* last: rolling, failures in the middle of it and restarts lose only the
\* oldest lines.
RetainedIsSuffix ==
  LET r == Retained IN
  Len(r) <= Len(accepted) /\ r = SubSeq(accepted, Len(accepted) - Len(r) + 1, Len(accepted))

\* No more than max_files files, and none larger than max_file_size_bytes
\* unless it holds a single line.
FilesAreBounded ==
  /\ DOMAIN files \subseteq 0..(MaxFiles - 1)
  /\ \A i \in DOMAIN files : Len(files[i]) > 1 => FileSize(i) <= MaxSize

\* The sink keeps the newest lines, in bounded space.
NewestLinesKept == RetainedIsSuffix /\ FilesAreBounded
=============================================================================
