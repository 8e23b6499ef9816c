-------------------------- MODULE RollingLogProofs --------------------------
(***************************************************************************)
(* Proofs about RollingLog for any threads, number of files and file size. *)
(***************************************************************************)
EXTENDS RollingLog, SequenceTheorems, TLAPS

USE LogAssumption

-----------------------------------------------------------------------------
Unit == Pieces \cup {Mark, Foreign}

(* What a write does to the file.                                          *)
LEMMA Written ==
    ASSUME NEW c \in Seq(Unit), NEW o \in Nat, NEW l \in Unit
    PROVE  /\ WriteAt(c, o, l) \in Seq(Unit)
           /\ o = Len(c) => Len(WriteAt(c, o, l)) = Len(c) + 1
<1>1. Len(c) \in Nat
  BY LenProperties
<1>2. CASE o < Len(c)
  BY <1>1, <1>2, ExceptSeq DEF WriteAt
<1>3. CASE ~(o < Len(c))
  BY <1>1, <1>3, AppendProperties DEF WriteAt
<1> QED BY <1>2, <1>3

(* The thread that holds the mutex has the appender to itself.             *)
HolderInv ==
    /\ \A t \in Threads : at[t] \in {"opening", "unlinking", "renaming", "writing"} => mutex = t
    /\ \A t \in Threads : at[t] \in {"opening", "renaming"} => file = NoFile
    /\ \A t \in Threads : at[t] = "unlinking" => maxFiles > 0
    /\ \A t \in Threads : at[t] = "renaming" => fileNumber \in 0 .. maxFiles - 2

(* A descriptor stands at the end of file 0, except that another process   *)
(* may write there, too; then no file is ever renamed.                     *)
FileInv ==
    /\ firstWrite => file = NoFile
    /\ file # NoFile => file \in Nat /\ Exists(0)
    /\ other # NoFile => other \in Nat /\ Exists(0) /\ maxFiles = 0
    /\ Alone /\ file # NoFile => fileSize = Len(disk[0]) /\ file = fileSize

LogInv == LogTypeOK /\ HolderInv /\ FileInv

LEMMA FileNumbers ==
    ASSUME maxFiles \in MaxFilesChoices
    PROVE  maxFiles \in Nat /\ 0 \in Numbers /\ \A k \in 0 .. maxFiles - 1 : k \in Numbers
<1>1. 0 \in 0 .. 1 - 1
  OBVIOUS
<1> QED BY <1>1 DEF Numbers

LEMMA LogInvInit == Init => LogInv
<1> SUFFICES ASSUME Init PROVE LogInv
  OBVIOUS
<1>1. <<>> \in Seq(Records) /\ <<>> \in Seq(Pieces)
  BY EmptySeq
<1>2. record \in [Threads -> Records] /\ part \in [Threads -> Nat]
  BY DEF Init, Records, NewRecord
<1>3. /\ at \in [Threads -> Steps] /\ disk \in [Numbers -> Seq(Pieces \cup {Mark, Foreign}) \cup {Missing}]
  BY DEF Init, Steps
<1>4. console \in Seq(Records) /\ written \in Seq(Pieces)
  BY <1>1 DEF Init
<1>5. /\ ready \in BOOLEAN /\ stuck \in BOOLEAN /\ firstWrite \in BOOLEAN
      /\ mutex \in Threads \cup {NoThread} /\ maxFiles \in MaxFilesChoices
  BY DEF Init
<1>6. file \in Int /\ fileSize \in Int /\ other \in Int /\ fileNumber \in Int
  BY DEF Init, NoFile
<1>7. LogTypeOK
  BY <1>2, <1>3, <1>4, <1>5, <1>6 DEF LogTypeOK
<1> QED BY <1>7 DEF Init, LogInv, HolderInv, FileInv, Alone, NoFile

(* Lines that are written into file 0, by whom and where ever.             *)
LEMMA WriteDisk ==
    ASSUME LogTypeOK, Exists(0), NEW o \in Nat, NEW l \in Unit,
           disk' = [disk EXCEPT ![0] = WriteAt(@, o, l)]
    PROVE  /\ disk' \in [Numbers -> Seq(Unit) \cup {Missing}] /\ Exists(0)'
           /\ o = Len(disk[0]) => Len(disk'[0]) = Len(disk[0]) + 1
<1>1. 0 \in Numbers
  BY FileNumbers DEF LogTypeOK
<1>2. disk[0] \in Seq(Unit)
  BY <1>1 DEF LogTypeOK, Exists, Unit
<1>3. /\ disk'[0] = WriteAt(disk[0], o, l) /\ disk'[0] \in Seq(Unit)
      /\ o = Len(disk[0]) => Len(disk'[0]) = Len(disk[0]) + 1
  BY <1>1, <1>2, Written DEF LogTypeOK
<1>4. Missing \notin Seq(Unit)
  BY DEF Unit, Pieces
<1> QED BY <1>3, <1>4 DEF LogTypeOK, Exists, Unit

LEMMA OpenDisk ==
    ASSUME LogTypeOK, NEW t \in Threads, OpenLogFile(t)
    PROVE  disk' \in [Numbers -> Seq(Unit) \cup {Missing}] /\ Exists(0)' /\ Len(disk'[0]) \in Nat
<1>1. 0 \in Numbers
  BY FileNumbers DEF LogTypeOK
<1>2. <<>> \in Seq(Unit) /\ <<Mark>> \in Seq(Unit)
  BY EmptySeq DEF Unit
<1>3. Contents(0) \in Seq(Unit)
  BY <1>1, <1>2 DEF Contents, LogTypeOK, Exists, Unit
<1>4. PICK c \in Seq(Unit) : disk' = [disk EXCEPT ![0] = c]
  BY <1>2, <1>3 DEF OpenLogFile, Headers
<1>5. disk'[0] = c /\ Len(c) \in Nat
  BY <1>1, <1>4, LenProperties DEF LogTypeOK
<1>6. Missing \notin Seq(Unit)
  BY DEF Unit, Pieces
<1> QED BY <1>4, <1>5, <1>6 DEF LogTypeOK, Exists, Unit

LEMMA PieceTypes ==
    ASSUME LogTypeOK, NEW t \in Threads
    PROVE  /\ Piece(t) \in Pieces /\ Piece(t).by = t
           /\ Piece(t).no = record[t].no /\ Piece(t).part = part[t]
           /\ record[t].no \in Nat /\ part[t] \in Nat
BY DEF LogTypeOK, Records, Pieces, Piece

LEMMA LogInvStep ==
    ASSUME LogInv, [LogNext]_logVars
    PROVE  LogInv'
<1> USE DEF LogInv, Goto, Lock, Unlock, appender, statement, history, rest, NoFile, Alone
<1>0. /\ 0 \in Numbers /\ maxFiles \in Nat /\ \A k \in 0 .. maxFiles - 1 : k \in Numbers
      /\ Unit = Pieces \cup {Mark, Foreign}
  BY FileNumbers DEF LogTypeOK, Unit
<1>1. CASE InitLogger
  BY <1>1 DEF InitLogger, LogTypeOK, HolderInv, FileInv, Exists
<1>2. CASE Kill
  <2>1. <<>> \in Seq(Records)
    BY EmptySeq
  <2>2. at' \in [Threads -> Steps] /\ \A t \in Threads : at'[t] = "idle"
    BY <1>2 DEF Kill, Steps
  <2>3. /\ disk' \in [Numbers -> Seq(Pieces \cup {Mark, Foreign}) \cup {Missing}]
        /\ record' \in [Threads -> Records] /\ part' \in [Threads -> Nat]
        /\ console' \in Seq(Records) /\ written' \in Seq(Pieces)
    BY <1>2, <2>1 DEF Kill, LogTypeOK
  <2>4. /\ ready' \in BOOLEAN /\ stuck' \in BOOLEAN /\ firstWrite' \in BOOLEAN
        /\ mutex' \in Threads \cup {NoThread} /\ maxFiles' \in MaxFilesChoices
    BY <1>2 DEF Kill, LogTypeOK
  <2>5. file' \in Int /\ fileSize' \in Int /\ other' \in Int /\ fileNumber' \in Int
    BY <1>2 DEF Kill, LogTypeOK
  <2>6. LogTypeOK'
    BY <2>2, <2>3, <2>4, <2>5 DEF LogTypeOK
  <2> QED BY <1>2, <2>2, <2>6 DEF Kill, HolderInv, FileInv, Exists
<1>3. CASE OtherOpens
  <2>1. Len(disk[0]) \in Nat
    BY <1>0, <1>3, LenProperties DEF OtherOpens, LogTypeOK, Exists
  <2> QED BY <1>3, <2>1 DEF OtherOpens, LogTypeOK, HolderInv, FileInv, Exists
<1>4. CASE OtherWrites
  <2>1. disk' \in [Numbers -> Seq(Unit) \cup {Missing}] /\ Exists(0)'
    BY <1>4, WriteDisk DEF OtherWrites, FileInv, Unit
  <2> QED BY <1>0, <1>4, <2>1 DEF OtherWrites, LogTypeOK, HolderInv, FileInv
<1>5. ASSUME NEW t \in Threads, Log(t) PROVE LogInv'
  <2> DEFINE r == [record[t] EXCEPT !.no = @ + 1]
  <2>0. record[t] \in [by: Threads, no: Nat]
    BY DEF LogTypeOK, Records
  <2>1. r \in Records
    BY <2>0 DEF Records
  <2>2. record' = [record EXCEPT ![t] = r]
    BY <1>5 DEF Log
  <2> HIDE DEF r
  <2>3. record' \in [Threads -> Records] /\ part' \in [Threads -> Nat]
    BY <1>5, <2>1, <2>2 DEF Log, LogTypeOK
  <2> QED BY <1>5, <2>3 DEF Log, LogTypeOK, HolderInv, FileInv, Exists, Steps
<1>6. ASSUME NEW t \in Threads, BeginWrite(t) PROVE LogInv'
  BY <1>6 DEF BeginWrite, MustRoll, LogTypeOK, HolderInv, FileInv, Exists, Steps
<1>7. ASSUME NEW t \in Threads, UnlinkLast(t) PROVE LogInv'
  <2>1. maxFiles > 0 /\ mutex = t
    BY <1>7 DEF UnlinkLast, HolderInv
  <2>2. disk' \in [Numbers -> Seq(Unit) \cup {Missing}]
    BY <1>0, <1>7 DEF UnlinkLast, Unlink, LogTypeOK
  <2>3. /\ at' = [at EXCEPT ![t] = IF maxFiles = 1 THEN "opening" ELSE "renaming"]
        /\ file' = NoFile /\ fileNumber' = maxFiles - 2 /\ stuck' \in BOOLEAN
        /\ UNCHANGED <<ready, mutex, maxFiles, fileSize, firstWrite, record, part, written, console, other>>
    BY <1>7 DEF UnlinkLast, CloseFile, LogTypeOK
  <2>4. LogTypeOK'
    BY <1>0, <2>2, <2>3 DEF LogTypeOK, Steps
  <2>5. HolderInv'
    BY <1>0, <2>1, <2>3 DEF HolderInv, LogTypeOK
  <2>6. other = NoFile
    BY <2>1 DEF FileInv
  <2> QED BY <2>3, <2>4, <2>5, <2>6 DEF FileInv
<1>8. ASSUME NEW t \in Threads, RenameNext(t) PROVE LogInv'
  <2>1. fileNumber \in 0 .. maxFiles - 2 /\ mutex = t /\ file = NoFile
    BY <1>8 DEF RenameNext, HolderInv
  <2>2. disk' \in [Numbers -> Seq(Unit) \cup {Missing}]
    <3>1. fileNumber \in Numbers /\ fileNumber + 1 \in Numbers
      BY <1>0, <2>1
    <3>2. disk \in [Numbers -> Seq(Unit) \cup {Missing}]
      BY <1>0 DEF LogTypeOK
    <3>3. Rename(fileNumber, fileNumber + 1)
      BY <1>8 DEF RenameNext
    <3> QED BY <3>1, <3>2, <3>3 DEF Rename, Exists
  <2>3. /\ at' = [at EXCEPT ![t] = IF fileNumber = 0 THEN "opening" ELSE "renaming"]
        /\ fileNumber' = fileNumber - 1 /\ stuck' \in BOOLEAN
        /\ UNCHANGED <<ready, mutex, maxFiles, file, fileSize, firstWrite, record, part, written, console, other>>
    BY <1>8 DEF RenameNext, LogTypeOK
  <2>4. LogTypeOK'
    BY <1>0, <2>1, <2>2, <2>3 DEF LogTypeOK, Steps
  <2>5. HolderInv'
    BY <1>0, <2>1, <2>3 DEF HolderInv, LogTypeOK
  <2>6. other = NoFile
    BY <1>0, <2>1 DEF FileInv
  <2> QED BY <2>1, <2>3, <2>4, <2>5, <2>6 DEF FileInv
<1>9. ASSUME NEW t \in Threads, OpenFails(t) PROVE LogInv'
  BY <1>9 DEF OpenFails, LogTypeOK, HolderInv, FileInv, Exists, Steps
<1>10. ASSUME NEW t \in Threads, OpenLogFile(t) PROVE LogInv'
  <2>1. mutex = t
    BY <1>10 DEF OpenLogFile, HolderInv
  <2>2. disk' \in [Numbers -> Seq(Unit) \cup {Missing}] /\ Exists(0)' /\ Len(disk'[0]) \in Nat
    BY <1>10, OpenDisk
  <2>3. /\ at' = [at EXCEPT ![t] = "writing"]
        /\ file' = Len(disk'[0]) /\ fileSize' = file' /\ firstWrite' = FALSE
        /\ UNCHANGED <<ready, mutex, maxFiles, fileNumber, record, part, written, stuck, console, other>>
    BY <1>10 DEF OpenLogFile
  <2>4. LogTypeOK'
    <3>1. at' \in [Threads -> Steps] /\ file' \in Int /\ fileSize' \in Int
      BY <2>2, <2>3 DEF LogTypeOK, Steps
    <3>2. firstWrite' \in BOOLEAN
      BY <2>3
    <3> QED BY <1>0, <2>2, <2>3, <3>1, <3>2 DEF LogTypeOK
  <2>5. HolderInv'
    BY <2>1, <2>3 DEF HolderInv, LogTypeOK
  <2> QED BY <2>2, <2>3, <2>4, <2>5 DEF FileInv
<1>11. ASSUME NEW t \in Threads, EndWrite(t) PROVE LogInv'
  BY <1>11 DEF EndWrite, LogTypeOK, HolderInv, FileInv, Exists, Steps
<1>12. ASSUME NEW t \in Threads, WritePiece(t) PROVE LogInv'
  <2>1. Piece(t) \in Pieces /\ file \in Nat /\ part[t] + 1 \in Nat
    BY <1>12, PieceTypes DEF WritePiece, FileInv, LogTypeOK
  <2>2. /\ disk' \in [Numbers -> Seq(Unit) \cup {Missing}] /\ Exists(0)'
        /\ file = Len(disk[0]) => Len(disk'[0]) = Len(disk[0]) + 1
    BY <1>12, <2>1, WriteDisk DEF WritePiece, FileInv, Unit
  <2>3. written' \in Seq(Pieces)
    BY <1>12, <2>1, AppendProperties DEF WritePiece, LogTypeOK
  <2>4. part' \in [Threads -> Nat]
    BY <1>12, <2>1 DEF WritePiece, LogTypeOK
  <2> QED BY <1>0, <1>12, <2>1, <2>2, <2>3, <2>4 DEF WritePiece, LogTypeOK, HolderInv, FileInv
<1>13. ASSUME NEW t \in Threads, WriteConsole(t) PROVE LogInv'
  <2>1. record[t] \in Records
    BY DEF LogTypeOK
  <2>2. console' \in Seq(Records)
    BY <1>13, <2>1, AppendProperties DEF WriteConsole, LogTypeOK
  <2> QED BY <1>13, <2>2 DEF WriteConsole, LogTypeOK, HolderInv, FileInv, Exists, Steps
<1>14. CASE UNCHANGED logVars
  BY <1>14 DEF logVars, LogTypeOK, HolderInv, FileInv, Exists
<1> QED BY <1>1, <1>2, <1>3, <1>4, <1>5, <1>6, <1>7, <1>8, <1>9, <1>10, <1>11, <1>12, <1>13, <1>14
    DEF LogNext, Thread

LEMMA LogInvCorrect == LogSpec => []LogInv
BY LogInvInit, LogInvStep, PTL DEF LogSpec

-----------------------------------------------------------------------------
(* Every variable keeps its type.                                          *)
THEOREM LogTypeCorrect == LogSpec => []LogTypeOK
<1>1. LogInv => LogTypeOK
  BY DEF LogInv
<1> QED BY <1>1, LogInvCorrect, PTL

(* The size that decides about rolling is that of the file, whatever calls *)
(* failed and whenever the process was killed                              *)
(* (RollingFileAppender.h:28-106).                                         *)
THEOREM SizeIsTrueCorrect == LogSpec => []SizeIsTrue
<1>1. LogInv => SizeIsTrue
  BY DEF LogInv, FileInv, SizeIsTrue
<1> QED BY <1>1, LogInvCorrect, PTL
=============================================================================
