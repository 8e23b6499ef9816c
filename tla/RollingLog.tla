------------------------------ MODULE RollingLog ----------------------------
(***************************************************************************)
(* The log of a process (plog): LOG hands a record to the logger, which    *)
(* hands it to its appenders, a file that may roll and the console.  Each  *)
(* appender has a mutex of its own; the rolls of the file are several      *)
(* calls of the file system.  The calls may fail, the process may be       *)
(* killed between any two of them and be started again, and a second       *)
(* client that was started in the same directory may write the same file.  *)
(*                                                                         *)
(* A file is written piece by piece, a piece being a stretch of the bytes  *)
(* of one line: a line has at most LineParts of them, ::write may stop     *)
(* after any of them, and two processes that write one file overwrite      *)
(* pieces, not lines.  The byte order mark that begins a file is as long   *)
(* as a piece.  The client and the server never roll (maxFiles is 0);      *)
(* plog's samples do.                                                      *)
(***************************************************************************)
EXTENDS Integers, SequencesExt

CONSTANTS
    Threads,          \* the threads of the process
    NoThread,         \* nobody has the mutex
    MaxFilesChoices,  \* the numbers of files that the appender may keep
    MaxFileSize,      \* m_maxFileSize, in pieces
    LineParts,        \* the pieces of the longest line
    Missing,          \* there is no file of that number
    Mark,             \* the byte order mark
    Foreign           \* what the other process wrote

ASSUME LogAssumption ==
    /\ NoThread \notin Threads
    /\ MaxFilesChoices \subseteq Nat
    /\ MaxFileSize \in Nat \ {0} /\ LineParts \in Nat \ {0}
    /\ Missing \notin Seq([by: Threads, no: Nat, part: Nat] \cup {Mark, Foreign})
ASSUME LineAssumption ==
    /\ Mark \notin [by: Threads, no: Nat, part: Nat]
    /\ Foreign \notin [by: Threads, no: Nat, part: Nat] \cup {Mark}
Numbers == UNION {0 .. n - 1 : n \in MaxFilesChoices \cup {1}}

VARIABLES
    maxFiles,     \* m_maxFiles
    ready,        \* the logger exists and has its appenders
    mutex,        \* who holds the file appender's m_mutex
    file,         \* m_file: the offset of the descriptor, or NoFile
    fileSize,     \* m_fileSize
    firstWrite,   \* m_firstWrite
    fileNumber,   \* the loop counter of rollLogFiles
    disk,         \* the files on disk, by number
    at,           \* where each thread is in its LOG statement
    record,       \* the record it logs
    part,         \* how many pieces of its line are in the file
    console,      \* what this run of the process has shown
    written,      \* (history) the pieces that reached the file
    stuck,        \* (history) a file that was to be removed or renamed has stayed
    other         \* the offset of the other process in file 0, or NoFile

appender == <<maxFiles, file, fileSize, firstWrite, fileNumber>>
history == <<written, stuck>>
rest == <<console, other>>
statement == <<record, part>>
logVars == <<ready, mutex, appender, disk, at, statement, history, rest>>

(* The descriptor of no file.                                              *)
NoFile == -1

Steps == {"idle", "file", "opening", "unlinking", "renaming", "writing", "console"}
NewRecord(t) == [by |-> t, no |-> 0]

Init ==
    /\ maxFiles \in MaxFilesChoices
    /\ ready = FALSE /\ mutex = NoThread
    /\ file = NoFile /\ fileSize = 0 /\ firstWrite = TRUE /\ fileNumber = 0
    /\ disk = [k \in Numbers |-> Missing]
    /\ at = [t \in Threads |-> "idle"]
    /\ record = [t \in Threads |-> NewRecord(t)] /\ part = [t \in Threads |-> 0]
    /\ console = <<>> /\ written = <<>> /\ stuck = FALSE
    /\ other = NoFile

-----------------------------------------------------------------------------
(* The calls of the file system.                                           *)

Goto(t, from, to) == at[t] = from /\ at' = [at EXCEPT ![t] = to]

Exists(k) == disk[k] # Missing
Contents(k) == IF Exists(k) THEN disk[k] ELSE <<>>

CloseFile == file' = NoFile

Unlink(k) == disk' \in {disk, [disk EXCEPT ![k] = Missing]}

(* It replaces a file of the new name; it fails if there is none to rename.*)
Rename(k, to) ==
    disk' \in {disk} \cup (IF Exists(k) THEN {[disk EXCEPT ![to] = disk[k], ![k] = Missing]} ELSE {})

(* At the offset of the descriptor: the file is not opened for appending.  *)
WriteAt(contents, offset, piece) ==
    IF offset < Len(contents) THEN [contents EXCEPT ![offset + 1] = piece]
                              ELSE Append(contents, piece)

-----------------------------------------------------------------------------
(* init and addAppender, before any thread logs (Startup shows that).      *)
InitLogger ==
    /\ ~ready /\ ready' = TRUE
    /\ UNCHANGED <<mutex, appender, disk, at, statement, history, rest>>

(* The logger is a singleton, of which there is no instance before init.   *)
HasInstance == ready

(* LOG: without a logger, or if the severity is too low, nothing happens.  *)
Log(t) ==
    /\ HasInstance
    /\ Goto(t, "idle", "file")
    /\ record' = [record EXCEPT ![t].no = @ + 1] /\ part' = [part EXCEPT ![t] = 0]
    /\ UNCHANGED <<ready, mutex, appender, disk, history, rest>>

MustRoll == maxFiles > 0 /\ fileSize > MaxFileSize /\ fileSize # NoFile

Lock(t) == mutex = NoThread /\ mutex' = t
Unlock(t) == mutex' = NoThread

(* Mutant: whoever comes writes.                                           *)
BeginWriteUnlocked(t) ==
    /\ mutex' = t
    /\ Goto(t, "file", IF firstWrite THEN "opening"
                       ELSE IF MustRoll THEN "unlinking" ELSE "writing")
    /\ UNCHANGED <<ready, appender, disk, statement, history, rest>>

BeginWrite(t) ==
    /\ Lock(t)
    /\ Goto(t, "file", IF firstWrite THEN "opening"
                       ELSE IF MustRoll THEN "unlinking" ELSE "writing")
    /\ UNCHANGED <<ready, appender, disk, statement, history, rest>>

(* Mutant: the name of the last file is built without its number.          *)
UnlinkCurrent(t) ==
    /\ Goto(t, "unlinking", IF maxFiles = 1 THEN "opening" ELSE "renaming")
    /\ CloseFile
    /\ Unlink(0)
    /\ fileNumber' = maxFiles - 2
    /\ stuck' = (stuck \/ disk'[0] # Missing)
    /\ UNCHANGED <<ready, mutex, maxFiles, fileSize, firstWrite, statement, written, rest>>

(* rollLogFiles: close, drop the oldest file, shift the others by one.     *)
UnlinkLast(t) ==
    /\ Goto(t, "unlinking", IF maxFiles = 1 THEN "opening" ELSE "renaming")
    /\ CloseFile
    /\ Unlink(maxFiles - 1)
    /\ fileNumber' = maxFiles - 2
    /\ stuck' = (stuck \/ disk'[maxFiles - 1] # Missing)
    /\ UNCHANGED <<ready, mutex, maxFiles, fileSize, firstWrite, statement, written, rest>>

RenameNext(t) ==
    /\ Goto(t, "renaming", IF fileNumber = 0 THEN "opening" ELSE "renaming")
    /\ Rename(fileNumber, fileNumber + 1)
    /\ fileNumber' = fileNumber - 1
    /\ stuck' = (stuck \/ disk'[fileNumber] # Missing)
    /\ UNCHANGED <<ready, mutex, maxFiles, file, fileSize, firstWrite, statement, written, rest>>

(* openLogFile.                                                            *)
OpenFails(t) ==
    /\ Goto(t, "opening", "writing")
    /\ file' = NoFile /\ fileSize' = NoFile /\ firstWrite' = FALSE
    /\ UNCHANGED <<ready, mutex, maxFiles, fileNumber, disk, statement, history, rest>>

(* Mutant: the descriptor stays at the beginning of the file.              *)
OpenAtStart(t) ==
    /\ Goto(t, "opening", "writing")
    /\ disk' = [disk EXCEPT ![0] = IF Contents(0) = <<>> THEN <<Mark>> ELSE Contents(0)]
    /\ file' = IF Contents(0) = <<>> THEN 1 ELSE 0
    /\ fileSize' = file' /\ firstWrite' = FALSE
    /\ UNCHANGED <<ready, mutex, maxFiles, fileNumber, statement, history, rest>>

(* The header of a new file, if it could be written.                       *)
Headers == {<<Mark>>, <<>>}

OpenLogFile(t) ==
    /\ Goto(t, "opening", "writing")
    /\ disk' \in {[disk EXCEPT ![0] = IF Contents(0) = <<>> THEN header ELSE Contents(0)] :
                    header \in Headers}
    /\ file' = Len(disk'[0])
    /\ fileSize' = file' /\ firstWrite' = FALSE
    /\ UNCHANGED <<ready, mutex, maxFiles, fileNumber, statement, history, rest>>

Piece(t) == [by |-> t, no |-> record[t].no, part |-> part[t]]

(* Mutant: the size of the file is not kept.                               *)
WritePieceUncounted(t) ==
    /\ file # NoFile /\ at[t] = "writing" /\ part[t] < LineParts
    /\ disk' = [disk EXCEPT ![0] = WriteAt(@, file, Piece(t))]
    /\ file' = file + 1 /\ part' = [part EXCEPT ![t] = @ + 1]
    /\ written' = Append(written, Piece(t))
    /\ UNCHANGED <<ready, mutex, maxFiles, fileSize, firstWrite, fileNumber, at, record, stuck, rest>>

(* ::write, as far as it comes; what it wrote is counted, too, which nobody*)
(* looks at before the mutex is free.                                      *)
WritePiece(t) ==
    /\ file # NoFile /\ at[t] = "writing" /\ part[t] < LineParts
    /\ disk' = [disk EXCEPT ![0] = WriteAt(@, file, Piece(t))]
    /\ file' = file + 1 /\ fileSize' = fileSize + 1 /\ part' = [part EXCEPT ![t] = @ + 1]
    /\ written' = Append(written, Piece(t))
    /\ UNCHANGED <<ready, mutex, maxFiles, firstWrite, fileNumber, at, record, stuck, rest>>

(* Mutant: the mutex stays locked.                                         *)
EndWriteLocked(t) ==
    /\ Goto(t, "writing", "console")
    /\ UNCHANGED <<ready, mutex, appender, disk, statement, history, rest>>

(* The line is in the file, or a part of it, or nothing; who logs does not *)
(* learn which.                                                            *)
EndWrite(t) ==
    /\ Goto(t, "writing", "console")
    /\ Unlock(t)
    /\ UNCHANGED <<ready, appender, disk, statement, history, rest>>

(* Mutant: the header is shown, too.                                       *)
WriteConsoleWithHeader(t) ==
    /\ Goto(t, "console", "idle")
    /\ console' = console \o <<Mark, record[t]>>
    /\ UNCHANGED <<ready, mutex, appender, disk, statement, history, other>>

WriteConsole(t) ==
    /\ Goto(t, "console", "idle")
    /\ console' = Append(console, record[t])
    /\ UNCHANGED <<ready, mutex, appender, disk, statement, history, other>>

-----------------------------------------------------------------------------
(* The process is killed, and will start anew; only the files remain.      *)
Kill ==
    /\ ready /\ ready' = FALSE
    /\ mutex' = NoThread
    /\ file' = NoFile /\ fileSize' = 0 /\ firstWrite' = TRUE /\ fileNumber' = 0
    /\ at' = [t \in Threads |-> "idle"]
    /\ console' = <<>>
    /\ UNCHANGED <<maxFiles, disk, statement, history, other>>

(* Another client in the same directory: same file, its own descriptor.    *)
OtherOpens ==
    /\ maxFiles = 0 /\ other = NoFile /\ Exists(0)
    /\ other' = Len(disk[0])
    /\ UNCHANGED <<ready, mutex, appender, disk, at, statement, history, console>>

OtherWrites ==
    /\ other # NoFile
    /\ disk' = [disk EXCEPT ![0] = WriteAt(@, other, Foreign)]
    /\ other' = other + 1
    /\ UNCHANGED <<ready, mutex, appender, at, statement, history, console>>

-----------------------------------------------------------------------------
Thread(t) ==
    \/ BeginWrite(t) \/ UnlinkLast(t) \/ RenameNext(t)
    \/ OpenFails(t) \/ OpenLogFile(t)
    \/ WritePiece(t) \/ EndWrite(t) \/ WriteConsole(t)

LogNext ==
    \/ InitLogger \/ Kill \/ OtherOpens \/ OtherWrites
    \/ \E t \in Threads : Log(t) \/ Thread(t)

(* Threads run, and each logs finitely many lines.                         *)
LogSpec ==
    /\ Init /\ [][LogNext]_logVars
    /\ \A t \in Threads : WF_logVars(Thread(t))

-----------------------------------------------------------------------------
Records == [by: Threads, no: Nat]
Pieces == [by: Threads, no: Nat, part: Nat]

(* Every variable stays in its type.                                       *)
LogTypeOK ==
    /\ maxFiles \in MaxFilesChoices
    /\ ready \in BOOLEAN /\ stuck \in BOOLEAN /\ firstWrite \in BOOLEAN
    /\ mutex \in Threads \cup {NoThread}
    /\ file \in Int /\ fileSize \in Int /\ other \in Int /\ fileNumber \in Int
    /\ disk \in [Numbers -> Seq(Pieces \cup {Mark, Foreign}) \cup {Missing}]
    /\ at \in [Threads -> Steps]
    /\ record \in [Threads -> Records] /\ part \in [Threads -> Nat]
    /\ console \in Seq(Records) /\ written \in Seq(Pieces)

(* What the process wrote of the files on disk: a file with a larger number*)
(* is older, and so is what comes before in a file.                        *)
PiecesOf(k) == {i \in DOMAIN Contents(k) : disk[k][i] \in Pieces}
OnDisk(piece) == \E k \in Numbers : \E i \in PiecesOf(k) : disk[k][i] = piece

Alone == other = NoFile

(* All of it if the file does not roll; if it rolls, as much as makes a    *)
(* file full; but nothing if there is only one file, which a roll removes. *)
Surely ==
    CASE maxFiles = 0 -> Len(written)
      [] maxFiles = 1 -> 0
      [] OTHER -> IF Len(written) < MaxFileSize THEN Len(written) ELSE MaxFileSize

(* What was written last is still on disk while no second process has      *)
(* opened the file: everything if the file does not roll, and as much as   *)
(* fills a file if at least two are kept.  A single file promises nothing: *)
(* a roll removes it (lines 59-60, with no file to rename).  However many  *)
(* files there are, only the oldest is gone and nothing is missing in      *)
(* between, unless a file could not be removed or renamed.  Kills between  *)
(* the calls of a roll and restarts change nothing about it                *)
(* (RollingFileAppender.h:55-72).                                          *)
NewestLinesAreKept ==
    Alone =>
        /\ \A i \in DOMAIN written : i > Len(written) - Surely => OnDisk(written[i])
        /\ stuck \/ \A i, j \in DOMAIN written : i < j /\ OnDisk(written[i]) => OnDisk(written[j])

WrittenBefore(p, q) == \E i, j \in DOMAIN written : i < j /\ written[i] = p /\ written[j] = q

(* The files on disk, read from the oldest to the newest, show what was    *)
(* written, each piece once and in that order, even if a roll lost a file  *)
(* in the middle because an older one could not be renamed.  When a second *)
(* client writes the same file at its own offset (Util.h:271, without      *)
(* O_APPEND), the two overwrite pieces of each other's lines: of a torn    *)
(* line the remaining pieces still are in their order.  On the console each*)
(* thread's lines are in the order it logged them.                         *)
LinesInOrder ==
    /\ \A k \in Numbers : \A i \in PiecesOf(k) : disk[k][i] \in ToSet(written)
    /\ \A k, l \in Numbers : \A i \in PiecesOf(k), j \in PiecesOf(l) :
          k > l \/ (k = l /\ i < j) => WrittenBefore(disk[k][i], disk[l][j])
    /\ \A i, j \in DOMAIN console :
          i < j /\ console[i].by = console[j].by => console[i].no < console[j].no

(* While no second process has opened the file no line is torn by another, *)
(* of any thread, before or after a roll, a kill or a restart: a piece that*)
(* is not the first of its line follows the one before it                  *)
(* (RollingFileAppender.h:35, 47).  A line may lack its end.               *)
LinesAreWhole ==
    Alone => \A k \in Numbers : \A i \in PiecesOf(k) :
        disk[k][i].part > 0 => i > 1 /\ disk[k][i - 1] = [disk[k][i] EXCEPT !.part = @ - 1]

(* What decides about rolling is the truth: the counted size is that of    *)
(* the open file, however it was opened (RollingFileAppender.h:51, 78-87). *)
SizeIsTrue ==
    Alone /\ file # NoFile /\ ~firstWrite => fileSize = Len(disk[0]) /\ file = fileSize

(* A LOG statement returns, whatever failed: no failure keeps the mutex.   *)
LogReturns == \A t \in Threads : at[t] # "idle" ~> at[t] = "idle"

=============================================================================
