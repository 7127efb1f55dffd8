----------------------------- MODULE LogRotator -----------------------------
(***************************************************************************)
(* The fileRotator of logger/logger.go.  Every operation holds r.mu, so    *)
(* each is one step; the calls of the operating system may fail.           *)
(*                                                                         *)
(* A log line is its number, and comes in several lengths.  A backup is    *)
(* named after the second of its rotation: two rotations in one second     *)
(* give the same name, and the rename replaces the first backup.           *)
(***************************************************************************)
EXTENDS Integers, FiniteSets

CONSTANTS
    MaxSize, MaxBackups, MaxAge,    \* the configuration; 0 switches a limit off
    LineSizes,      \* the lengths of lines
    MaxLines,       \* bound: lines written
    MaxSeconds      \* bound: the clock

ASSUME RotatorAssumption ==
    LineSizes \subseteq Nat \ {0} /\ MaxSize \in Nat /\ MaxBackups \in Nat /\ MaxAge \in Nat /\ MaxLines \in Nat /\ MaxSeconds \in Nat

VARIABLES
    seconds,
    inDirectory,    \* the configured filename has a directory part
    handle,         \* r.file: "nil", "open" or "closed"
    fileSize,       \* r.size
    current,        \* lines in the log file; NoFile when it does not exist
    diskSize,       \* the size of the log file
    backups,        \* the backup files: second of the rotation -> lines
    lines,          \* Write calls so far
    written,        \* lines whose Write answered no error
    cleaned,        \* history: lines doCleanup removed
    replaced        \* history: lines lost to a backup of the same name

rotatorVars == <<seconds, inDirectory, handle, fileSize, current, diskSize, backups, lines, written, cleaned, replaced>>

NoFile == {0}
Lines(f) == f \ NoFile

\* An earlier run may have left a file; init ignores the error of openNew.
RotatorInit ==
    /\ seconds = 0
    /\ inDirectory \in BOOLEAN
    /\ \/ current = NoFile /\ diskSize = 0
       \/ current = {} /\ diskSize \in {0} \union LineSizes
    /\ \/ handle = "open" /\ fileSize = diskSize /\ current = {}
       \/ handle = "nil" /\ fileSize = 0
    /\ backups = [t \in {} |-> {}]
    /\ lines = 0 /\ written = {} /\ cleaned = {} /\ replaced = {}

\* openNew appends to the file or creates it.  It fails in OpenFile, or in Stat
\* when the file is there; then r.file and r.size stay.
OpenEnds == {"ok", "unopened", "unstatted"}
Opened(file, end) == IF end = "unopened" THEN file ELSE Lines(file)

\* What a Write finds once it has a file.
FoundSize == IF handle = "nil" THEN diskSize ELSE fileSize
FoundLines == IF handle = "nil" THEN Lines(current) ELSE current

NeedsRotation(len) == MaxSize > 0 /\ FoundSize + len > MaxSize

\* Write, when there is no file and none can be opened.
WriteUnopened(end) ==
    /\ lines < MaxLines /\ handle = "nil" /\ end # "ok"
    /\ lines' = lines + 1
    /\ current' = Opened(current, end)
    /\ UNCHANGED <<seconds, inDirectory, handle, fileSize, diskSize, backups, written, cleaned, replaced>>

\* Write without rotation: n bytes reach the file, and fewer than len are an error.
\* A handle left closed by a failed rotation takes none.
Write(len, n) ==
    /\ lines < MaxLines
    /\ ~NeedsRotation(len)
    /\ handle = "closed" => n = 0
    /\ lines' = lines + 1
    /\ handle' = IF handle = "closed" THEN "closed" ELSE "open"
    /\ current' = IF n = len THEN FoundLines \union {lines + 1} ELSE FoundLines
    /\ fileSize' = FoundSize + n
    /\ diskSize' = diskSize + n
    /\ written' = IF n = len THEN written \union {lines + 1} ELSE written
    /\ UNCHANGED <<seconds, inDirectory, backups, cleaned, replaced>>

MutRenamed == IF FoundLines = NoFile THEN backups
              ELSE [t \in DOMAIN backups \union {seconds - (seconds % 2)} |->
                        IF t = seconds - (seconds % 2) THEN FoundLines ELSE backups[t]]

\* The rename of rotate: a missing file is no error.
Renamed == IF FoundLines = NoFile THEN backups
           ELSE [t \in DOMAIN backups \union {seconds} |-> IF t = seconds THEN FoundLines ELSE backups[t]]

Overwritten == IF FoundLines # NoFile /\ seconds \in DOMAIN backups THEN backups[seconds] ELSE {}

\* Write with rotation: close, rename, open, write.  A failed rename keeps the
\* file, a failed open leaves the closed handle, and both leave r.size.
WriteRotated(len, renameOk, end, n) ==
    LET ok == renameOk /\ end = "ok" IN
    /\ lines < MaxLines
    /\ NeedsRotation(len)
    /\ ~ok => n = 0
    /\ lines' = lines + 1
    /\ handle' = IF ok THEN "open" ELSE "closed"
    /\ backups' = IF renameOk THEN Renamed ELSE backups
    /\ replaced' = IF renameOk THEN replaced \union Overwritten ELSE replaced
    /\ current' = IF ~renameOk THEN FoundLines ELSE Opened(NoFile, end) \union (IF n = len THEN {lines + 1} ELSE {})
    /\ fileSize' = IF ok THEN n ELSE FoundSize
    /\ diskSize' = IF renameOk THEN n ELSE diskSize
    /\ written' = IF n = len THEN written \union {lines + 1} ELSE written
    /\ UNCHANGED <<seconds, inDirectory, cleaned>>

\* doCleanup compares the names in the directory with the whole path of the log
\* file: with a directory part no name matches.  The names are sorted.
Expired(t) == MaxAge > 0 /\ seconds - t > MaxAge
Surplus(t) == MaxBackups > 0 /\ Cardinality({u \in DOMAIN backups : u < t}) < Cardinality(DOMAIN backups) - MaxBackups
Removable == IF inDirectory THEN {} ELSE {t \in DOMAIN backups : Expired(t) \/ Surplus(t)}

DoCleanup ==
    /\ MaxAge > 0 \/ MaxBackups > 0
    /\ Removable # {}
    /\ backups' = [t \in DOMAIN backups \ Removable |-> backups[t]]
    /\ cleaned' = cleaned \union UNION {backups[t] : t \in Removable}
    /\ UNCHANGED <<seconds, inDirectory, handle, fileSize, current, diskSize, lines, written, replaced>>

RotatorTick ==
    /\ seconds < MaxSeconds
    /\ seconds' = seconds + 1
    /\ UNCHANGED <<inDirectory, handle, fileSize, current, diskSize, backups, lines, written, cleaned, replaced>>

RotatorNext ==
    \/ \E end \in OpenEnds : WriteUnopened(end)
    \/ \E len \in LineSizes : \E n \in 0..len : Write(len, n)
    \/ \E len \in LineSizes, renameOk \in BOOLEAN, end \in OpenEnds : \E n \in 0..len : WriteRotated(len, renameOk, end, n)
    \/ DoCleanup \/ RotatorTick

RotatorSpec == RotatorInit /\ [][RotatorNext]_rotatorVars

RotatorTypeOK ==
    /\ seconds \in 0..MaxSeconds /\ lines \in 0..MaxLines
    /\ handle \in {"nil", "open", "closed"}
    /\ written \subseteq 1..lines
    /\ DOMAIN backups \subseteq 0..seconds

\* A line whose Write reported success is in the log file or in a backup, unless
\* the cleanup removed it or a second rotation within the same second replaced
\* its backup: no failing open, rename or write loses lines written before.
WrittenLinesKept ==
    written \subseteq Lines(current) \union (UNION {backups[t] : t \in DOMAIN backups}) \union cleaned \union replaced
=============================================================================
