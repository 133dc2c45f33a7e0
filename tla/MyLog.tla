------------------------------- MODULE MyLog -------------------------------
(***************************************************************************)
(* The logger of service_mylog.c: a file for each hour, opened by the      *)
(* first line of the hour.  Time is counted in hours; a file is the hour   *)
(* it is named after.                                                      *)
(***************************************************************************)
EXTENDS Integers

CONSTANTS
    Day,         \* hours of a day
    MaxTime,     \* bound: hours
    NoFile,      \* no file: NULL
    Stdout

ASSUME LogAssumption ==
    /\ Day \in Nat \ {0} /\ MaxTime \in Nat
    /\ NoFile \notin Nat /\ Stdout \notin Nat /\ NoFile # Stdout

VARIABLES
    now,         \* the hour it is, counted from the first day
    close,       \* inst->close: it writes to files
    time,        \* inst->time: the hour of the day of the file that is open
    output,     \* inst->handle
    streams,     \* the files that are open
    line,        \* the last line: its hour and its file
    busy,        \* the hours in which lines came
    status       \* "none", "running", "crashed" or "released"

logVars == <<now, close, time, output, streams, line, busy, status>>

LogInit ==
    /\ now \in 0 .. Day - 1
    /\ close = FALSE /\ time = -1
    /\ output = NoFile /\ streams = {}
    /\ line = [hour |-> now, file |-> now]
    /\ busy = {} /\ status = "none"

\* Mutant of NewFile: the file of the last hour is not closed.
NewFile_KeepsOpen(toFile) ==
    IF ~toFile \/ now % Day = time
    THEN UNCHANGED <<time, output, streams>>
    ELSE /\ time' = now % Day
         /\ output' \in {now, NoFile}
         /\ streams' = streams \union ({output'} \ {NoFile})

\* new_file: fopen may fail.
NewFile(toFile) ==
    IF ~toFile \/ now % Day = time
    THEN UNCHANGED <<time, output, streams>>
    ELSE /\ time' = now % Day
         /\ output' \in {now, NoFile}
         /\ streams' = (streams \ {output}) \union ({output'} \ {NoFile})

\* logger_init; when it fails it is released, which closes NULL.
LoggerInit(parm) ==
    /\ status = "none"
    /\ close' = parm
    /\ IF parm THEN NewFile(TRUE) ELSE output' = Stdout /\ UNCHANGED <<time, streams>>
    /\ status' = IF output' = NoFile THEN "crashed" ELSE "running"
    /\ UNCHANGED <<now, line, busy>>

\* _logger: with no file it writes through NULL.
Logger ==
    /\ status = "running"
    /\ NewFile(close)
    /\ IF output' = NoFile
       THEN status' = "crashed" /\ UNCHANGED <<line, busy>>
       ELSE /\ line' = [hour |-> now, file |-> output']
            /\ busy' = busy \union {now}
            /\ UNCHANGED status
    /\ UNCHANGED <<now, close>>

\* logger_release.
LoggerRelease ==
    /\ status = "running"
    /\ status' = "released"
    /\ streams' = IF close THEN streams \ {output} ELSE streams
    /\ UNCHANGED <<now, close, time, output, line, busy>>

Hour ==
    /\ now < MaxTime
    /\ now' = now + 1
    /\ UNCHANGED <<close, time, output, streams, line, busy, status>>

LogNext ==
    \/ \E parm \in BOOLEAN : LoggerInit(parm)
    \/ Logger
    \/ LoggerRelease
    \/ Hour

LogSpec == LogInit /\ [][LogNext]_logVars

-----------------------------------------------------------------------------
(* Properties *)

\* A line is written to the file of the hour and the day it came in.  Only
\* the hour of the day is compared: the file of an earlier day goes on when
\* no line came at any other hour since.  No file but the one in use stays
\* open.
LinesInTheirFile ==
    /\ line.file \notin {Stdout, line.hour} =>
          /\ line.file < line.hour
          /\ \A h \in busy \union {line.file} :
                h \in line.file .. line.hour => h % Day = line.hour % Day
    /\ streams \subseteq {output}

=============================================================================
