------------------------------ MODULE Logging ------------------------------
(***************************************************************************)
(* loggingService (logging.go): a log file and an output, either of which  *)
(* may be set, replaced or fail at any time. Every operation holds m.mu    *)
(* from beginning to end, so it is one step.                               *)
(***************************************************************************)
EXTENDS Naturals

CONSTANTS
    Writable,      \* a file opened with O_APPEND|O_CREATE and without O_WRONLY
                   \* can be written: TRUE on Windows, FALSE on Unix
    MaxOpens,      \* bound: successful calls of os.OpenFile
    MaxOutputs,    \* bound: calls of SetLogOutput with a writer
    MaxMessages,   \* bound: log messages
    MaxFaults      \* bound: errors of the disk or of a writer

VARIABLES
    file,      \* m.file: the number of the handle, 0 for nil
    output,    \* m.output: the number of the writer, 0 for nil
    opened,    \* how many handles were opened
    live,      \* the handles that are not closed
    outputs,   \* how many writers were set
    messages,  \* how many messages were logged
    faults,    \* how many errors occurred
    log,       \* history: messages since SetLogFile opened a file, and those in it
    out        \* history: the same for SetLogOutput

vars == <<file, output, opened, live, outputs, messages, faults, log, out>>

\* A sink that was set (or not), the messages it is due and those it got.
Unset == [set |-> FALSE, due |-> 0, got |-> 0]
JustSet == [set |-> TRUE, due |-> 0, got |-> 0]
Logged(s, ok) == [s EXCEPT !.due = @ + 1, !.got = @ + (IF ok THEN 1 ELSE 0)]

Init ==
    /\ file = 0 /\ output = 0
    /\ opened = 0 /\ live = {} /\ outputs = 0
    /\ messages = 0 /\ faults = 0
    /\ log = Unset /\ out = Unset

-----------------------------------------------------------------------------
\* SetLogFile(name) closes the current file, and os.OpenFile succeeds.
OpenLogFile ==
    /\ opened < MaxOpens
    /\ opened' = opened + 1
    /\ file' = opened + 1
    /\ live' = (live \ {file}) \cup {opened + 1}
    /\ log' = JustSet
    /\ UNCHANGED <<output, outputs, messages, faults, out>>

\* SetLogFile(""), or SetLogFile(name) and os.OpenFile fails: the current
\* file is closed all the same.
CloseLogFile ==
    /\ live' = live \ {file}
    /\ file' = 0
    /\ log' = Unset
    /\ UNCHANGED <<output, opened, outputs, messages, faults, out>>

SetLogOutput(w) ==
    /\ w \in {0, outputs + 1}
    /\ w <= MaxOutputs
    /\ output' = w
    /\ outputs' = IF w = 0 THEN outputs ELSE w
    /\ out' = IF w = 0 THEN Unset ELSE JustSet
    /\ UNCHANGED <<file, opened, live, messages, faults, log>>

\* The two halves of Write: an error of one sink drops that sink.
WriteFile(ok) ==
    /\ file' = IF ok THEN file ELSE 0
    /\ live' = IF ok THEN live ELSE live \ {file}
    /\ log' = Logged(log, ok)

WriteOutput(ok) ==
    /\ output' = IF ok THEN output ELSE 0
    /\ out' = Logged(out, ok)

\* loggingWriter.Write; bad are the sinks that fail of their own.
Write(bad) ==
    /\ messages < MaxMessages
    /\ messages' = messages + 1
    /\ bad # {} => faults < MaxFaults
    /\ faults' = faults + (IF bad = {} THEN 0 ELSE 1)
    /\ WriteFile(file # 0 /\ Writable /\ "file" \notin bad)
    /\ WriteOutput(output # 0 /\ "output" \notin bad)
    /\ UNCHANGED <<opened, outputs>>

Next ==
    \/ OpenLogFile \/ CloseLogFile
    \/ \E w \in 0 .. MaxOutputs : SetLogOutput(w)
    \/ \E bad \in SUBSET {"file", "output"} : Write(bad)

Spec == Init /\ [][Next]_vars

-----------------------------------------------------------------------------
\* "SetLogFile sets the file that each logging message would write to": as
\* long as no disk fails, the file holds every message logged since.
FileGetsAll == (log.set /\ faults = 0) => log.got = log.due
=============================================================================
