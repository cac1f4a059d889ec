------------------------------ MODULE HostProcess ------------------------------
(***************************************************************************)
(* The processes that report to a result file (main of src/scene_probe.cpp *)
(* and of src/vulkan_scene_viewer.cpp, writeResultFile of src/host/        *)
(* host_cli.cpp), run one after the other over the same file system, and   *)
(* killed at any point.                                                    *)
(*                                                                         *)
(* writeResultFile is split at its calls to the file system, each of which *)
(* may fail.  A file holds the run that wrote it, the status it reports    *)
(* and whether all of it is there.  What a host does between its command   *)
(* line and its result succeeds or throws.                                 *)
(***************************************************************************)
EXTENDS CommandLine

CONSTANTS
    LongestLine,  \* bound: words of the first command line
    ShortLine,    \* bound: words of those of later runs
    MaxRuns       \* bound: runs

ASSUME BoundsAssumption == {LongestLine, ShortLine, MaxRuns} \subseteq Nat
ASSUME WordsAssumption ==
    "" \in Plain /\ None \notin Plain \cup {"ok", "error"} /\ None \notin {0, 1}

VARIABLES
    run,      \* the number of the process, its host and its words
    stage,    \* what it does next, or that it has ended
    line,     \* its command line, as far as it was read
    report,   \* the status writeResultFile is to write; "error" in the handler
    exit,     \* its exit code, None without one
    files,    \* the result files by path
    temps,    \* path + ".tmp"
    trouble   \* history: the disk was full once; a call failed in this run's handler

hostVars == <<run, stage, line, report, exit, files, temps, trouble>>

Missing == [run |-> 0, status |-> None, whole |-> FALSE]

Paths == Plain \ {""}

HostInit ==
    /\ run = [number |-> 0, host |-> None, args |-> <<>>]
    /\ stage = "ended" /\ line = Unread /\ report = None /\ exit = None
    /\ files = [path \in Paths |-> Missing]
    /\ temps = [path \in Paths |-> Missing]
    /\ trouble = [full |-> FALSE, handler |-> FALSE]

path == ResultFile(line)

Launch(host, args) ==
    /\ stage = "ended" /\ run.number < MaxRuns
    /\ run' = [number |-> run.number + 1, host |-> host, args |-> args]
    /\ stage' = "line" /\ line' = Unread /\ report' = None /\ exit' = None
    /\ trouble' = [trouble EXCEPT !.handler = FALSE]
    /\ UNCHANGED <<files, temps>>

Lines(longest) == UNION {[1..n -> Words] : n \in 0..longest}

Exits(code) == stage' = "ended" /\ exit' = code

\* An exception reaches the handler, which reports it if the result file is known
\* (line' is what main knows by then).  One out of the handler's own report only
\* leaves a line on stderr.
Throw(known) ==
    IF report # "error" /\ known # None
    THEN stage' = "directories" /\ report' = "error" /\ UNCHANGED exit
    ELSE Exits(1) /\ UNCHANGED report

\* scene_probe knows its result file once the common options are read, the viewer once
\* the whole line is.
ReadLine ==
    /\ stage = "line"
    /\ LET read == ParseLine(run.host, run.args)
           common == ParseCommonOptions(run.args)
       IN  /\ line' = IF run.host = "scene_probe" THEN [common EXCEPT !.ok = read.ok] ELSE read
           /\ IF read.ok THEN stage' = "work" /\ UNCHANGED <<report, exit>>
              ELSE Throw(ResultFile(line'))
    /\ UNCHANGED <<run, files, temps, trouble>>

\* The scene is loaded, or the viewer runs to its end.
Work ==
    /\ stage = "work"
    /\ IF path = None THEN Exits(0) /\ UNCHANGED report
       ELSE stage' = "directories" /\ report' = "ok" /\ UNCHANGED exit
    /\ UNCHANGED <<run, line, files, temps, trouble>>

WorkFails ==
    /\ stage = "work"
    /\ Throw(path)
    /\ UNCHANGED <<run, line, files, temps, trouble>>
-----------------------------------------------------------------------------
(* writeResultFile.                                                        *)

Returns == Exits(IF report = "error" THEN 1 ELSE 0) /\ UNCHANGED report

\* An empty path is no result file.
CreateDirectories ==
    /\ stage = "directories"
    /\ IF path = "" THEN Returns ELSE stage' = "open" /\ UNCHANGED <<report, exit>>
    /\ UNCHANGED <<run, line, files, temps, trouble>>

Result(whole) == [run |-> run.number, status |-> report, whole |-> whole]

\* The temporary file is truncated.
OpenTemporary ==
    /\ stage = "open"
    /\ temps' = [temps EXCEPT ![path] = Result(FALSE)]
    /\ stage' = "write"
    /\ UNCHANGED <<run, line, report, exit, files, trouble>>

\* MUTANT of WriteTemporary: the stream is still open, and not flushed, at the rename.
WriteTemporary_Unflushed ==
    /\ stage = "write"
    /\ stage' = "remove"
    /\ UNCHANGED <<run, line, report, exit, files, temps, trouble>>

\* The stream is written and closed with its block.
WriteTemporary ==
    /\ stage = "write"
    /\ temps' = [temps EXCEPT ![path] = Result(TRUE)]
    /\ stage' = "remove"
    /\ UNCHANGED <<run, line, report, exit, files, trouble>>

\* Nothing asks the stream whether all was written.
WriteFallsShort ==
    /\ stage = "write"
    /\ stage' = "remove"
    /\ trouble' = [trouble EXCEPT !.full = TRUE]
    /\ UNCHANGED <<run, line, report, exit, files, temps>>

\* Whether this fails is not looked at.
RemoveOld ==
    /\ stage = "remove"
    /\ files' \in {files, [files EXCEPT ![path] = Missing]}
    /\ stage' = "rename"
    /\ UNCHANGED <<run, line, report, exit, temps, trouble>>

\* rename replaces a file that is still there.
Rename ==
    /\ stage = "rename"
    /\ files' = [files EXCEPT ![path] = temps[path]]
    /\ temps' = [temps EXCEPT ![path] = Missing]
    /\ Returns
    /\ UNCHANGED <<run, line, trouble>>

\* MUTANT of CallFails: the error of the rename is not looked at either.
CallFails_RenameIgnored ==
    /\ stage \in {"directories", "open", "write", "rename"} /\ path # ""
    /\ stage = "write" => report = "error"
    /\ IF stage = "rename" THEN Returns ELSE Throw(path)
    /\ trouble' = [trouble EXCEPT !.handler = (report = "error")]
    /\ UNCHANGED <<run, line, files, temps>>

\* The directories, the temporary file or the rename are refused: an exception.  So is
\* the report of an error whose message, which may quote the line, is not UTF-8 (dump).
CallFails ==
    /\ stage \in {"directories", "open", "write", "rename"} /\ path # ""
    /\ stage = "write" => report = "error"
    /\ Throw(path)
    /\ trouble' = [trouble EXCEPT !.handler = (report = "error")]
    /\ UNCHANGED <<run, line, files, temps>>

\* The process is killed.
Killed ==
    /\ stage # "ended"
    /\ stage' = "ended"
    /\ UNCHANGED <<run, line, report, exit, files, temps, trouble>>
-----------------------------------------------------------------------------
HostNext ==
    \/ \E host \in Hosts, args \in Lines(IF run.number = 0 THEN LongestLine ELSE ShortLine) :
           Launch(host, args)
    \/ ReadLine
    \/ Work
    \/ WorkFails
    \/ CreateDirectories
    \/ OpenTemporary
    \/ WriteTemporary
    \/ WriteFallsShort
    \/ RemoveOld
    \/ Rename
    \/ CallFails
    \/ Killed

HostSpec == HostInit /\ [][HostNext]_hostVars
-----------------------------------------------------------------------------
(* Properties.                                                             *)

Contents == [run : Nat, status : {None, "ok", "error"}, whole : BOOLEAN]

\* Type invariant.
HostTypeOK ==
    /\ run.number \in Nat
    /\ stage \in {"line", "work", "directories", "open", "write", "remove", "rename", "ended"}
    /\ report \in {None, "ok", "error"} /\ exit \in {None, 0, 1}
    /\ files \in [Paths -> Contents] /\ temps \in [Paths -> Contents]
    /\ trouble \in [full : BOOLEAN, handler : BOOLEAN]

\* A host does its work exactly for the lines of its grammar (parseCommonOptions,
\* parseOptions, rejectUnknown): an option twice, a value nobody takes, a value that is
\* missing or cannot be converted, or an option of the other host are refused, wherever
\* in the line and whatever stands before; and no line of the grammar is refused.
AcceptsExactly == line # Unread => (line.ok <=> WellFormed(run.host, run.args))

\* docs/tickets/SP1-002: "write to a temp file then replace where practical".  Whoever
\* reads a result file at any time, between any two steps and after any crash, finds none
\* or a whole one, and what is put there is of the run that puts it: what an earlier run
\* left in the temporary file never gets there.  A disk that is full is not noticed.
ResultsAreWholeAndFresh ==
    [][\A p \in Paths :
          files'[p] \notin {files[p], Missing} =>
              /\ files'[p].run = run.number
              /\ files'[p].whole \/ trouble.full]_hostVars

\* The exit code, which docs/tickets/SP1-002 calls the authoritative signal, and the
\* result file agree: after 0 the file holds the success of this run; after 1 it holds no
\* success of this run, and holds its failure if the file was known and no call failed
\* while the failure was written (main of the two hosts).
ExitMatchesResult ==
    path \in Paths =>
        /\ exit = 0 => files[path].run = run.number /\ files[path].status = "ok"
        /\ exit = 1 =>
              IF trouble.handler THEN files[path].run # run.number
              ELSE files[path].run = run.number /\ files[path].status = "error"
=============================================================================
