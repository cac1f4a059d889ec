------------------------------ MODULE CommandLine ------------------------------
(***************************************************************************)
(* The command line of a host (src/host/host_cli.cpp): the options it      *)
(* knows are looked for one after the other, wherever they stand, and the  *)
(* words nothing has consumed are refused at the end.  A line is the       *)
(* sequence of words after the executable's name; a line that is refused   *)
(* (ParseError) is Refused.                                                *)
(***************************************************************************)
EXTENDS Naturals, SequencesExt

CONSTANTS
    Dashed,     \* words that start with "--"
    Plain,      \* words that do not, the empty one among them
    Takes(_, _), \* whether the value of an option can be converted
    None

Words == Dashed \cup Plain

Hosts == {"scene_probe", "vulkan_scene_viewer"}

Flags == {"--offline", "--headless", "--hidden-window", "--orbit-camera", "--static-camera"}

\* In the order of parseCommonOptions.
CommonOptions ==
    <<"--frames", "--ticks", "--scene", "--result-file", "--input-script",
      "--command-script", "--log-file", "--seed",
      "--offline", "--headless", "--hidden-window">>

\* The common options that rejectUnsupportedCommonOptions lets pass.
Supported(host) ==
    IF host = "scene_probe" THEN {"--scene", "--result-file"}
    ELSE {"--scene", "--frames", "--result-file"}

\* The options a host looks for itself, in the order of the viewer's parseOptions.
OwnOptions(host) ==
    IF host = "scene_probe" THEN <<>>
    ELSE <<"--control-profile", "--net-server", "--net-client-id",
           "--orbit-camera", "--static-camera">>

\* No option is a word that does not start with "--".
ASSUME OptionsAssumption ==
    /\ Dashed \cap Plain = {}
    /\ \A host \in Hosts :
          (ToSet(CommonOptions) \cup ToSet(OwnOptions(host))) \cap Plain = {}

Refused == [consumed |-> {}, given |-> {}, ok |-> FALSE]

Unread == [consumed |-> {}, given |-> {}, ok |-> TRUE]

\* The places at which an option stands and is not consumed.
Standing(args, line, option) == {i \in DOMAIN args \ line.consumed : args[i] = option}

\* With the words from place i to place j consumed for an option.
Consumed(line, i, j, option, value) ==
    [line EXCEPT !.consumed = @ \cup (i..j), !.given = @ \cup {<<option, value>>}]

\* consumeFlag.
ConsumeFlag(args, line, option) ==
    LET places == Standing(args, line, option)
    IN  IF places = {} THEN line
        ELSE Consumed(line, Min(places), Min(places), option, TRUE)

\* MUTANT of ConsumeValue: the word that follows is the value, whatever it is.
ConsumeValue_AnyWord(args, line, option) ==
    LET places == Standing(args, line, option)
        i == Min(places)
    IN  IF places = {} THEN line
        ELSE IF i = Len(args) \/ ~Takes(option, args[i + 1]) THEN Refused
        ELSE Consumed(line, i, i + 1, option, args[i + 1])

\* consumeValue, and the conversion of the value.
ConsumeValue(args, line, option) ==
    LET places == Standing(args, line, option)
        i == Min(places)
    IN  IF places = {} THEN line
        ELSE IF i = Len(args) \/ args[i + 1] \in Dashed \/ ~Takes(option, args[i + 1])
             THEN Refused
        ELSE Consumed(line, i, i + 1, option, args[i + 1])

\* One option is looked for, unless an earlier one has thrown.
Look(args, line, option) ==
    IF ~line.ok THEN line
    ELSE IF option \in Flags THEN ConsumeFlag(args, line, option)
    ELSE ConsumeValue(args, line, option)

\* The options of a list are looked for in its order; the first that is refused throws.
ParseOptions(args, line, options) ==
    LET read[n \in 0..Len(options)] ==
            IF n = 0 THEN line ELSE Look(args, read[n - 1], options[n])
    IN  read[Len(options)]

ParseCommonOptions(args) == ParseOptions(args, Unread, CommonOptions)

RejectUnsupported(host, line) ==
    IF \A entry \in line.given : entry[1] \in Supported(host) THEN line ELSE Refused

RejectUnknown(args, line) == IF line.consumed = DOMAIN args THEN line ELSE Refused

\* What each main does with its line, up to its own work.
ParseLine(host, args) ==
    LET common == RejectUnsupported(host, ParseCommonOptions(args))
    IN  IF ~common.ok THEN Refused
        ELSE LET line == ParseOptions(args, common, OwnOptions(host))
             IN  IF line.ok THEN RejectUnknown(args, line) ELSE Refused

\* options.resultFile.
ResultFile(line) ==
    IF \E entry \in line.given : entry[1] = "--result-file"
    THEN (CHOOSE entry \in line.given : entry[1] = "--result-file")[2]
    ELSE None
-----------------------------------------------------------------------------
\* What a line is by its grammar: options of the host in any order, each at most once,
\* an option with a value followed by one that can be converted.
WellFormed(host, args) ==
    \E heads \in SUBSET DOMAIN args :
        LET valued == {i \in heads : args[i] \notin Flags}
        IN  /\ \A i \in heads : args[i] \in Supported(host) \cup ToSet(OwnOptions(host))
            /\ \A i, j \in heads : args[i] = args[j] => i = j
            /\ \A i \in valued : /\ i < Len(args) /\ i + 1 \notin heads
                                 /\ args[i + 1] \in Plain /\ Takes(args[i], args[i + 1])
            /\ DOMAIN args = heads \cup {i + 1 : i \in valued}
=============================================================================
