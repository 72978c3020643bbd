--------------------------- MODULE Configuration ---------------------------
(***************************************************************************)
(* What the mains do before there is a server: take the endpoints from the *)
(* command line or ask the user for them, free the port, parse.  The       *)
(* programs differ in what they want: "pair" (the proxies) an endpoint to  *)
(* listen on and one to forward to, "listen" (the demo servers) the first  *)
(* only, "client" (notifiable_client) an endpoint and an interval.         *)
(*                                                                         *)
(* A word, on the command line or typed, is what the code can tell of it:  *)
(*   address  the text before the first colon                              *)
(*   port     what std::stoi makes of the text behind it: a number,        *)
(*            NotANumber (it throws), or NoColon                           *)
(*   number   what std::stoi or std::cin >> int makes of the word itself   *)
(* A line that the user types is one word, or blank.                       *)
(***************************************************************************)
EXTENDS Integers, SequencesExt

CONSTANTS
    Wanted,         \* what the programs considered want
    Arguments,      \* the command lines considered, each a sequence of words
    Lines,          \* what the user may type
    Texts,          \* what an address may be
    Flags,          \* those that begin with --
    LocalAddresses, \* the addresses of this machine, "0.0.0.0" first
    MaxLines,       \* bound: lines typed
    NoColon, NotANumber, None

Words == [address: Texts, port: Int \cup {NoColon, NotANumber}, number: Int \cup {NotANumber}]

ASSUME ConfigurationAssumption ==
    /\ Wanted \subseteq {"pair", "listen", "client", "nothing"}
    /\ Arguments \subseteq Seq(Words) /\ Lines \subseteq Words
    /\ {"", "localhost", "any"} \subseteq Texts
    /\ Flags \subseteq Texts /\ "--interval" \in Flags /\ "" \notin Flags
    /\ LocalAddresses \in Seq(Texts) /\ Len(LocalAddresses) > 0
    /\ MaxLines \in Nat
    /\ NoColon \notin Int /\ NotANumber \notin Int \cup {NoColon}
    /\ None \notin Texts \cup Words

VARIABLES
    wanted,   \* what this program wants
    argv,     \* its arguments, without argv[0]
    pc,       \* where main() is
    typed,    \* the lines typed so far
    at,       \* the one that std::cin is in
    wordRead, \* its word has been extracted, its newline has not
    eof,      \* the input ends behind what has been typed
    host,     \* the local address that the user has chosen
    listen,   \* the word to listen on (for the client: to connect to)
    forward,  \* the word to forward to
    killed    \* ports whose process has been killed

configVars == <<wanted, argv, pc, typed, at, wordRead, eof, host, listen, forward, killed>>

MaxPort == 65535

Word(address, port, number) == [address |-> address, port |-> port, number |-> number]

Blank == Word("", NoColon, NotANumber)

\* Endpoint::from_string throws.
Throws(word) == word.port = NotANumber

\* Endpoint::from_string(word).port, a uint16_t
PortOf(word) == IF word.port = NoColon THEN 0 ELSE word.port % (MaxPort + 1)

\* The name that Endpoint::to_string gives to an address.
Name(address) ==
    CASE address = "127.0.0.1" -> "localhost"
      [] address = "0.0.0.0" -> "any"
      [] OTHER -> address

IsFlag(word) == word.address \in Flags

ConfigInit ==
    /\ wanted \in Wanted
    /\ argv \in Arguments
    /\ pc = IF wanted = "nothing" THEN "serve" ELSE "args"
    /\ typed = <<>> /\ at = 1 /\ wordRead = FALSE /\ eof = FALSE
    /\ host = None /\ listen = None /\ forward = None
    /\ killed = {}

Goto(from, to) == pc = from /\ pc' = to

-----------------------------------------------------------------------------
(* The command line *)

\* The proxies take their arguments if there are exactly two, the others take the
\* first that is not a flag, if it is not empty.
Given ==
    IF wanted = "pair"
    THEN IF Len(argv) = 2 THEN argv ELSE <<>>
    ELSE LET first == SelectInSeq(argv, LAMBDA word : ~IsFlag(word))
         IN  IF first = 0 \/ argv[first] = Blank THEN <<>> ELSE <<argv[first]>>

IsLocal(word) == Contains(LocalAddresses, word.address)

UseArguments ==
    /\ Goto("args", IF wanted = "client" THEN "interval" ELSE "cleanup")
    /\ Given # <<>> /\ ~Throws(Given[1]) /\ IsLocal(Given[1])
    /\ listen' = Given[1]
    /\ forward' = IF wanted = "pair" THEN Given[2] ELSE None
    /\ UNCHANGED <<wanted, argv, typed, at, wordRead, eof, host, killed>>

\* exit(1), or an exception that nobody catches
RefuseArguments ==
    /\ Given # <<>>
    /\ \/ Goto("args", "abort") /\ Throws(Given[1])
       \/ Goto("args", "exit") /\ ~Throws(Given[1]) /\ ~IsLocal(Given[1])
    /\ UNCHANGED <<wanted, argv, typed, at, wordRead, eof, host, listen, forward, killed>>

AskUser ==
    /\ Goto("args", "host")
    /\ Given = <<>>
    /\ UNCHANGED <<wanted, argv, typed, at, wordRead, eof, host, listen, forward, killed>>

-----------------------------------------------------------------------------
(* The user is asked *)

HasLine == at <= Len(typed)
AtEnd == eof /\ ~HasLine

AsksNumber == pc \in {"host", "port"}

\* Faulty variant: local addresses are counted from 1.
ReadHost_FromOne ==
    /\ Goto("host", "port")
    /\ HasLine /\ ~wordRead /\ typed[at].number \in 0..(Len(LocalAddresses) - 1)
    /\ host' = LocalAddresses[IF typed[at].number = 0 THEN 1 ELSE typed[at].number]
    /\ wordRead' = TRUE
    /\ UNCHANGED <<wanted, argv, typed, at, eof, listen, forward, killed>>

\* std::cin >> input, in range
ReadHost ==
    /\ Goto("host", "port")
    /\ HasLine /\ ~wordRead /\ typed[at].number \in 0..(Len(LocalAddresses) - 1)
    /\ host' = LocalAddresses[typed[at].number + 1]
    /\ wordRead' = TRUE
    /\ UNCHANGED <<wanted, argv, typed, at, eof, listen, forward, killed>>

ReadPort ==
    /\ Goto("port", CASE wanted = "pair" -> "clear" [] wanted = "client" -> "interval" [] OTHER -> "cleanup")
    /\ HasLine /\ ~wordRead /\ typed[at].number \in 0..MaxPort
    /\ listen' = Word(Name(host), typed[at].number, NotANumber)
    /\ wordRead' = TRUE
    /\ UNCHANGED <<wanted, argv, typed, at, eof, host, forward, killed>>

\* A number out of range is extracted, and the prompt comes again.
OutOfRange ==
    /\ AsksNumber /\ HasLine /\ ~wordRead /\ typed[at].number # NotANumber
    /\ typed[at].number \notin 0..(IF pc = "host" THEN Len(LocalAddresses) - 1 ELSE MaxPort)
    /\ wordRead' = TRUE
    /\ UNCHANGED <<wanted, argv, pc, typed, at, eof, host, listen, forward, killed>>

\* Faulty variant: a word that is no number is not cleared from the input.
SkipLine_NotCleared ==
    /\ AsksNumber /\ HasLine /\ (wordRead \/ typed[at] = Blank)
    /\ at' = at + 1 /\ wordRead' = FALSE
    /\ UNCHANGED <<wanted, argv, pc, typed, eof, host, listen, forward, killed>>

\* operator>> skips white space; where there is no number clear_cin_buffer drops the line.
SkipLine ==
    /\ AsksNumber /\ HasLine /\ (wordRead \/ typed[at].number = NotANumber)
    /\ at' = at + 1 /\ wordRead' = FALSE
    /\ UNCHANGED <<wanted, argv, pc, typed, eof, host, listen, forward, killed>>

\* Faulty variant: the rest of the line with the port is not dropped.
ClearLine_Skipped ==
    /\ Goto("clear", "line")
    /\ UNCHANGED <<wanted, argv, typed, at, wordRead, eof, host, listen, forward, killed>>

\* get_user_string_input drops the rest of a line first, also if there is none to drop.
ClearLine ==
    /\ Goto("clear", "line")
    /\ HasLine \/ AtEnd
    /\ at' = IF HasLine THEN at + 1 ELSE at
    /\ wordRead' = FALSE
    /\ UNCHANGED <<wanted, argv, typed, eof, host, listen, forward, killed>>

\* getline; select_remote_endpoint calls itself again if the format is invalid.
ReadForward ==
    /\ HasLine \/ AtEnd
    /\ LET line == IF HasLine /\ ~wordRead THEN typed[at] ELSE Blank IN
       \/ Goto("line", "confirm") /\ ~Throws(line) /\ forward' = line
       \/ Goto("line", "clear") /\ Throws(line) /\ UNCHANGED forward
    /\ at' = IF HasLine THEN at + 1 ELSE at
    /\ wordRead' = FALSE
    /\ UNCHANGED <<wanted, argv, typed, eof, host, listen, killed>>

\* Press Enter to continue...
Confirm ==
    /\ Goto("confirm", "cleanup")
    /\ HasLine \/ AtEnd
    /\ UNCHANGED <<wanted, argv, typed, at, wordRead, eof, host, listen, forward, killed>>

\* The input has ended: std::cin >> input fails, is cleared and fails again, for ever.
SpinAtEnd == AsksNumber /\ AtEnd /\ UNCHANGED configVars

Waits == pc \in {"host", "port", "clear", "line", "confirm"} /\ ~eof

Type(line) ==
    /\ Waits /\ Len(typed) < MaxLines
    /\ typed' = Append(typed, line)
    /\ UNCHANGED <<wanted, argv, pc, at, wordRead, eof, host, listen, forward, killed>>

CloseInput ==
    /\ Waits
    /\ eof' = TRUE
    /\ UNCHANGED <<wanted, argv, pc, typed, at, wordRead, host, listen, forward, killed>>

-----------------------------------------------------------------------------
(* The rest of main() before the server is made *)

\* Faulty variant: port 0, which the system chooses, counts as in use.
Cleanup_AlsoZero ==
    /\ \/ Goto("cleanup", "parse") /\ UNCHANGED killed
       \/ Goto("cleanup", "parse") /\ killed' = killed \cup {PortOf(listen)}
    /\ UNCHANGED <<wanted, argv, typed, at, wordRead, eof, host, listen, forward>>

\* The port is free, or the process on it is killed, or that fails.
Cleanup ==
    /\ \/ Goto("cleanup", "parse") /\ UNCHANGED killed
       \/ /\ pc = "cleanup" /\ PortOf(listen) # 0
          /\ \/ Goto("cleanup", "parse") /\ killed' = killed \cup {PortOf(listen)}
             \/ Goto("cleanup", "exit") /\ UNCHANGED killed
    /\ UNCHANGED <<wanted, argv, typed, at, wordRead, eof, host, listen, forward>>

\* get_flag_value("--interval") and handle_interval_argument
ReadInterval ==
    /\ LET flag == SelectInSeq(argv, LAMBDA word : word.address = "--interval" /\ word.port = NoColon)
           positive == flag < Len(argv) /\ argv[flag + 1].number # NotANumber /\ argv[flag + 1].number > 0
       IN  Goto("interval", IF flag = 0 \/ positive THEN "serve" ELSE "exit")
    /\ UNCHANGED <<wanted, argv, typed, at, wordRead, eof, host, listen, forward, killed>>

\* Endpoint::from_string for both endpoints; what the proxies forward to may throw.
Parse ==
    /\ \/ Goto("parse", "serve") /\ (wanted = "pair" => ~Throws(forward))
       \/ Goto("parse", "abort") /\ wanted = "pair" /\ Throws(forward)
    /\ UNCHANGED <<wanted, argv, typed, at, wordRead, eof, host, listen, forward, killed>>

-----------------------------------------------------------------------------
Configure ==
    \/ UseArguments \/ RefuseArguments \/ AskUser
    \/ ReadHost \/ ReadPort \/ OutOfRange \/ SkipLine \/ ClearLine \/ ReadForward \/ Confirm
    \/ Cleanup \/ ReadInterval \/ Parse

User == CloseInput \/ \E line \in Lines : Type(line)

Configured == pc \in {"serve", "exit", "abort"}

ConfigDone == Configured /\ UNCHANGED configVars

ConfigNext == Configure \/ User \/ SpinAtEnd \/ ConfigDone

\* Nothing is assumed of the user.
ConfigSpec == ConfigInit /\ [][ConfigNext]_configVars /\ WF_configVars(Configure)

-----------------------------------------------------------------------------
(* Properties *)

PromptTypes ==
    /\ typed \in Seq(Lines) /\ Len(typed) <= MaxLines
    /\ at \in 1..(Len(typed) + 1) /\ wordRead \in BOOLEAN /\ (wordRead => HasLine) /\ eof \in BOOLEAN

EndpointTypes ==
    /\ host \in Texts \cup {None}
    /\ listen \in Words \cup {None} /\ forward \in Words \cup {None}
    /\ pc \in {"port", "clear", "line", "confirm"} => host # None
    /\ pc \in {"clear", "line", "confirm", "cleanup", "interval", "parse"} => listen # None /\ ~Throws(listen)

ConfigTypeOK ==
    /\ wanted \in Wanted /\ argv \in Arguments
    /\ pc \in {"args", "host", "port", "clear", "line", "confirm", "cleanup", "interval", "parse",
               "serve", "exit", "abort"}
    /\ PromptTypes
    /\ EndpointTypes
    /\ killed \subseteq 1..MaxPort

\* The first line behind the given one that answers the question.
Answer(Answers(_), after) == SelectInSubSeq(typed, after + 1, Len(typed), Answers)

HostLine == Answer(LAMBDA line : line.number \in 0..(Len(LocalAddresses) - 1), 0)
PortLine == Answer(LAMBDA line : line.number \in 0..MaxPort, HostLine)

Chosen == host # None /\ pc \in {"cleanup", "interval", "parse", "serve"}

\* Whatever else is typed before, between and behind: the endpoint to listen on is made
\* of the first line that is the number of an address and the first line behind it that
\* is a port; the endpoint to forward to is the next line.  (What is typed after a
\* line that was no endpoint may be dropped, see RetryTakesNextAnswer.)
ConfiguredAsTyped ==
    Chosen =>
        /\ listen = Word(Name(LocalAddresses[typed[HostLine].number + 1]), typed[PortLine].number, NotANumber)
        /\ wanted = "pair" /\ PortLine < Len(typed) /\ ~Throws(typed[PortLine + 1]) => forward = typed[PortLine + 1]

\* Input is never left lying while the program asks, and the end of the input ends the
\* questions, but for those that ask for a number.
InputIsTaken == (HasLine \/ eof) ~> (Configured \/ (~HasLine /\ (eof => AsksNumber)))

\* Two endpoints on the command line are used (README.md:41 gives the proxies --verbose beside them).
ArgumentsAreUsed ==
    wanted = "pair" /\ Len(SelectSeq(argv, LAMBDA word : ~IsFlag(word))) = 2 => pc # "host"

\* After a line that was no endpoint, the next line that is one is taken.
RetryTakesNextAnswer ==
    Chosen /\ wanted = "pair" /\ (\E i \in DOMAIN typed : i > PortLine /\ ~Throws(typed[i]))
        => forward = typed[Answer(LAMBDA line : ~Throws(line), PortLine)]

\* The port that is cleared, and listened on, is the one that was given.
PortIsTheOneGiven == pc = "parse" /\ listen.port # NoColon => PortOf(listen) = listen.port

\* No process is killed by a program that then does not start.
KillsForAServer == pc = "abort" => killed = {}

\* The end of the input ends the program's questions.
EndOfInputEnds == eof ~> Configured
=============================================================================
