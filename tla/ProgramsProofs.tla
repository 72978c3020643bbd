--------------------------- MODULE ProgramsProofs ---------------------------
(***************************************************************************)
(* Proofs about Configuration and Programs, for every set of programs, of  *)
(* command lines and of lines that a user types, with any local addresses: *)
(* the types, that the endpoints are the ones that were typed, and that a  *)
(* configured program is a server as ServerLifecycle describes it.         *)
(***************************************************************************)
EXTENDS Programs, ServerLifecycleProofs, SequenceLemmas, WellFoundedInduction

-----------------------------------------------------------------------------
(* The inductive invariant *)

HostNumbers == 0..(Len(LocalAddresses) - 1)
Ports == 0..MaxPort

\* The word of line i has been extracted, or dropped.
Gone(i) == i < at \/ (i = at /\ wordRead)

\* Line i is the first behind the given one with a number in S.
FirstBehind(i, S, after) ==
    /\ i \in after + 1 .. Len(typed) /\ typed[i].number \in S
    /\ \A j \in after + 1 .. i - 1 : typed[j].number \notin S

NothingTyped == pc = "args" => typed = <<>> /\ at = 1 /\ ~wordRead /\ host = None

HostAsked == pc = "host" => host = None /\ \A i \in 1..Len(typed) : Gone(i) => typed[i].number \notin HostNumbers

HostFrom(h) ==
    /\ FirstBehind(h, HostNumbers, 0) /\ Gone(h)
    /\ host = LocalAddresses[typed[h].number + 1]

PortAsked ==
    pc = "port" => \E h \in 1..Len(typed) :
                       HostFrom(h) /\ \A i \in h + 1 .. Len(typed) : Gone(i) => typed[i].number \notin Ports

\* What becomes of the line behind the port, p: it is next, or was no endpoint, or was taken.
ForwardFrom(p) ==
    /\ pc = "clear" => (at = p /\ wordRead) \/ (p < Len(typed) /\ Throws(typed[p + 1]))
    /\ pc = "line" => (at = p + 1 /\ ~wordRead) \/ (p < Len(typed) /\ Throws(typed[p + 1]))
    /\ pc = "confirm" => p < Len(typed) \/ eof
    /\ pc \in {"confirm", "cleanup", "interval", "parse", "serve"} /\ wanted = "pair"
       /\ p < Len(typed) /\ ~Throws(typed[p + 1]) => forward = typed[p + 1]

ListenFrom(h, p) ==
    /\ FirstBehind(h, HostNumbers, 0) /\ FirstBehind(p, Ports, h)
    /\ listen = Word(Name(LocalAddresses[typed[h].number + 1]), typed[p].number, NotANumber)

BothChosen ==
    host # None /\ pc \notin {"host", "port"} =>
        \E h, p \in 1..Len(typed) : ListenFrom(h, p) /\ ForwardFrom(p)

CInv ==
    /\ ConfigTypeOK
    /\ NothingTyped
    /\ HostAsked
    /\ PortAsked
    /\ BothChosen

-----------------------------------------------------------------------------
(* What is found in a sequence *)

\* Given is made of words.
LEMMA GivenTypes ==
    ASSUME argv \in Arguments
    PROVE  Given \in Seq(Words)
<1>1. argv \in Seq(Words) /\ Len(argv) \in Nat /\ \A i \in 1..Len(argv) : argv[i] \in Words
  BY ConfigurationAssumption, ElementOfSeq, LenProperties
<1> DEFINE free == {i \in 1..Len(argv) : ~IsFlag(argv[i])}
<1>2. CASE wanted = "pair"
  BY <1>1, <1>2, EmptySeq DEF Given
<1>3. CASE wanted # "pair" /\ free = {}
  <2>1. Given = <<>>
    BY <1>3 DEF Given, SelectInSeq
  <2>2. QED
    BY <2>1, EmptySeq
<1>4. CASE wanted # "pair" /\ free # {}
  <2>1. free \in SUBSET Nat
    BY <1>1
  <2>2. SelectInSeq(argv, LAMBDA word : ~IsFlag(word)) = Min(free)
    BY <1>4 DEF SelectInSeq
  <2> HIDE DEF free
  <2>3. Min(free) \in free
    BY <1>4, <2>1, MinOfSet
  <2>4. Min(free) \in 1..Len(argv)
    BY <2>3 DEF free
  <2>5. Min(free) # 0
    BY <1>1, <2>4
  <2>6. Given = <<argv[Min(free)]>> \/ Given = <<>>
    BY <1>4, <2>2, <2>5, Zenon DEF Given
  <2>7. <<argv[Min(free)]>> \in Seq(Words)
    BY <1>1, <2>4
  <2>8. QED
    BY <2>6, <2>7, EmptySeq
<1>5. QED
  BY <1>2, <1>3, <1>4

\* Only one line is the first that answers a question.
LEMMA AnswerIsFirst ==
    ASSUME NEW S \in SUBSET Int, NEW after \in Nat, NEW i \in Nat, typed \in Seq(Lines), FirstBehind(i, S, after)
    PROVE  Answer(LAMBDA line : line.number \in S, after) = i
<1> DEFINE those == {j \in after + 1 .. Len(typed) : typed[j].number \in S}
<1>1. Len(typed) \in Nat
  BY LenProperties
<1>2. i \in those /\ \A j \in those : i <= j
  BY <1>1 DEF FirstBehind
<1>3. Min(those) = i
  <2>1. \A j \in those : j \in Nat
    BY <1>1
  <2> HIDE DEF those
  <2>2. \A x \in those : (\A y \in those : x <= y) => x = i
    BY <1>2, <2>1
  <2>3. QED
    BY <1>2, <2>2 DEF Min
<1>4. QED
  BY <1>2, <1>3 DEF Answer, SelectInSubSeq

-----------------------------------------------------------------------------
(* Types *)

LEMMA LineTypes ==
    ASSUME PromptTypes
    PROVE  /\ Len(typed) \in Nat
           /\ \A i \in 1..Len(typed) : typed[i] \in Words
BY ConfigurationAssumption, LenProperties, ElementOfSeq DEF PromptTypes

LEMMA AddressTypes ==
    ASSUME NEW n \in HostNumbers
    PROVE  LocalAddresses[n + 1] \in Texts /\ Name(LocalAddresses[n + 1]) \in Texts
<1>1. LocalAddresses \in Seq(Texts)
  BY ConfigurationAssumption
<1>2. Len(LocalAddresses) \in Nat
  BY <1>1, LenProperties
<1>3. n + 1 \in 1..Len(LocalAddresses)
  BY <1>2 DEF HostNumbers
<1>4. LocalAddresses[n + 1] \in Texts
  BY <1>1, <1>3, ElementOfSeq
<1>5. "localhost" \in Texts /\ "any" \in Texts
  BY ConfigurationAssumption
<1>6. QED
  BY <1>4, <1>5 DEF Name

LEMMA WordTypes ==
    ASSUME NEW text \in Texts, NEW port \in Int \cup {NoColon}
    PROVE  /\ Word(text, port, NotANumber) \in Words
           /\ Word(text, port, NotANumber).port = port
<1>1. port \in Int \cup {NoColon, NotANumber} /\ NotANumber \in Int \cup {NotANumber}
  OBVIOUS
<1>2. QED
  BY <1>1 DEF Words, Word

LEMMA PortTypes ==
    ASSUME NEW word \in Words, ~Throws(word)
    PROVE  PortOf(word) \in 0..MaxPort
<1>1. word.port \in Int \cup {NoColon}
  BY DEF Words, Throws
<1>2. MaxPort + 1 \in Nat \ {0} /\ MaxPort = (MaxPort + 1) - 1 /\ 0 \in 0..MaxPort
  BY DEF MaxPort
<1>3. \A m \in Nat \ {0} : \A n \in Int : n % m \in 0..m - 1
  OBVIOUS
<1>4. \A n \in Int : n % (MaxPort + 1) \in 0..MaxPort
  BY <1>2, <1>3, Zenon
<1>5. QED
  BY <1>1, <1>2, <1>4, ConfigurationAssumption, Zenon DEF PortOf

LEMMA PortNumbers ==
    \A n \in 0..MaxPort : n \in Int /\ (n # 0 => n \in 1..MaxPort)
<1>1. MaxPort \in Nat
  BY DEF MaxPort
<1>2. \A m \in Nat : \A n \in 0..m : n \in Int /\ (n # 0 => n \in 1..m)
  OBVIOUS
<1>3. QED
  BY <1>1, <1>2

\* What an action that does not read leaves alone.
ReadsNothing == UNCHANGED <<wanted, argv, typed, at, wordRead, host>>

LEMMA ArgumentMoves ==
    ASSUME UseArguments \/ RefuseArguments \/ AskUser
    PROVE  /\ ReadsNothing /\ UNCHANGED <<eof, killed>>
           /\ pc = "args" /\ pc' \in {"interval", "cleanup", "abort", "exit", "host"}
           /\ UseArguments \/ UNCHANGED <<listen, forward>>
<1>1. CASE UseArguments
  BY <1>1, Zenon DEF UseArguments, Goto, ReadsNothing
<1>2. CASE RefuseArguments
  BY <1>2, Zenon DEF RefuseArguments, Goto, ReadsNothing
<1>3. CASE AskUser
  BY <1>3, Zenon DEF AskUser, Goto, ReadsNothing
<1>4. QED
  BY <1>1, <1>2, <1>3

LEMMA LateMoves ==
    ASSUME Confirm \/ Cleanup \/ ReadInterval \/ Parse
    PROVE  /\ ReadsNothing /\ UNCHANGED <<eof, listen, forward>>
           /\ Cleanup \/ UNCHANGED killed
           /\ \/ pc = "confirm" /\ pc' = "cleanup"
              \/ pc = "cleanup" /\ pc' \in {"parse", "exit"}
              \/ pc = "interval" /\ pc' \in {"serve", "exit"}
              \/ pc = "parse" /\ pc' \in {"serve", "abort"}
<1>1. CASE Confirm
  BY <1>1, Zenon DEF Confirm, Goto, ReadsNothing
<1>2. CASE Cleanup
  BY <1>2, Zenon DEF Cleanup, Goto, ReadsNothing
<1>3. CASE ReadInterval
  BY <1>3, Zenon DEF ReadInterval, Goto, ReadsNothing
<1>4. CASE Parse
  BY <1>4, Zenon DEF Parse, Goto, ReadsNothing
<1>5. QED
  BY <1>1, <1>2, <1>3, <1>4

\* What is read from std::cin.
LEMMA PromptTypesKept ==
    ASSUME PromptTypes, Configure \/ User
    PROVE  PromptTypes'
<1>0. Len(typed) \in Nat
  BY LineTypes
<1>1. CASE \E line \in Lines : Type(line)
  <2>1. PICK line \in Lines : Type(line)
    BY <1>1
  <2>2. typed' = Append(typed, line) /\ Len(typed) < MaxLines /\ UNCHANGED <<at, wordRead, eof>>
    BY <2>1, Zenon DEF Type
  <2>3. typed' \in Seq(Lines) /\ Len(typed') = Len(typed) + 1
    BY <2>2, AddLast DEF PromptTypes
  <2>4. MaxLines \in Nat
    BY ConfigurationAssumption
  <2>5. QED
    BY <1>0, <2>2, <2>3, <2>4 DEF PromptTypes, HasLine
<1>2. CASE UNCHANGED <<typed, at, wordRead>> /\ eof' \in BOOLEAN
  BY <1>2 DEF PromptTypes, HasLine
<1>3. CASE ReadHost \/ ReadPort \/ OutOfRange \/ SkipLine \/ ClearLine \/ ReadForward
  <2>1. UNCHANGED <<typed, eof>>
    BY <1>3, Zenon DEF ReadHost, ReadPort, OutOfRange, SkipLine, ClearLine, ReadForward
  <2>2. \/ at' = at /\ HasLine /\ wordRead' = TRUE
        \/ at' = at + 1 /\ HasLine /\ wordRead' = FALSE
        \/ at' = at /\ wordRead' = FALSE
    BY <1>3, Zenon DEF ReadHost, ReadPort, OutOfRange, SkipLine, ClearLine, ReadForward
  <2>3. at' \in 1..(Len(typed) + 1) /\ (wordRead' => at' <= Len(typed))
    BY <1>0, <2>2 DEF PromptTypes, HasLine
  <2>4. wordRead' \in BOOLEAN
    BY <2>2
  <2>5. QED
    BY <2>1, <2>3, <2>4, Zenon DEF PromptTypes, HasLine
<1>4. UseArguments \/ RefuseArguments \/ AskUser \/ Confirm \/ Cleanup \/ ReadInterval \/ Parse \/ CloseInput
      => UNCHANGED <<typed, at, wordRead>> /\ eof' \in BOOLEAN
  BY ArgumentMoves, LateMoves DEF CloseInput, ReadsNothing, PromptTypes
<1>5. QED
  BY <1>1, <1>2, <1>3, <1>4 DEF Configure, User

\* What has been chosen.
LEMMA EndpointTypesKept ==
    ASSUME PromptTypes, EndpointTypes, argv \in Arguments, Configure \/ User
    PROVE  EndpointTypes'
<1>1. CASE UseArguments
  <2>1. Given[1] \in Words /\ (wanted = "pair" => Given[2] \in Words)
    <3>1. Given \in Seq(Words) /\ Len(Given) \in Nat /\ (Given # <<>> => Len(Given) # 0)
      BY GivenTypes, LenProperties, EmptySeq
    <3>2. Given # <<>> /\ (wanted = "pair" => Len(Given) = 2)
      BY <1>1, Zenon DEF UseArguments, Given
    <3>3. 1 \in 1..Len(Given) /\ (wanted = "pair" => 2 \in 1..Len(Given))
      <4>1. \A n \in Nat : (n # 0 => 1 \in 1..n) /\ (n = 2 => 2 \in 1..n)
        OBVIOUS
      <4>2. QED
        BY <3>1, <3>2, <4>1, Zenon
    <3>4. QED
      BY <3>1, <3>3, ElementOfSeq
  <2>2. listen' = Given[1] /\ ~Throws(Given[1]) /\ UNCHANGED host /\ forward' \in Words \cup {None}
    BY <1>1, <2>1, Zenon DEF UseArguments
  <2>3. pc' \in {"interval", "cleanup"}
    BY <1>1, Zenon DEF UseArguments, Goto
  <2>4. listen' # None
    BY <2>1, <2>2, ConfigurationAssumption
  <2>5. QED
    BY <2>1, <2>2, <2>3, <2>4 DEF EndpointTypes
<1>2. CASE UNCHANGED <<host, listen, forward>> /\ pc' \in {pc, "abort", "exit", "host", "serve"}
  BY <1>2 DEF EndpointTypes
<1>3. CASE ReadHost
  <2>1. typed[at].number \in HostNumbers /\ host' = LocalAddresses[typed[at].number + 1]
    BY <1>3, Zenon DEF ReadHost, HostNumbers
  <2>2. host' \in Texts /\ host' # None
    BY <2>1, AddressTypes, ConfigurationAssumption
  <2>3. UNCHANGED <<listen, forward>> /\ pc' = "port"
    BY <1>3, Zenon DEF ReadHost, Goto
  <2>4. QED
    BY <2>2, <2>3 DEF EndpointTypes
<1>4. CASE ReadPort
  <2>1. pc = "port" /\ pc' \in {"clear", "interval", "cleanup"} /\ UNCHANGED <<host, forward>>
    BY <1>4, Zenon DEF ReadPort, Goto
  <2>2. Name(host) \in Texts
    <3>1. "localhost" \in Texts /\ "any" \in Texts
      BY ConfigurationAssumption
    <3>2. host \in Texts
      BY <2>1 DEF EndpointTypes
    <3>3. QED
      BY <3>1, <3>2, Zenon DEF Name
  <2>3. typed[at].number \in 0..MaxPort /\ listen' = Word(Name(host), typed[at].number, NotANumber)
    BY <1>4, Zenon DEF ReadPort
  <2>4. typed[at].number \in Int
    BY <2>3, PortNumbers, Zenon
  <2>5. listen' \in Words /\ listen'.port = typed[at].number
    BY <2>2, <2>3, <2>4, WordTypes
  <2>6. listen' # None /\ ~Throws(listen')
    BY <2>4, <2>5, ConfigurationAssumption DEF Throws
  <2>7. QED
    BY <2>1, <2>5, <2>6 DEF EndpointTypes
<1>5. CASE ClearLine
  <2>1. UNCHANGED <<host, listen, forward>> /\ pc = "clear" /\ pc' = "line"
    BY <1>5, Zenon DEF ClearLine, Goto
  <2>2. QED
    BY <2>1 DEF EndpointTypes
<1>6. CASE ReadForward
  <2>1. HasLine => typed[at] \in Words
    BY LineTypes DEF PromptTypes, HasLine
  <2>2. Blank \in Words
    <3>1. "" \in Texts
      BY ConfigurationAssumption
    <3>2. QED
      BY <3>1, WordTypes DEF Blank
  <2>3. pc = "line" /\ pc' \in {"confirm", "clear"} /\ UNCHANGED <<host, listen>>
    BY <1>6, Zenon DEF ReadForward, Goto
  <2>4. forward' \in Words \cup {forward}
    <3> DEFINE line == IF HasLine /\ ~wordRead THEN typed[at] ELSE Blank
    <3>1. line \in Words
      BY <2>1, <2>2, Zenon
    <3>2. forward' = line \/ forward' = forward
      BY <1>6, Zenon DEF ReadForward
    <3>3. QED
      BY <3>1, <3>2, Zenon
  <2>5. QED
    BY <2>3, <2>4 DEF EndpointTypes
<1>7. CASE Confirm \/ Cleanup \/ ReadInterval \/ Parse
  BY <1>7, LateMoves DEF EndpointTypes, ReadsNothing
<1>8. RefuseArguments \/ AskUser \/ OutOfRange \/ SkipLine \/ User
      => UNCHANGED <<host, listen, forward>> /\ pc' \in {pc, "abort", "exit", "host"}
  BY Zenon DEF RefuseArguments, AskUser, OutOfRange, SkipLine, User, CloseInput, Type, Goto
<1>9. QED
  BY <1>1, <1>2, <1>3, <1>4, <1>5, <1>6, <1>7, <1>8 DEF Configure

LEMMA ConfigTypesKept ==
    ASSUME ConfigTypeOK, Configure \/ User
    PROVE  ConfigTypeOK'
<1>1. PromptTypes' /\ EndpointTypes'
  BY PromptTypesKept, EndpointTypesKept, Zenon DEF ConfigTypeOK
<1>2. UNCHANGED <<wanted, argv>>
  BY ArgumentMoves, LateMoves, Zenon DEF Configure, User, ReadHost, ReadPort, OutOfRange, SkipLine, ClearLine,
     ReadForward, CloseInput, Type, ReadsNothing
<1>3. pc' \in {pc, "interval", "cleanup", "abort", "exit", "host", "port", "clear", "line", "confirm", "parse", "serve"}
  <2>1. Configure => pc' \in {pc, "interval", "cleanup", "abort", "exit", "host", "port", "clear", "line", "confirm",
                              "parse", "serve"}
    <3>1. ReadHost \/ ReadPort \/ OutOfRange \/ SkipLine \/ ClearLine \/ ReadForward
          => pc' \in {pc, "port", "clear", "interval", "cleanup", "line", "confirm"}
      BY Zenon DEF ReadHost, ReadPort, OutOfRange, SkipLine, ClearLine, ReadForward, Goto
    <3>2. QED
      BY <3>1, ArgumentMoves, LateMoves DEF Configure
  <2>2. User => pc' = pc
    BY Zenon DEF User, CloseInput, Type
  <2>3. QED
    BY <2>1, <2>2
<1>4. killed' \subseteq 1..MaxPort
  <2>1. CASE Cleanup
    <3>1. pc = "cleanup"
      BY <2>1, Zenon DEF Cleanup, Goto
    <3>2. listen \in Words /\ ~Throws(listen)
      BY <3>1 DEF ConfigTypeOK, EndpointTypes
    <3>3. PortOf(listen) # 0 => PortOf(listen) \in 1..MaxPort
      BY <3>2, PortTypes, PortNumbers, Zenon
    <3>4. killed' = killed \/ (PortOf(listen) # 0 /\ killed' = killed \cup {PortOf(listen)})
      BY <2>1, Zenon DEF Cleanup
    <3>5. QED
      BY <3>3, <3>4 DEF ConfigTypeOK
  <2>2. CASE ~Cleanup
    <3>1. UNCHANGED killed
      BY <2>2, ArgumentMoves, LateMoves, Zenon DEF Configure, User, ReadHost, ReadPort, OutOfRange, SkipLine, ClearLine,
         ReadForward, CloseInput, Type
    <3>2. QED
      BY <3>1 DEF ConfigTypeOK
  <2>3. QED
    BY <2>1, <2>2
<1>5. QED
  BY <1>1, <1>2, <1>3, <1>4 DEF ConfigTypeOK

-----------------------------------------------------------------------------
(* What has been typed *)

\* The lines typed so far stay, and who asks for nothing leaves the input alone.
LEMMA TypedIsKept ==
    ASSUME CInv, Configure \/ User
    PROVE  /\ Len(typed) \in Nat /\ Len(typed') \in Nat /\ Len(typed') >= Len(typed)
           /\ \A i \in 1..Len(typed) : typed'[i] = typed[i]
           /\ typed' = typed \/ (UNCHANGED <<wanted, argv, pc, at, wordRead, eof, host, listen, forward>> /\ ~eof)
<1>0. typed \in Seq(Lines) /\ Len(typed) \in Nat
  BY LineTypes DEF CInv, ConfigTypeOK, PromptTypes
<1>1. CASE \E line \in Lines : Type(line)
  <2>1. PICK line \in Lines : Type(line)
    BY <1>1
  <2>2. typed' = Append(typed, line) /\ UNCHANGED <<wanted, argv, pc, at, wordRead, eof, host, listen, forward>> /\ ~eof
    BY <2>1, Zenon DEF Type, Waits
  <2>3. QED
    BY <1>0, <2>2, AddLast
<1>2. CASE ~\E line \in Lines : Type(line)
  <2>1. typed' = typed
    BY <1>2, ArgumentMoves, LateMoves, Zenon DEF Configure, User, ReadHost, ReadPort, OutOfRange, SkipLine, ClearLine,
       ReadForward, CloseInput, ReadsNothing
  <2>2. Len(typed') \in Nat /\ Len(typed') >= Len(typed)
    BY <1>0, <2>1
  <2>3. \A i \in 1..Len(typed) : typed'[i] = typed[i]
    BY <2>1, Zenon
  <2>4. QED
    BY <1>0, <2>1, <2>2, <2>3
<1>3. QED
  BY <1>1, <1>2

\* So the first answer stays the first.
LEMMA FirstStays ==
    ASSUME CInv, Configure \/ User, NEW S, NEW after \in Nat, NEW i \in Nat, FirstBehind(i, S, after)
    PROVE  FirstBehind(i, S, after)' /\ typed'[i] = typed[i] /\ i \in 1..Len(typed) /\ i \in 1..Len(typed')
<1>1. i \in after + 1 .. Len(typed) /\ typed[i].number \in S /\ \A j \in after + 1 .. i - 1 : typed[j].number \notin S
  BY DEF FirstBehind
<1>2. /\ Len(typed) \in Nat /\ Len(typed') \in Nat /\ Len(typed') >= Len(typed)
      /\ \A j \in 1..Len(typed) : typed'[j] = typed[j]
  BY TypedIsKept
<1>3. i \in 1..Len(typed) /\ i \in after + 1 .. Len(typed')
  BY <1>1, <1>2
<1>4. \A j \in after + 1 .. i - 1 : typed'[j] = typed[j]
  BY <1>2, <1>3
<1>5. QED
  BY <1>1, <1>2, <1>3, <1>4 DEF FirstBehind

LEMMA NothingTypedKept ==
    ASSUME CInv, Configure \/ User
    PROVE  NothingTyped'
<1>1. pc' = "args" => pc = "args" /\ UNCHANGED <<typed, at, wordRead, host>>
  <2>1. Configure => pc' # "args" \/ UNCHANGED <<pc, typed, at, wordRead, host>>
    BY ArgumentMoves, LateMoves DEF Configure, ReadHost, ReadPort, OutOfRange, SkipLine, ClearLine, ReadForward,
       Goto, AsksNumber
  <2>2. User => pc' = pc /\ pc # "args"
    BY Zenon DEF User, CloseInput, Type, Waits
  <2>3. QED
    BY <2>1, <2>2
<1>2. QED
  BY <1>1 DEF CInv, NothingTyped

\* A word that is passed over is no answer to the question asked.
LEMMA PassedOver ==
    ASSUME CInv, OutOfRange \/ SkipLine
    PROVE  /\ UNCHANGED <<wanted, pc, typed, host, listen, forward>> /\ pc \in {"host", "port"}
           /\ \A i \in 1..Len(typed) : Gone(i) => Gone(i)'
           /\ \A i \in 1..Len(typed) : Gone(i)' => \/ Gone(i)
                                                   \/ pc = "host" /\ typed[i].number \notin HostNumbers
                                                   \/ pc = "port" /\ typed[i].number \notin Ports
<1>0. Len(typed) \in Nat /\ at \in 1..(Len(typed) + 1) /\ wordRead \in BOOLEAN
  BY LineTypes DEF CInv, ConfigTypeOK, PromptTypes
<1>1. UNCHANGED <<wanted, pc, typed, host, listen, forward>> /\ pc \in {"host", "port"}
  BY DEF OutOfRange, SkipLine, AsksNumber
<1>2. NotANumber \notin HostNumbers /\ NotANumber \notin Ports
  <2>1. \A n \in HostNumbers \cup Ports : n \in Int
    <3>1. Len(LocalAddresses) \in Nat
      BY ConfigurationAssumption, LenProperties
    <3>2. \A n \in HostNumbers : n \in Int
      BY <3>1 DEF HostNumbers
    <3>3. \A n \in Ports : n \in Int
      BY DEF Ports, MaxPort
    <3>4. QED
      BY <3>2, <3>3, Zenon
  <2>2. QED
    BY <2>1, ConfigurationAssumption
<1>3. CASE OutOfRange
  <2>1. ~wordRead /\ wordRead' /\ at' = at
    BY <1>3, Zenon DEF OutOfRange
  <2>2. (pc = "host" /\ typed[at].number \notin HostNumbers) \/ (pc = "port" /\ typed[at].number \notin Ports)
    BY <1>3, <1>1, Zenon DEF OutOfRange, HostNumbers, Ports
  <2>3. QED
    BY <1>0, <1>1, <2>1, <2>2 DEF Gone
<1>4. CASE SkipLine
  <2>1. ~wordRead' /\ at' = at + 1 /\ (wordRead \/ typed[at].number = NotANumber)
    BY <1>4, Zenon DEF SkipLine
  <2>2. \A i \in 1..Len(typed) : Gone(i)' <=> i <= at
    BY <1>0, <2>1 DEF Gone
  <2>3. QED
    BY <1>0, <1>1, <1>2, <2>1, <2>2 DEF Gone
<1>5. QED
  BY <1>1, <1>3, <1>4

\* What the user types is behind what has been read.
LEMMA UserMoves ==
    ASSUME CInv, User
    PROVE  /\ UNCHANGED <<wanted, pc, at, wordRead, host, listen, forward>>
           /\ ~eof /\ (typed' = typed \/ ~eof')
           /\ \A i \in 1..Len(typed) : Gone(i) => Gone(i)'
           /\ \A i \in 1..Len(typed') : Gone(i)' => i \in 1..Len(typed) /\ Gone(i)
<1>1. UNCHANGED <<wanted, pc, at, wordRead, host, listen, forward>>
      /\ ~eof /\ (typed' = typed \/ ~eof')
  <2>1. CASE CloseInput
    BY <2>1, Zenon DEF CloseInput, Waits
  <2>2. CASE \E line \in Lines : Type(line)
    BY <2>2 DEF Type, Waits
  <2>3. QED
    BY <2>1, <2>2 DEF User
<1>2. Len(typed) \in Nat /\ Len(typed') \in Nat
  BY TypedIsKept
<1>3. at \in 1..(Len(typed) + 1) /\ wordRead \in BOOLEAN /\ (wordRead => at <= Len(typed))
  BY DEF CInv, ConfigTypeOK, PromptTypes, HasLine
<1>4. \A i : Gone(i)' <=> Gone(i)
  BY <1>1, Zenon DEF Gone
<1>5. \A i \in 1..Len(typed') : Gone(i) => i \in 1..Len(typed)
  BY <1>2, <1>3 DEF Gone
<1>6. QED
  BY <1>1, <1>4, <1>5, Zenon

\* Where main() is asking for a number, and has come from elsewhere.
LEMMA HostAskedKept ==
    ASSUME CInv, Configure \/ User
    PROVE  HostAsked'
<1>1. CASE AskUser
  <2>1. pc = "args" /\ UNCHANGED <<typed, host>>
    BY <1>1, Zenon DEF AskUser, Goto
  <2>2. typed' = <<>> /\ host' = None
    BY <2>1 DEF CInv, NothingTyped
  <2>3. 1..Len(typed') = {}
    BY <2>2, EmptySeq
  <2>4. QED
    BY <2>2, <2>3, Zenon DEF HostAsked
<1>2. CASE OutOfRange \/ SkipLine
  <2>1. SUFFICES ASSUME pc' = "host"
                 PROVE  host' = None /\ \A i \in 1..Len(typed') : Gone(i)' => typed'[i].number \notin HostNumbers
    BY DEF HostAsked
  <2>2. QED
    BY <1>2, <2>1, PassedOver, Zenon DEF CInv, HostAsked
<1>3. CASE User
  <2>1. SUFFICES ASSUME pc' = "host"
                 PROVE  host' = None /\ \A i \in 1..Len(typed') : Gone(i)' => typed'[i].number \notin HostNumbers
    BY DEF HostAsked
  <2>2. pc = "host" /\ host' = host /\ \A i \in 1..Len(typed') : Gone(i)' => i \in 1..Len(typed) /\ Gone(i)
    BY <1>3, <2>1, UserMoves, Zenon
  <2>3. \A i \in 1..Len(typed) : typed'[i] = typed[i]
    BY TypedIsKept
  <2>4. QED
    BY <2>2, <2>3, Zenon DEF CInv, HostAsked
<1>4. CASE Configure /\ ~AskUser /\ ~OutOfRange /\ ~SkipLine
  <2>1. pc' # "host"
    <3>1. UseArguments \/ RefuseArguments => pc' # "host"
      BY DEF UseArguments, RefuseArguments, Goto
    <3>2. ReadHost \/ ReadPort \/ ClearLine \/ ReadForward => pc' # "host"
      BY DEF ReadHost, ReadPort, ClearLine, ReadForward, Goto
    <3>3. QED
      BY <1>4, <3>1, <3>2, LateMoves DEF Configure
  <2>2. QED
    BY <2>1 DEF HostAsked
<1>5. QED
  BY <1>1, <1>2, <1>3, <1>4

LEMMA PortAskedKept ==
    ASSUME CInv, Configure \/ User
    PROVE  PortAsked'
<1>0. Len(typed) \in Nat /\ at \in 1..(Len(typed) + 1) /\ wordRead \in BOOLEAN
  BY LineTypes DEF CInv, ConfigTypeOK, PromptTypes
<1>1. CASE ReadHost
  <2>1. /\ at <= Len(typed) /\ ~wordRead /\ typed[at].number \in HostNumbers
        /\ host' = LocalAddresses[typed[at].number + 1]
        /\ wordRead' = TRUE /\ UNCHANGED <<typed, at>> /\ pc = "host"
    BY <1>1, Zenon DEF ReadHost, HasLine, HostNumbers, Goto
  <2>2. at \in 1..Len(typed)
    BY <1>0, <2>1
  <2>3. \A j \in 1 .. at - 1 : typed[j].number \notin HostNumbers
    BY <1>0, <2>1 DEF CInv, HostAsked, Gone
  <2>4. HostFrom(at)'
    BY <1>0, <2>1, <2>2, <2>3 DEF HostFrom, FirstBehind, Gone
  <2>5. \A i \in at + 1 .. Len(typed) : ~Gone(i)'
    BY <1>0, <2>1 DEF Gone
  <2>6. QED
    BY <2>1, <2>2, <2>4, <2>5 DEF PortAsked
<1>2. CASE OutOfRange \/ SkipLine \/ User
  <2>1. SUFFICES ASSUME pc' = "port"
                 PROVE  \E h \in 1..Len(typed') :
                            HostFrom(h)' /\ \A i \in h + 1 .. Len(typed') : Gone(i)' => typed'[i].number \notin Ports
    BY DEF PortAsked
  <2>2. pc = "port" /\ UNCHANGED host
    BY <1>2, <2>1, PassedOver, UserMoves
  <2>3. PICK h \in 1..Len(typed) :
            HostFrom(h) /\ \A i \in h + 1 .. Len(typed) : Gone(i) => typed[i].number \notin Ports
    BY <2>2, Zenon DEF CInv, PortAsked
  <2>4. h \in Nat /\ FirstBehind(h, HostNumbers, 0) /\ Gone(h) /\ host = LocalAddresses[typed[h].number + 1]
    BY <1>0, <2>3 DEF HostFrom
  <2>5. FirstBehind(h, HostNumbers, 0)' /\ typed'[h] = typed[h] /\ h \in 1..Len(typed')
    BY <2>4, FirstStays DEF HostNumbers
  <2>6. Gone(h)'
    BY <1>2, <2>3, <2>4, PassedOver, UserMoves
  <2>7. HostFrom(h)'
    BY <2>2, <2>4, <2>5, <2>6 DEF HostFrom
  <2>8. ASSUME NEW i \in h + 1 .. Len(typed'), Gone(i)'
        PROVE  typed'[i].number \notin Ports
    <3>1. Len(typed') \in Nat /\ i \in 1..Len(typed')
      BY <1>0, <2>3, TypedIsKept
    <3>2. i \in 1..Len(typed)
      BY <1>2, <2>8, <3>1, PassedOver, UserMoves
    <3>3. i \in h + 1 .. Len(typed) /\ typed'[i] = typed[i]
      BY <1>0, <2>3, <3>1, <3>2, TypedIsKept
    <3>4. Gone(i) \/ typed[i].number \notin Ports
      BY <1>2, <2>2, <2>8, <3>1, <3>2, PassedOver, UserMoves
    <3>5. QED
      BY <2>3, <3>3, <3>4
  <2>9. QED
    BY <2>5, <2>7, <2>8
<1>3. CASE Configure /\ ~ReadHost /\ ~OutOfRange /\ ~SkipLine
  <2>1. pc' # "port"
    <3>1. ReadPort \/ ClearLine \/ ReadForward => pc' # "port"
      BY DEF ReadPort, ClearLine, ReadForward, Goto
    <3>2. QED
      BY <1>3, <3>1, ArgumentMoves, LateMoves DEF Configure
  <2>2. QED
    BY <2>1 DEF PortAsked
<1>4. QED
  BY <1>1, <1>2, <1>3

\* The line that the forward endpoint is taken from does not change any more.
LEMMA BothChosenKept ==
    ASSUME CInv, Configure \/ User
    PROVE  BothChosen'
<1>0. Len(typed) \in Nat /\ at \in 1..(Len(typed) + 1) /\ wordRead \in BOOLEAN
  BY LineTypes DEF CInv, ConfigTypeOK, PromptTypes
<1>1. CASE ReadPort
  <2>1. /\ pc = "port" /\ pc' \in {"clear", "interval", "cleanup"} /\ (pc' \in {"interval", "cleanup"} => wanted # "pair")
        /\ at <= Len(typed) /\ ~wordRead /\ typed[at].number \in Ports /\ wordRead' = TRUE
        /\ listen' = Word(Name(host), typed[at].number, NotANumber)
        /\ UNCHANGED <<wanted, typed, at, host>>
    BY <1>1 DEF ReadPort, HasLine, Ports, Goto
  <2>2. PICK h \in 1..Len(typed) :
            HostFrom(h) /\ \A i \in h + 1 .. Len(typed) : Gone(i) => typed[i].number \notin Ports
    BY <2>1, Zenon DEF CInv, PortAsked
  <2>3. h < at /\ at \in h + 1 .. Len(typed)
    BY <1>0, <2>1, <2>2 DEF HostFrom, Gone
  <2>4. \A j \in h + 1 .. at - 1 : typed[j].number \notin Ports
    BY <1>0, <2>2, <2>3 DEF Gone
  <2>5. FirstBehind(at, Ports, h)'
    BY <2>1, <2>3, <2>4, Zenon DEF FirstBehind
  <2>6. FirstBehind(h, HostNumbers, 0)'
    BY <2>1, <2>2, Zenon DEF HostFrom, FirstBehind
  <2>7. ListenFrom(h, at)'
    BY <2>1, <2>2, <2>5, <2>6, Zenon DEF HostFrom, ListenFrom
  <2>8. ForwardFrom(at)'
    BY <2>1 DEF ForwardFrom
  <2>9. at \in 1..Len(typed) /\ at' = at
    BY <1>0, <2>1
  <2>10. QED
    BY <2>1, <2>2, <2>7, <2>8, <2>9, Zenon DEF BothChosen
<1>2. CASE UNCHANGED <<wanted, host, listen>> /\ pc \notin {"host", "port"}
  <2>1. SUFFICES ASSUME host' # None, pc' \notin {"host", "port"}
                 PROVE  \E h, p \in 1..Len(typed') : ListenFrom(h, p)' /\ ForwardFrom(p)'
    BY DEF BothChosen
  <2>2. PICK h, p \in 1..Len(typed) : ListenFrom(h, p) /\ ForwardFrom(p)
    BY <1>2, <2>1, Zenon DEF CInv, BothChosen
  <2>3. h \in Nat /\ p \in Nat /\ FirstBehind(h, HostNumbers, 0) /\ FirstBehind(p, Ports, h)
    BY <1>0, <2>2 DEF ListenFrom
  <2>4. /\ FirstBehind(h, HostNumbers, 0)' /\ typed'[h] = typed[h] /\ h \in 1..Len(typed')
        /\ FirstBehind(p, Ports, h)' /\ typed'[p] = typed[p] /\ p \in 1..Len(typed')
    BY <2>3, FirstStays
  <2>5. ListenFrom(h, p)'
    BY <1>2, <2>2, <2>4 DEF ListenFrom
  <2>6. p < Len(typed) => p < Len(typed') /\ typed'[p + 1] = typed[p + 1]
    BY <1>0, <2>2, TypedIsKept
  <2>7. ForwardFrom(p)'
    <3>1. CASE User
      <4>1. UNCHANGED <<wanted, pc, at, wordRead, host, listen, forward>> /\ ~eof /\ (typed' = typed \/ ~eof')
        BY <3>1, UserMoves
      <4>2. typed' # typed => pc \notin {"cleanup", "interval", "parse", "serve"}
        BY <3>1 DEF User, CloseInput, Type, Waits
      <4>3. QED
        BY <1>0, <2>2, <2>6, <4>1, <4>2 DEF ForwardFrom
    <3>2. CASE ClearLine
      <4>1. /\ pc = "clear" /\ pc' = "line" /\ UNCHANGED typed
            /\ at <= Len(typed) => at' = at + 1
            /\ ~wordRead'
        BY <3>2, Zenon DEF ClearLine, HasLine, Goto
      <4>2. (at = p /\ wordRead) \/ (p < Len(typed) /\ Throws(typed[p + 1]))
        BY <2>2, <4>1, Zenon DEF ForwardFrom
      <4>3. (at' = p + 1 /\ ~wordRead') \/ (p < Len(typed') /\ Throws(typed'[p + 1]))
        BY <1>0, <2>2, <4>1, <4>2
      <4>4. QED
        BY <4>1, <4>3 DEF ForwardFrom
    <3>3. CASE ReadForward
      <4> DEFINE line == IF HasLine /\ ~wordRead THEN typed[at] ELSE Blank
      <4>1. /\ pc = "line" /\ UNCHANGED <<typed, eof>> /\ (HasLine \/ eof)
            /\ \/ pc' = "confirm" /\ ~Throws(line) /\ forward' = line
               \/ pc' = "clear" /\ Throws(line)
        BY <3>3, Zenon DEF ReadForward, AtEnd, Goto
      <4>2. (at = p + 1 /\ ~wordRead) \/ (p < Len(typed) /\ Throws(typed[p + 1]))
        BY <2>2, <4>1 DEF ForwardFrom
      <4>3. CASE p < Len(typed) /\ Throws(typed[p + 1])
        <5>1. p < Len(typed') /\ Throws(typed'[p + 1]) /\ pc' \in {"confirm", "clear"}
          BY <4>1, <4>3, Zenon
        <5>2. QED
          BY <5>1 DEF ForwardFrom
      <4>4. CASE at = p + 1 /\ ~wordRead /\ HasLine
        <5>1. p < Len(typed) /\ line = typed[p + 1]
          BY <1>0, <2>2, <4>4 DEF HasLine
        <5>2. UNCHANGED typed
          BY <4>1
        <5>3. \/ pc' = "confirm" /\ forward' = typed'[p + 1] /\ p < Len(typed')
              \/ pc' = "clear" /\ Throws(typed'[p + 1]) /\ p < Len(typed')
          BY <4>1, <5>1, <5>2, Zenon
        <5>4. QED
          BY <5>3 DEF ForwardFrom
      <4>5. CASE at = p + 1 /\ ~wordRead /\ ~HasLine
        <5>1. ~(p < Len(typed)) /\ line = Blank
          BY <1>0, <2>2, <4>5 DEF HasLine
        <5>2. ~Throws(Blank)
          BY ConfigurationAssumption DEF Throws, Blank, Word
        <5>3. UNCHANGED <<typed, eof>> /\ eof
          BY <4>1, <4>5
        <5>4. pc' = "confirm"
          BY <4>1, <5>1, <5>2
        <5>5. ~(p < Len(typed')) /\ eof'
          BY <5>1, <5>3
        <5>6. QED
          BY <5>4, <5>5 DEF ForwardFrom
      <4>6. QED
        BY <4>2, <4>3, <4>4, <4>5, Zenon
    <3>4. CASE Confirm \/ Cleanup \/ ReadInterval \/ Parse
      BY <2>2, <3>4, LateMoves DEF ForwardFrom, ReadsNothing
    <3>5. CASE OutOfRange \/ SkipLine \/ ReadHost \/ ReadPort
      BY <1>2, <3>5 DEF OutOfRange, SkipLine, ReadHost, ReadPort, AsksNumber, Goto
    <3>6. CASE UseArguments \/ RefuseArguments \/ AskUser
      BY <1>2, <2>1, <3>6, ArgumentMoves DEF CInv, NothingTyped
    <3>7. QED
      BY <3>1, <3>2, <3>3, <3>4, <3>5, <3>6 DEF Configure
  <2>8. QED
    BY <2>4, <2>5, <2>7
<1>3. CASE ReadHost \/ ((OutOfRange \/ SkipLine \/ User) /\ pc \in {"host", "port"})
  <2>1. pc' \in {"host", "port"}
    BY <1>3, PassedOver, UserMoves DEF ReadHost, Goto
  <2>2. QED
    BY <2>1 DEF BothChosen
<1>4. CASE UseArguments \/ RefuseArguments \/ AskUser
  <2>1. host' = None
    BY <1>4, ArgumentMoves DEF CInv, NothingTyped, ReadsNothing
  <2>2. QED
    BY <2>1 DEF BothChosen
<1>5. CASE OutOfRange \/ SkipLine \/ User \/ ClearLine \/ ReadForward \/ Confirm \/ Cleanup \/ ReadInterval \/ Parse
  <2>1. UNCHANGED <<wanted, host, listen>>
    BY <1>5, PassedOver, UserMoves, LateMoves, Zenon DEF ClearLine, ReadForward, ReadsNothing
  <2>2. CASE pc \in {"host", "port"}
    <3>1. ~(ClearLine \/ ReadForward \/ Confirm \/ Cleanup \/ ReadInterval \/ Parse)
      BY <2>2, LateMoves DEF ClearLine, ReadForward, Goto
    <3>2. QED
      BY <1>3, <1>5, <2>2, <3>1
  <2>3. CASE pc \notin {"host", "port"}
    BY <1>2, <2>1, <2>3
  <2>4. QED
    BY <2>2, <2>3
<1>6. QED
  BY <1>1, <1>3, <1>4, <1>5 DEF Configure

-----------------------------------------------------------------------------
(* Theorems *)

LEMMA ConfigInitHolds == ASSUME ConfigInit PROVE CInv
<1>1. typed \in Seq(Lines) /\ Len(typed) = 0 /\ MaxLines \in Nat
  BY ConfigurationAssumption, EmptySeq DEF ConfigInit
<1>2. at \in 1..(Len(typed) + 1) /\ wordRead = FALSE /\ eof = FALSE
  BY <1>1 DEF ConfigInit
<1>3. Len(typed) <= MaxLines
  BY <1>1
<1>4. wordRead \in BOOLEAN /\ ~wordRead /\ eof \in BOOLEAN
  BY <1>2, Zenon
<1>5. PromptTypes
  BY <1>1, <1>2, <1>3, <1>4, Zenon DEF PromptTypes
<1>6. QED
  BY <1>5 DEF ConfigInit, CInv, ConfigTypeOK, EndpointTypes, NothingTyped, HostAsked, PortAsked, BothChosen

LEMMA ConfigStepHolds ==
    ASSUME CInv, Configure \/ User \/ UNCHANGED configVars
    PROVE  CInv'
<1>1. CASE Configure \/ User
  BY <1>1, ConfigTypesKept, NothingTypedKept, HostAskedKept, PortAskedKept, BothChosenKept DEF CInv
<1>2. CASE UNCHANGED configVars
  BY <1>2 DEF configVars, CInv, ConfigTypeOK, PromptTypes, EndpointTypes, HasLine, NothingTyped, HostAsked, PortAsked,
     BothChosen, HostFrom, ListenFrom, ForwardFrom, FirstBehind, Gone
<1>3. QED
  BY <1>1, <1>2

\* The inductive invariant of main() up to its server.
THEOREM ConfigInvariant == ConfigSpec => []CInv
<1>1. ConfigInit => CInv
  BY ConfigInitHolds
<1>2. CInv /\ [ConfigNext]_configVars => CInv'
  BY ConfigStepHolds DEF ConfigNext, SpinAtEnd, ConfigDone
<1>3. QED
  BY <1>1, <1>2, PTL DEF ConfigSpec

\* A step of a program is one of main() before there is a server, or one of its server.
LEMMA ProgramSteps ==
    ASSUME [ProgramNext]_programVars
    PROVE  /\ Configure \/ User \/ UNCHANGED configVars
           /\ [Next]_vars
           /\ ~Serving \/ UNCHANGED configVars
           /\ Serving \/ UNCHANGED vars
<1>1. CASE Before
  <2>1. ~Serving
    <3>1. Configure \/ User => pc # "serve"
      <4>1. ReadHost \/ ReadPort \/ OutOfRange \/ SkipLine \/ ClearLine \/ ReadForward \/ User => pc # "serve"
        BY DEF ReadHost, ReadPort, OutOfRange, SkipLine, ClearLine, ReadForward, AsksNumber, User, CloseInput, Type,
           Waits, Goto
      <4>2. QED
        BY <4>1, ArgumentMoves, LateMoves DEF Configure
    <3>2. QED
      BY <1>1, <3>1 DEF Before, Serving
  <2>2. QED
    BY <1>1, <2>1 DEF Before
<1>2. CASE ServerRuns \/ LoopReturns \/ CallerRuns \/ StopIsCalled \/ Interrupt
  BY <1>2 DEF ServerRuns, LoopReturns, CallerRuns, StopIsCalled, Interrupt, Next
<1>3. CASE UNCHANGED programVars
  BY <1>3 DEF programVars
<1>4. QED
  BY <1>1, <1>2, <1>3 DEF ProgramNext, ProgramEnded

\* The types of a program's variables, and that it has no server before it is configured
\* nor after it has refused its arguments.
THEOREM ProgramTypesCorrect == ProgramSpec => []ProgramTypeOK
<1> DEFINE PInv == CInv /\ (~Serving => server = "create")
<1>1. ProgramInit => PInv
  BY ConfigInitHolds DEF ProgramInit, Init
<1>2. PInv /\ [ProgramNext]_programVars => PInv'
  <2>1. SUFFICES ASSUME PInv, [ProgramNext]_programVars PROVE PInv'
    OBVIOUS
  <2>2. CInv'
    BY <2>1, ProgramSteps, ConfigStepHolds
  <2>3. CASE ~Serving
    <3>1. server' = "create"
      BY <2>1, <2>3, ProgramSteps DEF vars
    <3>2. QED
      BY <2>2, <3>1
  <2>4. CASE Serving
    <3>1. Serving'
      BY <2>1, <2>4, ProgramSteps DEF configVars, Serving
    <3>2. QED
      BY <2>2, <3>1
  <2>5. QED
    BY <2>2, <2>3, <2>4
<1>3. ProgramInit => Init
  BY DEF ProgramInit
<1>4. [ProgramNext]_programVars => [Next]_vars
  BY ProgramSteps
<1>5. PInv /\ TypeOK => ProgramTypeOK
  BY DEF CInv, ProgramTypeOK
<1>6. QED
  BY <1>1, <1>2, <1>3, <1>4, <1>5, TypeCorrect, PTL DEF ProgramSpec, Spec

\* Whatever else is typed, the endpoints are made of the first lines that answer the questions.
THEOREM AlwaysConfiguredAsTyped == ProgramSpec => []ConfiguredAsTyped
<1>1. ASSUME CInv PROVE ConfiguredAsTyped
  <2>1. SUFFICES ASSUME Chosen
                 PROVE  /\ listen = Word(Name(LocalAddresses[typed[HostLine].number + 1]), typed[PortLine].number, NotANumber)
                        /\ wanted = "pair" /\ PortLine < Len(typed) /\ ~Throws(typed[PortLine + 1])
                           => forward = typed[PortLine + 1]
    BY DEF ConfiguredAsTyped
  <2>2. host # None /\ pc \in {"cleanup", "interval", "parse", "serve"}
    BY <2>1 DEF Chosen
  <2>3. PICK h, p \in 1..Len(typed) : ListenFrom(h, p) /\ ForwardFrom(p)
    BY <1>1, <2>2 DEF CInv, BothChosen
  <2>4. typed \in Seq(Lines) /\ h \in Nat /\ p \in Nat
    BY <1>1, <2>3 DEF CInv, ConfigTypeOK, PromptTypes
  <2>5. HostNumbers \in SUBSET Int /\ Ports \in SUBSET Int
    <3>1. Len(LocalAddresses) \in Nat
      BY ConfigurationAssumption, LenProperties
    <3>2. \A n \in HostNumbers : n \in Int
      BY <3>1 DEF HostNumbers
    <3>3. \A n \in Ports : n \in Int
      BY DEF Ports, MaxPort
    <3>4. QED
      BY <3>2, <3>3, Zenon
  <2>6. HostLine = h
    BY <2>3, <2>4, <2>5, AnswerIsFirst DEF HostLine, HostNumbers, ListenFrom
  <2>7. PortLine = p
    BY <2>3, <2>4, <2>5, <2>6, AnswerIsFirst DEF PortLine, Ports, ListenFrom
  <2>8. QED
    BY <2>2, <2>3, <2>6, <2>7 DEF ListenFrom, ForwardFrom
<1>2. ProgramInit => CInv
  BY ConfigInitHolds DEF ProgramInit
<1>3. CInv /\ [ProgramNext]_programVars => CInv'
  BY ProgramSteps, ConfigStepHolds
<1>4. QED
  BY <1>1, <1>2, <1>3, PTL DEF ProgramSpec

\* A program is a server of ServerLifecycle once it is configured: what is proved of the
\* servers holds for the programs.
THEOREM ProgramsAreServers == ProgramSpec => Spec
<1>1. ProgramInit => Init
  BY DEF ProgramInit
<1>2. [ProgramNext]_programVars => [Next]_vars
  BY ProgramSteps
<1>3. QED
  BY <1>1, <1>2, PTL DEF ProgramSpec, Spec

\* So a program's main() stops the tasks of its server with tasks_ in nobody else's hands ...
THEOREM ProgramsStopTasks == ProgramSpec => []TasksAreStopped
BY ProgramsAreServers, TasksAreAlwaysStopped, PTL

\* ... and those whose server runs in the foreground leave no handler registered.
THEOREM ProgramsEndClean == ProgramSpec => []CleanEnd
BY ProgramsAreServers, EndsAreClean, PTL
=============================================================================
