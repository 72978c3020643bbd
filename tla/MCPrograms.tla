----------------------------- MODULE MCPrograms -----------------------------
(* Words and command lines for TLC. *)
EXTENDS Programs

AnyText == STRING

AllFlags == {"--interval", "--verbose", "--quiet"}

Addresses == <<"0.0.0.0", "127.0.0.1", "10.0.0.1">>

Local == Word("127.0.0.1", 16001, NotANumber)
Wraps == Word("127.0.0.1", 65536 + 16001, NotANumber)
NoPort == Word("127.0.0.1", NotANumber, NotANumber)
Peer == Word("peer", 17000, NotANumber)
PeerNoPort == Word("peer", NotANumber, NotANumber)
Number(n) == Word(ToString(n), NoColon, n)
Interval == Word("--interval", NoColon, NotANumber)
Verbose == Word("--verbose", NoColon, NotANumber)
Quiet == Word("--quiet", NoColon, NotANumber)

ManyArguments ==
    {<<>>, <<Local>>, <<Local, Peer>>, <<Wraps, Peer>>, <<NoPort, Peer>>, <<Peer, Local>>, <<Local, PeerNoPort>>,
     <<Verbose, Local>>, <<Interval, Number(0)>>, <<Local, Interval, Number(0)>>, <<Local, Interval, Number(5)>>,
     <<Local, Interval>>, <<Quiet>>, <<Quiet, Verbose, Local>>, <<Blank, Local, Verbose>>, <<Blank, Local>>}

DocumentedArguments == {<<Local, Peer>>, <<Local, Peer, Verbose>>}

NoArguments == {<<>>}

ManyLines == {Blank, Number(1), Number(16001), Number(70000), Peer, PeerNoPort}
=============================================================================
