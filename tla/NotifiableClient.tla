------------------------- MODULE NotifiableClient --------------------------
(***************************************************************************)
(* The self-validating client (src/notifiable_client): one thread sends    *)
(* numbered requests, one reads echoes and notifications and validates     *)
(* them, a third calls start() and stop().  The server is the environment: *)
(* it echoes the client's requests and notifies it of those of others.     *)
(*                                                                         *)
(* The stream from the server is the messages said, four pieces each:      *)
(*   1  the beginning of the keyword "echo " or "notify ",                 *)
(*   2  the rest of it up to the colon behind the number,                  *)
(*   3  the beginning of the text,                                         *)
(*   4  the rest of it.                                                    *)
(* Piece p of the stream is identified by its place, so that a read is an  *)
(* interval of places.  A read that ends inside piece 2 has the same       *)
(* effect as one that ends before it or behind it.                         *)
(***************************************************************************)
EXTENDS Naturals, Sequences, SequencesExt

CONSTANTS
    Self,       \* the client's id
    Others,     \* the ids of other clients
    None,       \* "no number yet"
    BufSize,    \* STANDARD_BUFFER_SIZE, in pieces
    SendCap,    \* requests the connection holds before a write blocks
    MaxSeq,     \* bound: requests the client sends
    MaxNum,     \* bound: numbers of the other clients' requests
    MaxSaid,    \* bound: messages the server says
    Net         \* subset of {"join", "cut"}: what a read may return

ASSUME ClientAssumption ==
    /\ Self \notin Others
    /\ None \notin Nat
    /\ {BufSize, SendCap} \subseteq Nat \ {0}
    /\ {MaxSeq, MaxNum, MaxSaid} \subseteq Nat
    /\ Net \subseteq {"join", "cut"}

VARIABLES
    caller,     \* where the thread is that calls start() and stop()
    running,    \* running_
    sender,     \* where the sender thread is
    receiver,   \* where the receiver thread is
    conn,       \* the connection: "open" or "closed" by either side
    seq,        \* current_sequence_number_
    requests,   \* numbers of the requests the server has not taken
    said,       \* the messages the server has written
    taken,      \* number of pieces read
    known,      \* client_sequence_numbers_: id -> number, None where there is none
    alarms,     \* the VALIDATION ERRORs logged: "parse", "id", "old"
    validated,  \* places in said of the messages found valid, in the order of the log
    reads       \* history: the intervals of pieces read() has returned

callerVars   == <<caller, running>>
receiverVars == <<receiver, taken, known, alarms, validated, reads>>
serverVars   == <<conn, requests, said>>
vars == <<callerVars, sender, seq, serverVars, receiverVars>>

Init ==
    /\ caller = "created"
    /\ running = FALSE
    /\ sender = "none"
    /\ receiver = "none"
    /\ conn = "open"
    /\ seq = 0
    /\ requests = <<>>
    /\ said = <<>>
    /\ taken = 0
    /\ known = [c \in Others |-> None]
    /\ alarms = {}
    /\ validated = <<>>
    /\ reads = {}

-----------------------------------------------------------------------------
(* The server *)

Say(kind, id, num) ==
    /\ conn = "open" /\ Len(said) < MaxSaid
    /\ said' = Append(said, [kind |-> kind, id |-> id, num |-> num])
    /\ UNCHANGED <<callerVars, sender, seq, conn, receiverVars>>

ServerEchoes ==
    /\ requests # <<>>
    /\ Say("echo", Self, Head(requests))
    /\ requests' = Tail(requests)

\* Requests of one client are notified in order; numbers are missing where the server
\* has read several requests at once.
ServerNotifies(c, n) ==
    /\ \A i \in 1..Len(said) : said[i].id = c => said[i].num < n
    /\ Say("notify", c, n)
    /\ UNCHANGED requests

ServerCloses ==
    /\ conn = "open"
    /\ conn' = "closed"
    /\ UNCHANGED <<callerVars, sender, seq, requests, said, receiverVars>>

-----------------------------------------------------------------------------
(* The sender thread *)

SenderStep(from, to) ==
    /\ sender = from
    /\ sender' = to
    /\ UNCHANGED <<callerVars, conn, said, receiverVars>>

\* while (running_): the next number.
SenderChecks ==
    /\ \/ running /\ seq < MaxSeq /\ SenderStep("check", "write") /\ seq' = seq + 1
       \/ ~running /\ SenderStep("check", "done") /\ UNCHANGED seq
    /\ UNCHANGED requests

\* write() without a timeout: it blocks while the connection is full. What is written
\* to a connection the server has left is gone.
SenderWrites ==
    /\ SenderStep("write", "check")
    /\ \/ conn = "open" /\ Len(requests) < SendCap /\ requests' = Append(requests, seq)
       \/ conn = "closed" /\ UNCHANGED requests
    /\ UNCHANGED seq

\* write() fails: the loop breaks.
SenderFails ==
    /\ conn = "closed"
    /\ SenderStep("write", "done")
    /\ UNCHANGED <<seq, requests>>

-----------------------------------------------------------------------------
(* process_response on the pieces from lo to hi *)

Place(p) == (p - 1) \div 4 + 1
Part(p) == ((p - 1) % 4) + 1
Message(p) == said[Place(p)]

\* response.substr(p, ...) is a keyword
IsKeyword(p, hi) == Part(p) = 1 /\ p + 1 <= hi

\* Faulty variant: the end of a message is the next keyword of the same kind.
End_SameKind(p, hi) ==
    LET others == {q \in p + 1 .. hi : IsKeyword(q, hi) /\ Message(q).kind = Message(p).kind}
    IN IF others = {} THEN hi ELSE Min(others) - 1

\* What find() makes the end of a message: the next keyword of the other kind, or
\* the end of what was read.
End(p, hi) ==
    LET others == {q \in p + 1 .. hi : IsKeyword(q, hi) /\ Message(q).kind # Message(p).kind}
    IN IF others = {} THEN hi ELSE Min(others) - 1

\* parse_echo_response, parse_notification: the first message of the segment is there
\* up to its text; anything behind it is taken for text.
Parses(s) == s.last >= s.first + 2

\* Faulty variant: the number that is expected is taken for an old one.
IsOld_Expected(k, n) == k # None /\ n <= k + 1

\* A number that is not above the known one (None: there is none).
IsOld(k, n) == k # None /\ n < k + 1

Alarm(st, reason) == [st EXCEPT !.alarms = @ \cup {reason}]

\* Faulty variant: the message before is taken for the one that was validated.
Valid_OffByOne(st, s) == [st EXCEPT !.validated = Append(@, Place(s.first) - 1)]

Valid(st, s) == [st EXCEPT !.validated = Append(@, Place(s.first))]

\* handle_echo_response: what does not parse is passed over; the number is compared
\* with itself.
HandleEcho(st, s) ==
    IF ~Parses(s) THEN st
    ELSE IF Message(s.first).id # Self THEN Alarm(st, "id")
    ELSE Valid(st, s)

\* Faulty variant: the number of a known client is not updated.
HandleNotification_NoUpdate(st, s) ==
    LET m == Message(s.first) IN
    IF ~Parses(s) THEN Alarm(st, "parse")
    ELSE IF st.known[m.id] # None THEN Valid(st, s)
    ELSE [Valid(st, s) EXCEPT !.known[m.id] = m.num]

\* validate_notification
HandleNotification(st, s) ==
    LET m == Message(s.first) IN
    IF ~Parses(s) THEN Alarm(st, "parse")
    ELSE IF IsOld(st.known[m.id], m.num) THEN Alarm(st, "old")
    ELSE [Valid(st, s) EXCEPT !.known[m.id] = m.num]

Handle(st, s) == IF Message(s.first).kind = "echo" THEN HandleEcho(st, s) ELSE HandleNotification(st, s)

\* One turn of the loop: it cuts out a message and handles it, or breaks where there is
\* no keyword.
Turn(st, hi) ==
    IF ~IsKeyword(st.at, hi) THEN st
    ELSE LET end == End(st.at, hi)
         IN [Handle(st, [first |-> st.at, last |-> end]) EXCEPT !.at = end + 1]

\* As many turns as there are pieces are enough.
ProcessResponse(lo, hi) ==
    LET after[i \in 0 .. hi + 1 - lo] ==
            IF i = 0 THEN [at |-> lo, known |-> known, alarms |-> alarms, validated |-> validated]
            ELSE Turn(after[i - 1], hi)
        st == after[hi + 1 - lo]
    IN /\ known' = st.known
       /\ alarms' = st.alarms
       /\ validated' = st.validated

-----------------------------------------------------------------------------
(* The receiver thread *)

ReceiverStep(from, to) ==
    /\ receiver = from
    /\ receiver' = to
    /\ UNCHANGED <<callerVars, sender, seq, serverVars>>

ReceiverChecks ==
    /\ ReceiverStep("check", IF running THEN "read" ELSE "done")
    /\ UNCHANGED <<taken, known, alarms, validated, reads>>

Waiting == 4 * Len(said) - taken

\* read() returns n pieces: one message, or what Net allows.
MayReturn(n) ==
    /\ n <= BufSize
    /\ "cut" \in Net \/ (taken + n) % 4 = 0
    /\ "join" \in Net \/ n + (taken % 4) <= 4

ReceiverReads(n) ==
    /\ n <= Waiting /\ MayReturn(n)
    /\ ReceiverStep("read", "check")
    /\ ProcessResponse(taken + 1, taken + n)
    /\ taken' = taken + n
    /\ reads' = reads \cup {[first |-> taken + 1, last |-> taken + n]}

\* Nothing for 100 ms.
ReceiverTimesOut ==
    /\ Waiting = 0 /\ conn = "open"
    /\ ReceiverStep("read", "check")
    /\ UNCHANGED <<taken, known, alarms, validated, reads>>

\* ConnectionClosed
ReceiverSeesClose ==
    /\ Waiting = 0 /\ conn = "closed"
    /\ ReceiverStep("read", "done")
    /\ UNCHANGED <<taken, known, alarms, validated, reads>>

-----------------------------------------------------------------------------
(* start() and stop(), which the destructor calls as well *)

Start ==
    /\ caller = "created"
    /\ caller' = "started"
    /\ running' = TRUE
    /\ sender' = "check"
    /\ receiver' = "check"
    /\ UNCHANGED <<seq, serverVars, taken, known, alarms, validated, reads>>

\* Faulty variant: running_ stays set.
StopBegins_Forgets ==
    /\ caller \in {"created", "started"}
    /\ caller' = "joinSender"
    /\ UNCHANGED <<running, sender, seq, serverVars, receiverVars>>

StopBegins ==
    /\ caller \in {"created", "started"}
    /\ caller' = "joinSender"
    /\ running' = FALSE
    /\ UNCHANGED <<sender, seq, serverVars, receiverVars>>

JoinSender ==
    /\ caller = "joinSender" /\ sender \in {"none", "done"}
    /\ caller' = "joinReceiver"
    /\ UNCHANGED <<running, sender, seq, serverVars, receiverVars>>

\* The receiver has ended: disconnect(), and stop() returns.
JoinReceiver ==
    /\ caller = "joinReceiver" /\ receiver \in {"none", "done"}
    /\ caller' = "stopped"
    /\ conn' = "closed"
    /\ UNCHANGED <<running, sender, seq, requests, said, receiverVars>>

-----------------------------------------------------------------------------
Server ==
    \/ ServerEchoes
    \/ \E c \in Others, n \in 1..MaxNum : ServerNotifies(c, n)
    \/ ServerCloses

SenderThread == SenderChecks \/ SenderWrites \/ SenderFails
ReceiverThread == ReceiverChecks \/ (\E n \in 1..BufSize : ReceiverReads(n)) \/ ReceiverTimesOut \/ ReceiverSeesClose

\* The program has ended, or the sender has come to the bound and sleeps.
Terminated == (caller = "stopped" \/ (sender = "check" /\ seq = MaxSeq)) /\ UNCHANGED vars

Next ==
    \/ Server
    \/ SenderThread \/ ReceiverThread
    \/ Start \/ StopBegins \/ JoinSender \/ JoinReceiver
    \/ Terminated

Spec == Init /\ [][Next]_vars

\* All threads of the client run.
ClientFairSpec ==
    /\ Spec
    /\ WF_vars(SenderThread)
    /\ WF_vars(ReceiverThread)
    /\ WF_vars(JoinSender \/ JoinReceiver)

\* And the server reads: it takes each request, or closes.
FairSpec == ClientFairSpec /\ WF_vars(ServerEchoes)

-----------------------------------------------------------------------------
(* Properties *)

Messages == {[kind |-> "echo", id |-> Self, num |-> n] : n \in 1..MaxSeq}
                \cup [kind : {"notify"}, id : Others, num : 1..MaxNum]

TypeOK ==
    /\ caller \in {"created", "started", "joinSender", "joinReceiver", "stopped"}
    /\ running \in BOOLEAN
    /\ sender \in {"none", "check", "write", "done"}
    /\ receiver \in {"none", "check", "read", "done"}
    /\ conn \in {"open", "closed"}
    /\ seq \in 0..MaxSeq
    /\ requests \in Seq(1..MaxSeq)
    /\ said \in Seq(Messages)
    /\ taken \in 0 .. 4 * Len(said)
    /\ known \in [Others -> 1..MaxNum \cup {None}]
    /\ alarms \subseteq {"parse", "id", "old"}
    /\ validated \in Seq(1..Len(said))
    /\ \A r \in reads : r.first <= r.last /\ r.last <= taken

\* A server that says what is right causes no alarm but by a read that ends inside a
\* message: never for a wrong id or an old number, however many messages a read joins.
FalseAlarmsComeFromCuts ==
    /\ alarms \subseteq {"parse"}
    /\ alarms # {} => \E r \in reads : r.last % 4 # 0

\* The log of validated messages is in the order of the stream and has none twice, and
\* client_sequence_numbers_ holds the last number validated of each client.
ValidatedInOrder ==
    /\ \A i, j \in 1..Len(validated) : i < j => validated[i] < validated[j]
    /\ \A c \in Others :
        LET ofC == {i \in 1..Len(validated) : said[validated[i]].id = c}
        IN known[c] = IF ofC = {} THEN None ELSE said[validated[Max(ofC)]].num

\* A message that was read and not validated was cut by a read, or stood in one read
\* behind one of its own kind or behind a remainder. Nothing else is passed over.
SkippedForAReason ==
    \A m \in 1 .. taken \div 4 :
        \/ \E i \in 1..Len(validated) : validated[i] = m
        \/ \E r \in reads :
            /\ r.first <= 4 * m /\ r.last > 4 * m - 4
            /\ \/ r.first > 4 * m - 3 \/ r.last < 4 * m
               \/ Part(r.first) # 1
               \/ r.first <= 4 * m - 7 /\ said[m - 1].kind = said[m].kind

\* README.md:242, "Handles concatenated messages": every message that was read is
\* validated.
AllAreValidated == \A m \in 1 .. taken \div 4 : \E i \in 1..Len(validated) : validated[i] = m

\* stop() returns, as long as the server takes what the sender's write waits for.
StopReturns == caller = "joinSender" ~> caller = "stopped" \/ Len(said) = MaxSaid
=============================================================================
