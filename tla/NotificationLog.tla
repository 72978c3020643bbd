-------------------------- MODULE NotificationLog --------------------------
(***************************************************************************)
(* What the notifying server promises its clients: there is one log of     *)
(* requests, and who joins is told of every later entry of it, in the      *)
(* log's order, but of its own.  A client to whom a write has failed may   *)
(* miss entries, and never sees one twice or out of order.  All clients    *)
(* thus see each other's requests in the same order.                       *)
(***************************************************************************)
EXTENDS Naturals, Sequences

CONSTANTS
    Clients,
    None        \* "not joined"

VARIABLES
    log,        \* the requests, [from |-> the client, data |-> what it sent]
    since,      \* since[d]: length of the log when d joined
    heard,      \* heard[d]: the places in the log d was told of, in order
    lagging     \* clients a write to whom has failed

logVars == <<log, since, heard, lagging>>

Init ==
    /\ log = <<>>
    /\ since = [d \in Clients |-> None]
    /\ heard = [d \in Clients |-> <<>>]
    /\ lagging = {}

Join(d) ==
    /\ since[d] = None
    /\ since' = [since EXCEPT ![d] = Len(log)]
    /\ UNCHANGED <<log, heard, lagging>>

\* A client that has joined makes a request.
Post(c) ==
    /\ since[c] # None
    /\ Len(log') = Len(log) + 1 /\ SubSeq(log', 1, Len(log)) = log
    /\ log'[Len(log')].from = c
    /\ UNCHANGED <<since, heard, lagging>>

Last(d) == IF heard[d] = <<>> THEN since[d] ELSE heard[d][Len(heard[d])]

\* d is told of the next entry that is not its own, or, if it lags, of a later one.
Hear(d) ==
    /\ since[d] # None
    /\ \E n \in Last(d) + 1 .. Len(log) :
        /\ log[n].from # d
        /\ d \in lagging \/ \A m \in Last(d) + 1 .. n - 1 : log[m].from = d
        /\ heard' = [heard EXCEPT ![d] = Append(@, n)]
    /\ UNCHANGED <<log, since, lagging>>

Lag(d) ==
    /\ lagging' = lagging \cup {d}
    /\ UNCHANGED <<log, since, heard>>

Next == \E d \in Clients : Join(d) \/ Post(d) \/ Hear(d) \/ Lag(d)

Spec == Init /\ [][Next]_logVars
=============================================================================
