------------------------------ MODULE Programs ------------------------------
(***************************************************************************)
(* The programs as a whole: main() configures itself (Configuration) and   *)
(* then creates, starts and stops its server (ServerLifecycle).            *)
(*   clientProxy, serverProxy in the foreground   the proxies              *)
(*   tcp in the foreground                        tcp_echo_server,         *)
(*                                                notifying_server         *)
(*   udp in the background                        udp_echo_server          *)
(* The other servers are made by tests, which configure nothing;           *)
(* notifiable_client has no server.                                        *)
(***************************************************************************)
EXTENDS Configuration, ServerLifecycle

programVars == <<configVars, vars>>

\* What the program that runs such a server wants.
Wants(k, m) ==
    CASE m = "foreground" /\ k \in {"clientProxy", "serverProxy"} -> {"pair"}
      [] m = "foreground" /\ k = "tcp" -> {"listen", "client"}
      [] m = "background" /\ k = "udp" -> {"listen"}
      [] OTHER -> {"nothing"}

ProgramInit ==
    /\ Init
    /\ ConfigInit
    /\ wanted \in Wants(kind, mode)

\* main() up to its server
Before == (Configure \/ User) /\ UNCHANGED vars

Serving == pc = "serve" /\ wanted # "client"

ServerRuns == Serving /\ ServerThread /\ UNCHANGED configVars
LoopReturns == Serving /\ LoopEnds /\ UNCHANGED configVars
CallerRuns == Serving /\ CallerThread /\ UNCHANGED configVars
StopIsCalled == Serving /\ CallStop /\ UNCHANGED configVars
Interrupt == Serving /\ Sigint /\ UNCHANGED configVars

ProgramEnded ==
    /\ \/ pc \in {"exit", "abort"}
       \/ pc = "serve" /\ wanted = "client"
       \/ Serving /\ Terminated
       \/ SpinAtEnd
    /\ UNCHANGED programVars

ProgramNext == Before \/ ServerRuns \/ LoopReturns \/ CallerRuns \/ StopIsCalled \/ Interrupt \/ ProgramEnded

ProgramSpec == ProgramInit /\ [][ProgramNext]_programVars

\* main() and its server run; nothing is assumed of the user.
ProgramFairSpec ==
    /\ ProgramSpec
    /\ WF_programVars(Configure /\ UNCHANGED vars)
    /\ WF_programVars(ServerRuns)
    /\ WF_programVars(LoopReturns)
    /\ WF_programVars(CallerRuns)

-----------------------------------------------------------------------------
(* Properties *)

\* The variables of both parts have their types; there is no server before its
\* program is configured, nor after it has refused.
ProgramTypeOK ==
    /\ ConfigTypeOK
    /\ TypeOK
    /\ ~Serving => server = "create"
=============================================================================
