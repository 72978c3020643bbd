------------------------- MODULE ClientProxyProofs -------------------------
(***************************************************************************)
(* Proofs about ClientProxy, for any number of sources and connections,    *)
(* any buffer size and any set of faults: the types, the agreement of      *)
(* bindings_ with the bindings' own udp_sender_, and what follows from it  *)
(* for the data: a connection carries one source's, in the order it was    *)
(* sent, and an answer goes back to that source.                           *)
(***************************************************************************)
EXTENDS ClientProxy, SequenceTheorems, TLAPS

-----------------------------------------------------------------------------
(* The inductive invariant *)

\* All the units of a stretch of data are numbered by t.
Tagged(s, t) == \A i \in 1..Len(s) : s[i][1] = t

\* A datagram carries its source's data, a connection that of its own server side.
InputTagged ==
    /\ \A i \in 1..Len(udpIn) : Tagged(udpIn[i].data, udpIn[i].from)
    /\ \A c \in Conns : Tagged(fromServer[c], c)

\* A connection not yet opened belongs to nobody and has carried nothing.
UnusedIsFresh ==
    \A c \in Unused : /\ udpSender[c] = None
                      /\ c \notin registered
                      /\ toServer[c] = <<>>

\* Answers are only ever sent to sources that are bound.
AnswersAreBound == \A i \in 1..Len(udpOut) : bindings[udpOut[i].to] # None

IInv ==
    /\ TypeOK
    /\ BindingsAgree
    /\ UnusedIsFresh
    /\ InputTagged
    /\ SourcesSeparate
    /\ AnswersAreBound
    /\ AnswersGoHome

-----------------------------------------------------------------------------
(* Stretches of data *)

\* Prefix takes a stretch of the data, as read_from and read do with their buffers.
LEMMA PrefixProperties ==
    ASSUME NEW S, NEW s \in Seq(S), NEW n \in 0..Len(s)
    PROVE  /\ Prefix(s, n) \in Seq(S)
           /\ Len(Prefix(s, n)) = n
           /\ \A i \in 1..n : Prefix(s, n)[i] = s[i]
<1>1. \A i \in 1..n : s[i] \in S
  BY ElementOfSeq, LenProperties
<1>2. QED
  BY <1>1, SubSeqProperties, LenProperties DEF Prefix

\* The units a prefix holds keep the number of where they come from.
LEMMA PrefixTagged ==
    ASSUME NEW S, NEW s \in Seq(S), NEW n \in 0..Len(s), NEW t, Tagged(s, t)
    PROVE  Tagged(Prefix(s, n), t)
<1>1. n \in Nat /\ Len(s) \in Nat /\ n <= Len(s)
  BY LenProperties
<1>2. QED
  BY <1>1, PrefixProperties DEF Tagged

\* So do those of what is left behind the first n.
LEMMA RestProperties ==
    ASSUME NEW S, NEW s \in Seq(S), NEW n \in 0..Len(s), NEW t, Tagged(s, t)
    PROVE  /\ SubSeq(s, n + 1, Len(s)) \in Seq(S)
           /\ Tagged(SubSeq(s, n + 1, Len(s)), t)
<1> DEFINE r == SubSeq(s, n + 1, Len(s))
<1>1. /\ Len(s) \in Nat /\ n \in Nat /\ n <= Len(s)
      /\ \A i \in n + 1 .. Len(s) : s[i] \in S
  BY ElementOfSeq, LenProperties
<1>2. /\ r \in Seq(S)
      /\ Len(r) = IF n + 1 <= Len(s) THEN Len(s) - (n + 1) + 1 ELSE 0
      /\ \A i \in 1 .. Len(s) - (n + 1) + 1 : r[i] = s[n + 1 + i - 1]
  BY <1>1, SubSeqProperties
<1>3. ASSUME NEW i \in 1..Len(r) PROVE r[i][1] = t
  <2>1. i \in 1 .. Len(s) - (n + 1) + 1 /\ n + 1 + i - 1 \in 1..Len(s)
    BY <1>1, <1>2
  <2>2. QED
    BY <2>1, <1>2 DEF Tagged
<1>4. QED
  BY <1>2, <1>3 DEF Tagged

\* And those of two stretches one after the other.
LEMMA ConcatTagged ==
    ASSUME NEW S, NEW s \in Seq(S), NEW u \in Seq(S), NEW t, Tagged(s, t), Tagged(u, t)
    PROVE  /\ s \o u \in Seq(S)
           /\ Tagged(s \o u, t)
<1>1. Len(s) \in Nat /\ Len(u) \in Nat
  BY LenProperties
<1>2. QED
  BY <1>1, ConcatProperties DEF Tagged

\* Smaller(BufSize, n): what fits into the buffer.
LEMMA SmallerProperties ==
    ASSUME NEW n \in Nat
    PROVE  Smaller(BufSize, n) \in 0..n
BY ClientProxyAssumption DEF Smaller


-----------------------------------------------------------------------------
(* What the handlers are built from *)

\* A datagram taken from the socket leaves the others as they are.
LEMMA TakeProperties ==
    ASSUME IInv, TakeDatagram
    PROVE  /\ udpIn' \in Seq(Datagrams)
           /\ \A i \in 1..Len(udpIn') : Tagged(udpIn'[i].data, udpIn'[i].from)
           /\ Datagram \in Datagrams
           /\ Tagged(Datagram.data, Datagram.from)
<1>1. udpIn \in Seq(Datagrams) /\ udpIn # <<>> /\ udpIn' = Tail(udpIn)
  BY DEF IInv, TypeOK, TakeDatagram
<1>2. /\ Head(udpIn) \in Datagrams
      /\ Tail(udpIn) \in Seq(Datagrams)
      /\ Len(Tail(udpIn)) = Len(udpIn) - 1
      /\ \A i \in 1..Len(Tail(udpIn)) : Tail(udpIn)[i] = udpIn[i + 1]
  BY <1>1, HeadTailProperties
<1>3. Len(udpIn) \in Nat \ {0}
  BY <1>1, EmptySeq
<1>4. Head(udpIn) = udpIn[1]
  BY <1>1
<1>5. \A i \in 1..Len(udpIn) : Tagged(udpIn[i].data, udpIn[i].from)
  BY DEF IInv, InputTagged
<1>6. ASSUME NEW i \in 1..Len(udpIn') PROVE Tagged(udpIn'[i].data, udpIn'[i].from)
  <2>1. i + 1 \in 1..Len(udpIn) /\ udpIn'[i] = udpIn[i + 1]
    BY <1>1, <1>2, <1>3
  <2>2. QED
    BY <2>1, <1>5
<1>7. QED
  BY <1>1, <1>2, <1>3, <1>4, <1>5, <1>6 DEF Datagram

\* What readUdpMessage returns is data of the source whose key it returns; without
\* a source there are no data.
LEMMA MessageProperties ==
    ASSUME IInv, TakeDatagram, NEW m \in Message
    PROVE  m.key \in Endpoints /\ m.data \in Seq(Units) /\ Tagged(m.data, m.key)
<1>1. /\ Datagram.from \in Sources /\ Datagram.data \in Seq(Units)
      /\ Tagged(Datagram.data, Datagram.from)
  BY TakeProperties DEF Datagrams
<1>2. Smaller(BufSize, Len(Datagram.data)) \in 0..Len(Datagram.data)
  BY <1>1, SmallerProperties, LenProperties
<1>3. CASE m = [key |-> AnyZero, data |-> <<>>]
  BY <1>3, EmptySeq DEF Endpoints, Tagged
<1>4. CASE m = [key |-> Datagram.from, data |-> Prefix(Datagram.data, Smaller(BufSize, Len(Datagram.data)))]
  BY <1>1, <1>2, <1>4, PrefixProperties, PrefixTagged DEF Endpoints
<1>5. QED
  BY <1>3, <1>4 DEF Message

\* A write adds a prefix of the data to the stream of one connection.
LEMMA WriteProperties ==
    ASSUME NEW c \in Conns, NEW data \in Seq(Units), NEW up, WriteToServer(c, data, up),
           NEW t, Tagged(data, t)
    PROVE  \E d \in Seq(Units) : Tagged(d, t) /\ toServer' = [toServer EXCEPT ![c] = @ \o d]
<1>1. PICK n \in Written(c, data, up) : toServer' = [toServer EXCEPT ![c] = @ \o Prefix(data, n)]
  BY DEF WriteToServer
<1>2. n \in 0..Len(data)
  BY LenProperties DEF Written
<1>3. QED
  BY <1>1, <1>2, PrefixProperties, PrefixTagged

-----------------------------------------------------------------------------
(* One lemma per action: it preserves the invariant *)

LEMMA InitInvariant == Init => IInv
<1> SUFFICES ASSUME Init PROVE IInv
  OBVIOUS
<1> USE ClientProxyAssumption DEF Init
<1>1. TypeOK
  <2>1. \A S : <<>> \in Seq(S)
    BY EmptySeq
  <2>2. /\ udpIn \in Seq(Datagrams)
        /\ udpOut \in Seq([to : Sources, data : Seq(Units)])
        /\ toServer \in [Conns -> Seq(Units)]
        /\ fromServer \in [Conns -> Seq(Units)]
    BY <2>1
  <2>3. /\ bindings \in [Endpoints -> Conns \cup {None}]
        /\ udpSender \in [Conns -> Endpoints \cup {None}]
        /\ registered \subseteq Conns
        /\ link \in [Conns -> {"unused", "open", "closed"}]
    OBVIOUS
  <2>4. /\ arrived \in [Sources -> 0..MaxUnits]
        /\ answered \in [Conns -> 0..MaxUnits]
    OBVIOUS
  <2>5. QED
    BY <2>2, <2>3, <2>4 DEF TypeOK
<1>2. BindingsAgree /\ UnusedIsFresh /\ AnswersAreBound /\ AnswersGoHome
  BY DEF BindingsAgree, UnusedIsFresh, Unused, AnswersAreBound, AnswersGoHome, Endpoints
<1>3. InputTagged /\ SourcesSeparate
  BY DEF InputTagged, SourcesSeparate, Tagged
<1>4. QED
  BY <1>1, <1>2, <1>3 DEF IInv

LEMMA StutterInvariant == ASSUME IInv, UNCHANGED vars PROVE IInv'
BY DEF IInv, TypeOK, BindingsAgree, UnusedIsFresh, Unused, InputTagged, SourcesSeparate, AnswersAreBound,
       AnswersGoHome, Tagged, vars, systemVars, udpVars, bindingVars, tcpVars, loopVars, envVars

\* A datagram is taken and dropped: a failed read, or a failed connect.
LEMMA DropInvariant ==
    ASSUME IInv, TakeDatagram, UNCHANGED <<bindingVars, tcpVars, envVars>>
    PROVE  IInv'
<1> USE DEF IInv, bindingVars, tcpVars, envVars
<1>1. TypeOK'
  BY TakeProperties DEF TypeOK, TakeDatagram, loopVars
<1>2. InputTagged'
  BY TakeProperties DEF InputTagged, Tagged
<1>3. BindingsAgree' /\ UnusedIsFresh' /\ SourcesSeparate' /\ AnswersAreBound' /\ AnswersGoHome'
  BY DEF BindingsAgree, UnusedIsFresh, Unused, SourcesSeparate, AnswersAreBound, AnswersGoHome, TakeDatagram
<1>4. QED
  BY <1>1, <1>2, <1>3

LEMMA ForwardOnBindingInvariant ==
    ASSUME IInv, ForwardOnBinding, UNCHANGED envVars
    PROVE  IInv'
<1>1. /\ TakeDatagram
      /\ UNCHANGED <<bindings, udpSender, registered, link, fromServer, serverUp, arrived, answered>>
      /\ UNCHANGED <<udpOut, udpReg, loopEnded, reactor, stopper>>
  BY DEF ForwardOnBinding, TakeDatagram, bindingVars, loopVars, envVars
<1>2. PICK m \in Message : /\ bindings[m.key] # None
                           /\ WriteToServer(bindings[m.key], m.data, link[bindings[m.key]] = "open")
  BY DEF ForwardOnBinding
<1> DEFINE c == bindings[m.key]
<1>3. m.key \in Endpoints /\ m.data \in Seq(Units) /\ Tagged(m.data, m.key)
  BY <1>1, MessageProperties
<1>4. c \in Conns /\ udpSender[c] = m.key
  BY <1>2, <1>3 DEF IInv, TypeOK, BindingsAgree
<1>5. PICK d \in Seq(Units) : Tagged(d, m.key) /\ toServer' = [toServer EXCEPT ![c] = @ \o d]
  BY <1>2, <1>3, <1>4, WriteProperties
<1>6. toServer[c] \in Seq(Units) /\ Tagged(toServer[c], m.key)
  BY <1>4 DEF IInv, TypeOK, SourcesSeparate, Tagged
<1>7. toServer[c] \o d \in Seq(Units) /\ Tagged(toServer[c] \o d, m.key)
  BY <1>5, <1>6, ConcatTagged
<1>8. TypeOK'
  BY <1>1, <1>4, <1>5, <1>7, TakeProperties DEF IInv, TypeOK
<1>9. BindingsAgree' /\ AnswersAreBound' /\ AnswersGoHome'
  BY <1>1 DEF IInv, BindingsAgree, AnswersAreBound, AnswersGoHome
<1>10. UnusedIsFresh'
  <2>1. c \notin Unused
    BY <1>3, <1>4, ClientProxyAssumption DEF IInv, UnusedIsFresh, Endpoints
  <2>2. QED
    BY <1>1, <1>4, <1>5, <2>1 DEF IInv, TypeOK, UnusedIsFresh, Unused
<1>11. InputTagged'
  BY <1>1, TakeProperties DEF IInv, InputTagged, Tagged
<1>12. SourcesSeparate'
  <2>1. ASSUME NEW e \in Conns PROVE \A i \in 1..Len(toServer'[e]) : toServer'[e][i][1] = udpSender'[e]
    <3>1. CASE e = c
      BY <1>1, <1>4, <1>5, <1>7, <3>1 DEF IInv, TypeOK, Tagged
    <3>2. CASE e # c
      BY <1>1, <1>4, <1>5, <3>2 DEF IInv, TypeOK, SourcesSeparate
    <3>3. QED
      BY <3>1, <3>2
  <2>2. QED
    BY <2>1 DEF SourcesSeparate
<1>13. QED
  BY <1>8, <1>9, <1>10, <1>11, <1>12 DEF IInv

LEMMA ConnectAndForwardInvariant ==
    ASSUME IInv, NEW c \in Conns, ConnectAndForward(c), UNCHANGED envVars
    PROVE  IInv'
<1>1. /\ TakeDatagram
      /\ link[c] = "unused"
      /\ link' = [link EXCEPT ![c] = "open"]
      /\ registered' \in {registered, registered \cup {c}}
      /\ UNCHANGED <<fromServer, serverUp, arrived, answered>>
      /\ UNCHANGED <<udpOut, udpReg, loopEnded, reactor, stopper>>
  BY DEF ConnectAndForward, RegisterWithReactor, TakeDatagram, Unused, loopVars, envVars
<1>2. PICK m \in Message : /\ bindings[m.key] = None
                           /\ bindings' = [bindings EXCEPT ![m.key] = c]
                           /\ udpSender' = [udpSender EXCEPT ![c] = m.key]
                           /\ WriteToServer(c, m.data, TRUE)
  BY DEF ConnectAndForward, NoBinding, StoreBinding
<1>3. m.key \in Endpoints /\ m.data \in Seq(Units) /\ Tagged(m.data, m.key)
  BY <1>1, MessageProperties
<1>4. PICK d \in Seq(Units) : Tagged(d, m.key) /\ toServer' = [toServer EXCEPT ![c] = @ \o d]
  BY <1>2, <1>3, WriteProperties
<1>5. udpSender[c] = None /\ c \notin registered /\ toServer[c] = <<>>
  BY <1>1 DEF IInv, UnusedIsFresh, Unused
<1>6. toServer'[c] \in Seq(Units) /\ Tagged(toServer'[c], m.key)
  BY <1>4, <1>5, ConcatEmptySeq DEF IInv, TypeOK
<1>7. c # None /\ None \notin Endpoints
  BY ClientProxyAssumption
<1>8. TypeOK'
  <2>1. toServer' \in [Conns -> Seq(Units)]
    BY <1>4, <1>6 DEF IInv, TypeOK
  <2>2. bindings' \in [Endpoints -> Conns \cup {None}] /\ udpSender' \in [Conns -> Endpoints \cup {None}]
    BY <1>2, <1>3 DEF IInv, TypeOK
  <2>3. link' \in [Conns -> {"unused", "open", "closed"}] /\ registered' \subseteq Conns
    BY <1>1 DEF IInv, TypeOK
  <2>4. QED
    BY <1>1, <2>1, <2>2, <2>3, TakeProperties DEF IInv, TypeOK
<1>9. BindingsAgree'
  <2>1. ASSUME NEW k \in Endpoints, bindings'[k] # None PROVE udpSender'[bindings'[k]] = k
    <3>1. CASE k = m.key
      BY <1>2, <1>3, <3>1 DEF IInv, TypeOK
    <3>2. CASE k # m.key
      <4>1. bindings'[k] = bindings[k] /\ bindings[k] \in Conns /\ udpSender[bindings[k]] = k
        BY <1>2, <1>3, <2>1, <3>2 DEF IInv, TypeOK, BindingsAgree
      <4>2. bindings[k] # c
        BY <1>5, <1>7, <4>1
      <4>3. QED
        BY <1>2, <4>1, <4>2 DEF IInv, TypeOK
    <3>3. QED
      BY <3>1, <3>2
  <2>2. ASSUME NEW e \in Conns, link'[e] # "unused"
        PROVE  udpSender'[e] \in Endpoints /\ bindings'[udpSender'[e]] = e
    <3>1. CASE e = c
      BY <1>2, <1>3, <3>1 DEF IInv, TypeOK
    <3>2. CASE e # c
      <4>1. udpSender'[e] = udpSender[e] /\ udpSender[e] \in Endpoints /\ bindings[udpSender[e]] = e
        BY <1>1, <1>2, <2>2, <3>2 DEF IInv, TypeOK, BindingsAgree
      <4>2. udpSender[e] # m.key
        BY <1>2, <4>1, ClientProxyAssumption
      <4>3. QED
        BY <1>2, <4>1, <4>2 DEF IInv, TypeOK
    <3>3. QED
      BY <3>1, <3>2
  <2>3. QED
    BY <2>1, <2>2 DEF BindingsAgree
<1>10. UnusedIsFresh'
  BY <1>1, <1>2, <1>4 DEF IInv, TypeOK, UnusedIsFresh, Unused
<1>11. InputTagged'
  BY <1>1, TakeProperties DEF IInv, InputTagged, Tagged
<1>12. SourcesSeparate'
  <2>1. ASSUME NEW e \in Conns PROVE \A i \in 1..Len(toServer'[e]) : toServer'[e][i][1] = udpSender'[e]
    <3>1. CASE e = c
      BY <1>2, <1>6, <3>1 DEF IInv, TypeOK, Tagged
    <3>2. CASE e # c
      BY <1>2, <1>4, <3>2 DEF IInv, TypeOK, SourcesSeparate
    <3>3. QED
      BY <3>1, <3>2
  <2>2. QED
    BY <2>1 DEF SourcesSeparate
<1>13. AnswersAreBound' /\ AnswersGoHome'
  <2>1. ASSUME NEW i \in 1..Len(udpOut) PROVE bindings'[udpOut[i].to] = bindings[udpOut[i].to]
    <3>1. udpOut[i].to \in Endpoints
      <4>1. udpOut \in Seq([to : Sources, data : Seq(Units)])
        BY DEF IInv, TypeOK
      <4>2. udpOut[i] \in [to : Sources, data : Seq(Units)]
        BY <4>1, ElementOfSeq
      <4>3. QED
        BY <4>2 DEF Endpoints
    <3>2. udpOut[i].to # m.key
      BY <1>2 DEF IInv, AnswersAreBound
    <3>3. QED
      BY <1>2, <3>1, <3>2 DEF IInv, TypeOK
  <2>2. QED
    BY <1>1, <2>1 DEF IInv, AnswersAreBound, AnswersGoHome
<1>14. QED
  BY <1>8, <1>9, <1>10, <1>11, <1>12, <1>13 DEF IInv

LEMMA ForwardAnswerInvariant ==
    ASSUME IInv, NEW c \in Conns, ForwardAnswer(c), UNCHANGED envVars
    PROVE  IInv'
<1> DEFINE n == Smaller(BufSize, Len(fromServer[c]))
           out == [to |-> udpSender[c], data |-> Prefix(fromServer[c], n)]
<1>1. /\ c \in registered
      /\ fromServer' = [fromServer EXCEPT ![c] = SubSeq(@, n + 1, Len(@))]
      /\ \/ udpSender[c] # AnyZero /\ udpOut' = Append(udpOut, out)
         \/ UNCHANGED udpOut
      /\ UNCHANGED <<udpIn, bindings, udpSender, registered, link, toServer>>
      /\ UNCHANGED <<udpReg, loopEnded, reactor, stopper, serverUp, arrived, answered>>
  BY DEF ForwardAnswer, bindingVars, loopVars, envVars
<1>2. fromServer[c] \in Seq(Units) /\ Tagged(fromServer[c], c)
  BY DEF IInv, TypeOK, InputTagged
<1>3. n \in 0..Len(fromServer[c])
  BY <1>2, SmallerProperties, LenProperties
<1>4. udpSender[c] \in Endpoints /\ bindings[udpSender[c]] = c
  BY <1>1 DEF IInv, BindingsAgree, UnusedIsFresh, Unused
<1>5. fromServer'[c] \in Seq(Units) /\ Tagged(fromServer'[c], c)
  BY <1>1, <1>2, <1>3, RestProperties DEF IInv, TypeOK
<1>6. \A e \in Conns \ {c} : fromServer'[e] = fromServer[e]
  BY <1>1 DEF IInv, TypeOK
<1>7. out.data \in Seq(Units) /\ Tagged(out.data, c)
  BY <1>2, <1>3, PrefixProperties, PrefixTagged
<1>8. TypeOK' /\ AnswersAreBound' /\ AnswersGoHome'
  <2>1. fromServer' \in [Conns -> Seq(Units)]
    BY <1>1, <1>5 DEF IInv, TypeOK
  <2>2. udpOut \in Seq([to : Sources, data : Seq(Units)])
    BY DEF IInv, TypeOK
  <2>3. ASSUME udpSender[c] # AnyZero, udpOut' = Append(udpOut, out)
        PROVE  /\ udpOut' \in Seq([to : Sources, data : Seq(Units)])
               /\ Len(udpOut') = Len(udpOut) + 1
               /\ \A i \in 1..Len(udpOut) : udpOut'[i] = udpOut[i]
               /\ udpOut'[Len(udpOut) + 1] = out
    <3>1. out \in [to : Sources, data : Seq(Units)]
      BY <1>4, <1>7, <2>3 DEF Endpoints
    <3>2. QED
      BY <2>2, <2>3, <3>1, AppendProperties
  <2>4. CASE UNCHANGED udpOut
    BY <1>1, <2>1, <2>4 DEF IInv, TypeOK, AnswersAreBound, AnswersGoHome
  <2>5. CASE udpSender[c] # AnyZero /\ udpOut' = Append(udpOut, out)
    <3>1. TypeOK'
      BY <1>1, <2>1, <2>3, <2>5 DEF IInv, TypeOK
    <3>2. Len(udpOut) \in Nat
      BY <2>2, LenProperties
    <3>3. AnswersAreBound'
      BY <1>1, <1>4, <2>3, <2>5, <3>2, ClientProxyAssumption DEF IInv, AnswersAreBound
    <3>4. AnswersGoHome'
      <4>1. ASSUME NEW i \in 1..Len(udpOut'), NEW j \in 1..Len(udpOut'[i].data)
            PROVE  udpOut'[i].data[j][1] = bindings[udpOut'[i].to]
        <5>1. CASE i \in 1..Len(udpOut)
          BY <2>3, <2>5, <4>1, <5>1 DEF IInv, AnswersGoHome
        <5>2. CASE i = Len(udpOut) + 1
          BY <1>4, <1>7, <2>3, <2>5, <4>1, <5>2 DEF Tagged
        <5>3. QED
          BY <2>3, <2>5, <3>2, <5>1, <5>2
      <4>2. QED
        BY <1>1, <4>1 DEF AnswersGoHome
    <3>5. QED
      BY <3>1, <3>3, <3>4
  <2>6. QED
    BY <1>1, <2>4, <2>5
<1>9. InputTagged'
  BY <1>1, <1>5, <1>6 DEF IInv, InputTagged, Tagged
<1>10. BindingsAgree' /\ UnusedIsFresh' /\ SourcesSeparate'
  BY <1>1 DEF IInv, BindingsAgree, UnusedIsFresh, Unused, SourcesSeparate
<1>11. QED
  BY <1>8, <1>9, <1>10 DEF IInv

LEMMA ServerLeftInvariant ==
    ASSUME IInv, NEW c \in Conns, ServerLeft(c), UNCHANGED envVars
    PROVE  IInv'
BY DEF IInv, TypeOK, BindingsAgree, UnusedIsFresh, Unused, InputTagged, SourcesSeparate, AnswersAreBound,
       AnswersGoHome, Tagged, ServerLeft, udpVars, tcpVars, loopVars, envVars

\* What ends the event loop touches no data.
LEMMA StoppingInvariant ==
    ASSUME IInv, Stopping \/ ReactorExits, UNCHANGED envVars
    PROVE  IInv'
<1>1. /\ UNCHANGED <<udpIn, udpOut, bindings, udpSender, registered, link, toServer, fromServer>>
      /\ UNCHANGED <<serverUp, arrived, answered>>
      /\ udpReg' \in {udpReg, FALSE} /\ loopEnded' \in {loopEnded, TRUE}
      /\ reactor' \in {reactor, "exited"}
      /\ stopper' \in {stopper, "idle", "handler", "done"}
  BY DEF Stopping, StopBegins, Sigint, EndLoop, RemoveUdpHandler, ReactorExits,
         udpVars, bindingVars, tcpVars, envVars
<1>2. TypeOK'
  BY <1>1 DEF IInv, TypeOK
<1>3. QED
  BY <1>1, <1>2 DEF IInv, BindingsAgree, UnusedIsFresh, Unused, InputTagged, SourcesSeparate, AnswersAreBound,
                    AnswersGoHome, Tagged

LEMMA ArriveInvariant ==
    ASSUME IInv, NEW s \in Sources, NEW n \in 0..BufSize + 1, Arrive(s, n)
    PROVE  IInv'
<1> DEFINE data == [i \in 1..n |-> <<s, arrived[s] + i>>]
           in == [from |-> s, data |-> data]
<1>1. /\ udpIn' = Append(udpIn, in)
      /\ arrived[s] + n <= MaxUnits
      /\ arrived' \in [Sources -> 0..MaxUnits]
      /\ UNCHANGED <<udpOut, bindings, udpSender, registered, link, toServer, fromServer>>
      /\ UNCHANGED <<udpReg, loopEnded, reactor, stopper, serverUp, answered>>
  BY ClientProxyAssumption DEF Arrive, IInv, TypeOK, bindingVars, tcpVars, loopVars
<1>2. n \in Nat /\ arrived[s] \in Nat
  BY ClientProxyAssumption DEF IInv, TypeOK
<1>3. \A i \in 1..n : <<s, arrived[s] + i>> \in Units
  BY <1>1, <1>2, ClientProxyAssumption
<1>4. data \in Seq(Units) /\ Tagged(data, s)
  <2>1. data \in Seq(Units)
    BY <1>2, <1>3, IsASeq
  <2>2. Len(data) = n
    BY <1>2
  <2>3. QED
    BY <2>1, <2>2 DEF Tagged
<1>5. in \in Datagrams
  BY <1>4 DEF Datagrams
<1>6. /\ udpIn' \in Seq(Datagrams)
      /\ Len(udpIn') = Len(udpIn) + 1
      /\ Len(udpIn) \in Nat
      /\ \A i \in 1..Len(udpIn) : udpIn'[i] = udpIn[i]
      /\ udpIn'[Len(udpIn) + 1] = in
  BY <1>1, <1>5, AppendProperties, LenProperties DEF IInv, TypeOK
<1>7. TypeOK'
  BY <1>1, <1>6 DEF IInv, TypeOK
<1>8. InputTagged'
  <2>1. ASSUME NEW i \in 1..Len(udpIn') PROVE Tagged(udpIn'[i].data, udpIn'[i].from)
    <3>1. CASE i \in 1..Len(udpIn)
      BY <1>6, <3>1 DEF IInv, InputTagged
    <3>2. CASE i = Len(udpIn) + 1
      <4>1. udpIn'[i] = in
        BY <1>6, <3>2
      <4>2. udpIn'[i].data = data /\ udpIn'[i].from = s
        BY <4>1
      <4>3. QED
        BY <1>4, <4>2
    <3>3. QED
      BY <1>6, <3>1, <3>2
  <2>2. QED
    BY <1>1, <2>1 DEF IInv, InputTagged, Tagged
<1>9. BindingsAgree' /\ UnusedIsFresh' /\ SourcesSeparate' /\ AnswersAreBound' /\ AnswersGoHome'
  BY <1>1 DEF IInv, BindingsAgree, UnusedIsFresh, Unused, SourcesSeparate, AnswersAreBound, AnswersGoHome
<1>10. QED
  BY <1>7, <1>8, <1>9 DEF IInv

LEMMA ServerWritesInvariant ==
    ASSUME IInv, NEW c \in Conns, ServerWrites(c)
    PROVE  IInv'
<1> DEFINE unit == <<c, answered[c] + 1>>
<1>1. /\ fromServer' = [fromServer EXCEPT ![c] = Append(@, unit)]
      /\ answered' \in [Conns -> 0..MaxUnits]
      /\ answered[c] + 1 \in 1..MaxUnits
      /\ UNCHANGED <<udpIn, udpOut, bindings, udpSender, registered, link, toServer>>
      /\ UNCHANGED <<udpReg, loopEnded, reactor, stopper, serverUp, arrived>>
  BY ClientProxyAssumption DEF ServerWrites, IInv, TypeOK, udpVars, bindingVars, loopVars
<1>2. unit \in Units
  BY <1>1, ClientProxyAssumption
<1>3. fromServer[c] \in Seq(Units) /\ Tagged(fromServer[c], c)
  BY DEF IInv, TypeOK, InputTagged
<1>4. Append(fromServer[c], unit) \in Seq(Units) /\ Tagged(Append(fromServer[c], unit), c)
  <2>1. Len(fromServer[c]) \in Nat
    BY <1>3, LenProperties
  <2>2. /\ Append(fromServer[c], unit) \in Seq(Units)
        /\ Len(Append(fromServer[c], unit)) = Len(fromServer[c]) + 1
        /\ \A i \in 1..Len(fromServer[c]) : Append(fromServer[c], unit)[i] = fromServer[c][i]
        /\ Append(fromServer[c], unit)[Len(fromServer[c]) + 1] = unit
    BY <1>2, <1>3, AppendProperties
  <2>3. ASSUME NEW i \in 1..Len(Append(fromServer[c], unit)) PROVE Append(fromServer[c], unit)[i][1] = c
    <3>1. CASE i \in 1..Len(fromServer[c])
      BY <1>3, <2>2, <3>1 DEF Tagged
    <3>2. CASE i = Len(fromServer[c]) + 1
      BY <2>2, <3>2
    <3>3. QED
      BY <2>1, <2>2, <3>1, <3>2
  <2>4. QED
    BY <2>2, <2>3 DEF Tagged
<1>5. TypeOK'
  <2>1. fromServer' \in [Conns -> Seq(Units)]
    BY <1>1, <1>4 DEF IInv, TypeOK
  <2>2. QED
    BY <1>1, <2>1 DEF IInv, TypeOK
<1>6. InputTagged'
  <2>1. ASSUME NEW e \in Conns PROVE Tagged(fromServer'[e], e)
    BY <1>1, <1>4 DEF IInv, TypeOK, InputTagged
  <2>2. QED
    BY <1>1, <2>1 DEF IInv, InputTagged, Tagged
<1>7. BindingsAgree' /\ UnusedIsFresh' /\ SourcesSeparate' /\ AnswersAreBound' /\ AnswersGoHome'
  BY <1>1 DEF IInv, BindingsAgree, UnusedIsFresh, Unused, SourcesSeparate, AnswersAreBound, AnswersGoHome
<1>8. QED
  BY <1>5, <1>6, <1>7 DEF IInv

LEMMA ServerClosesInvariant ==
    ASSUME IInv, NEW c \in Conns, ServerCloses(c)
    PROVE  IInv'
<1>1. /\ link[c] = "open" /\ link' = [link EXCEPT ![c] = "closed"]
      /\ UNCHANGED <<udpIn, udpOut, bindings, udpSender, registered, toServer>>
      /\ UNCHANGED <<udpReg, loopEnded, reactor, stopper, serverUp, arrived, answered>>
  BY DEF ServerCloses, udpVars, bindingVars, loopVars, envVars
<1>2. PICK n \in 0..Len(fromServer[c]) : fromServer' = [fromServer EXCEPT ![c] = Prefix(@, n)]
  BY DEF ServerCloses
<1>3. Prefix(fromServer[c], n) \in Seq(Units) /\ Tagged(Prefix(fromServer[c], n), c)
  <2>1. fromServer[c] \in Seq(Units) /\ Tagged(fromServer[c], c)
    BY DEF IInv, TypeOK, InputTagged
  <2>2. QED
    BY <2>1, PrefixProperties, PrefixTagged
<1>4. TypeOK'
  <2>1. fromServer' \in [Conns -> Seq(Units)] /\ link' \in [Conns -> {"unused", "open", "closed"}]
    BY <1>1, <1>2, <1>3 DEF IInv, TypeOK
  <2>2. QED
    BY <1>1, <2>1 DEF IInv, TypeOK
<1>5. InputTagged'
  <2>1. ASSUME NEW e \in Conns PROVE Tagged(fromServer'[e], e)
    BY <1>2, <1>3 DEF IInv, TypeOK, InputTagged
  <2>2. QED
    BY <1>1, <2>1 DEF IInv, InputTagged, Tagged
<1>6. BindingsAgree' /\ UnusedIsFresh'
  BY <1>1 DEF IInv, TypeOK, BindingsAgree, UnusedIsFresh, Unused
<1>7. SourcesSeparate' /\ AnswersAreBound' /\ AnswersGoHome'
  BY <1>1 DEF IInv, SourcesSeparate, AnswersAreBound, AnswersGoHome
<1>8. QED
  BY <1>4, <1>5, <1>6, <1>7 DEF IInv

LEMMA ServerRestartsInvariant == ASSUME IInv, ServerRestarts PROVE IInv'
<1>1. /\ link' = [c \in Conns |-> IF link[c] = "open" /\ serverUp THEN "closed" ELSE link[c]]
      /\ serverUp' \in BOOLEAN
      /\ UNCHANGED <<udpIn, udpOut, bindings, udpSender, registered, toServer, fromServer>>
      /\ UNCHANGED <<udpReg, loopEnded, reactor, stopper, arrived, answered>>
  BY DEF ServerRestarts, IInv, TypeOK, udpVars, bindingVars, loopVars
<1>2. \A c \in Conns : link'[c] \in {"unused", "open", "closed"} /\ (link'[c] = "unused" <=> link[c] = "unused")
  BY <1>1 DEF IInv, TypeOK
<1>3. TypeOK'
  BY <1>1, <1>2 DEF IInv, TypeOK
<1>4. BindingsAgree' /\ UnusedIsFresh'
  BY <1>1, <1>2 DEF IInv, BindingsAgree, UnusedIsFresh, Unused
<1>5. InputTagged' /\ SourcesSeparate' /\ AnswersAreBound' /\ AnswersGoHome'
  BY <1>1 DEF IInv, InputTagged, Tagged, SourcesSeparate, AnswersAreBound, AnswersGoHome
<1>6. QED
  BY <1>3, <1>4, <1>5 DEF IInv

\* Every step preserves the invariant.
LEMMA NextInvariant == ASSUME IInv, [Next]_vars PROVE IInv'
<1>1. CASE HandleDatagram /\ UNCHANGED envVars
  <2>1. CASE ReadFails
    BY <1>1, <2>1, DropInvariant DEF ReadFails
  <2>2. CASE ForwardOnBinding
    BY <1>1, <2>2, ForwardOnBindingInvariant
  <2>3. CASE \E c \in Conns : ConnectAndForward(c)
    BY <1>1, <2>3, ConnectAndForwardInvariant
  <2>4. CASE ConnectFails
    BY <1>1, <2>4, DropInvariant DEF ConnectFails
  <2>5. QED
    BY <1>1, <2>1, <2>2, <2>3, <2>4 DEF HandleDatagram
<1>2. CASE (\E c \in Conns : ForwardAnswer(c) \/ ServerLeft(c)) /\ UNCHANGED envVars
  BY <1>2, ForwardAnswerInvariant, ServerLeftInvariant
<1>3. CASE (Stopping \/ ReactorExits) /\ UNCHANGED envVars
  BY <1>3, StoppingInvariant
<1>4. CASE Environment
  <2>1. CASE \E s \in Sources, n \in 0..BufSize + 1 : Arrive(s, n)
    BY <2>1, ArriveInvariant
  <2>2. CASE \E c \in Conns : ServerWrites(c) \/ ServerCloses(c)
    BY <2>2, ServerWritesInvariant, ServerClosesInvariant
  <2>3. CASE ServerRestarts
    BY <2>3, ServerRestartsInvariant
  <2>4. QED
    BY <1>4, <2>1, <2>2, <2>3 DEF Environment
<1>5. CASE Terminated \/ UNCHANGED vars
  BY <1>5, StutterInvariant DEF Terminated
<1>6. QED
  BY <1>1, <1>2, <1>3, <1>4, <1>5 DEF Next, System, ReactorThread

-----------------------------------------------------------------------------
(* The order of the data *)

\* What has been written for a source, on the connection it is bound to.
Stream(s) == IF bindings[s] = None THEN <<>> ELSE toServer[bindings[s]]

\* Every unit of one stretch of data was numbered before every unit of another.
Before(data, later) == \A i \in 1..Len(data), j \in 1..Len(later) : data[i][2] < later[j][2]

\* The data of a datagram are units that arrived, in a row.
DatagramsConsecutive ==
    \A i \in 1..Len(udpIn) :
        \E k \in 0..arrived[udpIn[i].from] :
            /\ k + Len(udpIn[i].data) <= arrived[udpIn[i].from]
            /\ \A j \in 1..Len(udpIn[i].data) : udpIn[i].data[j][2] = k + j

\* The datagrams of a source wait in the order they arrived in.
DatagramsInOrder ==
    \A i, j \in 1..Len(udpIn) :
        i < j /\ udpIn[i].from = udpIn[j].from => Before(udpIn[i].data, udpIn[j].data)

\* What has been written for a source had arrived, and all before what still waits.
StreamsBehind ==
    \A s \in Sources :
        /\ \A i \in 1..Len(Stream(s)) : Stream(s)[i][2] \in 1..arrived[s]
        /\ \A i \in 1..Len(udpIn) : udpIn[i].from = s => Before(Stream(s), udpIn[i].data)

OrderInv == DatagramsConsecutive /\ DatagramsInOrder /\ StreamsBehind

\* A stretch of data is a prefix of another.
Begins(d, data) == Len(d) <= Len(data) /\ \A i \in 1..Len(d) : d[i] = data[i]

\* The queue behind the datagram that is taken.
LEMMA TakeShifts ==
    ASSUME IInv, TakeDatagram
    PROVE  /\ Len(udpIn) \in Nat \ {0} /\ Datagram = udpIn[1]
           /\ Len(udpIn') = Len(udpIn) - 1
           /\ \A i \in 1..Len(udpIn') : i + 1 \in 2..Len(udpIn) /\ udpIn'[i] = udpIn[i + 1]
<1>1. udpIn \in Seq(Datagrams) /\ udpIn # <<>> /\ udpIn' = Tail(udpIn)
  BY DEF IInv, TypeOK, TakeDatagram
<1>2. Len(udpIn) \in Nat \ {0}
  BY <1>1, EmptySeq, LenProperties
<1>3. QED
  BY <1>1, <1>2, HeadTailProperties DEF Datagram

\* The message is that datagram's data, cut at the buffer's size, or it is empty.
LEMMA MessageBegins ==
    ASSUME IInv, TakeDatagram, NEW m \in Message
    PROVE  /\ m.key \in Endpoints /\ m.data \in Seq(Units)
           /\ Begins(m.data, Datagram.data)
           /\ m.key \in Sources => m.key = Datagram.from
<1>1. Datagram.from \in Sources /\ Datagram.data \in Seq(Units)
  BY TakeProperties DEF Datagrams
<1>2. /\ Smaller(BufSize, Len(Datagram.data)) \in 0..Len(Datagram.data)
      /\ Len(Datagram.data) \in Nat
  BY <1>1, SmallerProperties, LenProperties
<1>3. CASE m = [key |-> AnyZero, data |-> <<>>]
  BY <1>2, <1>3, EmptySeq, ClientProxyAssumption DEF Endpoints, Begins
<1>4. CASE m = [key |-> Datagram.from, data |-> Prefix(Datagram.data, Smaller(BufSize, Len(Datagram.data)))]
  <2>1. PICK n \in 0..Len(Datagram.data) : n = Smaller(BufSize, Len(Datagram.data))
    BY <1>2
  <2>2. /\ Prefix(Datagram.data, n) \in Seq(Units) /\ Len(Prefix(Datagram.data, n)) = n
        /\ \A i \in 1..n : Prefix(Datagram.data, n)[i] = Datagram.data[i]
    BY <1>1, PrefixProperties
  <2>3. m.key = Datagram.from /\ m.data = Prefix(Datagram.data, n)
    BY <1>4, <2>1
  <2>4. Begins(m.data, Datagram.data)
    BY <1>2, <2>2, <2>3 DEF Begins
  <2>5. QED
    BY <1>1, <2>2, <2>3, <2>4 DEF Endpoints
<1>5. QED
  BY <1>3, <1>4 DEF Message

\* A write adds to one connection what the data begin with.
LEMMA WriteBegins ==
    ASSUME NEW c \in Conns, NEW data \in Seq(Units), NEW up, WriteToServer(c, data, up)
    PROVE  \E d \in Seq(Units) : Begins(d, data) /\ toServer' = [toServer EXCEPT ![c] = @ \o d]
<1>1. PICK n \in Written(c, data, up) : toServer' = [toServer EXCEPT ![c] = @ \o Prefix(data, n)]
  BY DEF WriteToServer
<1>2. n \in 0..Len(data) /\ Len(data) \in Nat
  BY LenProperties DEF Written
<1>3. Prefix(data, n) \in Seq(Units) /\ Begins(Prefix(data, n), data)
  BY <1>2, PrefixProperties DEF Begins
<1>4. QED
  BY <1>1, <1>3

LEMMA BeginsTransitive ==
    ASSUME NEW d \in Seq(Units), NEW e \in Seq(Units), NEW f \in Seq(Units), Begins(d, e), Begins(e, f)
    PROVE  Begins(d, f)
<1>1. Len(d) \in Nat /\ Len(e) \in Nat /\ Len(f) \in Nat
  BY LenProperties
<1>2. QED
  BY <1>1 DEF Begins

\* What handle_client does to the stream of a source: nothing, or it adds what the
\* datagram it has taken begins with, and then the datagram was that source's.
LEMMA HandlerWrites ==
    ASSUME IInv, HandleDatagram, NEW s \in Sources
    PROVE  /\ TakeDatagram
           /\ \/ Stream(s)' = Stream(s)
              \/ /\ Datagram.from = s
                 /\ \E d \in Seq(Units) : Begins(d, Datagram.data) /\ Stream(s)' = Stream(s) \o d
<1>1. TakeDatagram
  BY DEF HandleDatagram, ReadFails, ForwardOnBinding, ConnectAndForward, ConnectFails
<1>2. Datagram.data \in Seq(Units)
  BY <1>1, TakeProperties DEF Datagrams
<1>3. CASE ReadFails \/ ConnectFails
  BY <1>1, <1>3 DEF ReadFails, ConnectFails, bindingVars, tcpVars, Stream
<1>4. CASE ForwardOnBinding
  <2>1. PICK m \in Message : /\ bindings[m.key] # None
                             /\ WriteToServer(bindings[m.key], m.data, link[bindings[m.key]] = "open")
    BY <1>4 DEF ForwardOnBinding
  <2> DEFINE c == bindings[m.key]
  <2>2. /\ m.key \in Endpoints /\ m.data \in Seq(Units)
        /\ Begins(m.data, Datagram.data)
        /\ m.key \in Sources => m.key = Datagram.from
    BY <1>1, MessageBegins
  <2>3. c \in Conns /\ udpSender[c] = m.key /\ bindings' = bindings
    BY <1>4, <2>1, <2>2 DEF ForwardOnBinding, bindingVars, IInv, TypeOK, BindingsAgree
  <2>4. PICK d \in Seq(Units) : Begins(d, m.data) /\ toServer' = [toServer EXCEPT ![c] = @ \o d]
    BY <2>1, <2>2, <2>3, WriteBegins
  <2>5. toServer \in [Conns -> Seq(Units)]
    BY DEF IInv, TypeOK
  <2>6. CASE s = m.key
    <3>1. Stream(s)' = Stream(s) \o d
      BY <2>1, <2>3, <2>4, <2>5, <2>6 DEF Stream
    <3>2. QED
      BY <1>1, <1>2, <2>2, <2>4, <2>6, <3>1, BeginsTransitive
  <2>7. CASE s # m.key
    <3>1. bindings[s] # None => bindings[s] \in Conns /\ bindings[s] # c
      BY <2>3, <2>7 DEF IInv, TypeOK, BindingsAgree, Endpoints
    <3>2. QED
      BY <1>1, <2>3, <2>4, <2>5, <3>1 DEF Stream
  <2>8. QED
    BY <2>6, <2>7
<1>5. ASSUME NEW c \in Conns, ConnectAndForward(c)
      PROVE  \/ Stream(s)' = Stream(s)
             \/ /\ Datagram.from = s
                /\ \E d \in Seq(Units) : Begins(d, Datagram.data) /\ Stream(s)' = Stream(s) \o d
  <2>1. PICK m \in Message : /\ bindings[m.key] = None
                             /\ bindings' = [bindings EXCEPT ![m.key] = c]
                             /\ WriteToServer(c, m.data, TRUE)
    BY <1>5 DEF ConnectAndForward, NoBinding, StoreBinding
  <2>2. /\ m.key \in Endpoints /\ m.data \in Seq(Units)
        /\ Begins(m.data, Datagram.data)
        /\ m.key \in Sources => m.key = Datagram.from
    BY <1>1, MessageBegins
  <2>3. PICK d \in Seq(Units) : Begins(d, m.data) /\ toServer' = [toServer EXCEPT ![c] = @ \o d]
    BY <2>1, <2>2, WriteBegins
  <2>4. /\ toServer \in [Conns -> Seq(Units)] /\ bindings \in [Endpoints -> Conns \cup {None}]
        /\ udpSender[c] = None /\ toServer[c] = <<>>
    BY <1>5 DEF IInv, TypeOK, UnusedIsFresh, ConnectAndForward
  <2>5. s \in Endpoints /\ c # None /\ s # None
    BY ClientProxyAssumption DEF Endpoints
  <2>6. CASE s = m.key
    <3>1. Stream(s) = <<>> /\ bindings'[s] = c
      BY <2>1, <2>4, <2>5, <2>6 DEF Stream
    <3>2. Stream(s)' = toServer'[c]
      BY <2>5, <3>1 DEF Stream
    <3>3. Stream(s)' = Stream(s) \o d
      BY <2>3, <2>4, <3>1, <3>2
    <3>4. QED
      BY <1>2, <2>2, <2>3, <2>6, <3>3, BeginsTransitive
  <2>7. CASE s # m.key
    <3>1. bindings'[s] = bindings[s]
      BY <2>1, <2>4, <2>5, <2>7
    <3>2. bindings[s] # None => bindings[s] \in Conns /\ bindings[s] # c
      BY <2>4, <2>5 DEF IInv, BindingsAgree
    <3>3. QED
      BY <2>3, <2>4, <3>1, <3>2 DEF Stream
  <2>8. QED
    BY <2>6, <2>7
<1>6. QED
  BY <1>1, <1>3, <1>4, <1>5 DEF HandleDatagram

\* A stream has a type, and what the server has been given of a source are its numbers.
Numbered(s) ==
    /\ Stream(s) \in Seq(Units) /\ Len(Stream(s)) \in Nat
    /\ Relayed(s) \in Seq(Nat) /\ Len(Relayed(s)) = Len(Stream(s))
    /\ \A i \in 1..Len(Stream(s)) : Relayed(s)[i] = Stream(s)[i][2]

AllNumbered == \A s \in Sources : Numbered(s)

LEMMA StreamNumbers == IInv /\ StreamsBehind => AllNumbered
<1> SUFFICES ASSUME IInv, StreamsBehind, NEW s \in Sources PROVE Numbered(s)
  BY DEF AllNumbered
<1>1. s \in Endpoints /\ arrived[s] \in Nat
  BY ClientProxyAssumption DEF Endpoints, IInv, TypeOK
<1>2. Stream(s) \in Seq(Units) /\ Len(Stream(s)) \in Nat
  BY <1>1, EmptySeq, LenProperties DEF Stream, IInv, TypeOK
<1> DEFINE numbers == [i \in 1..Len(Stream(s)) |-> Stream(s)[i][2]]
<1>3. \A i \in 1..Len(Stream(s)) : Stream(s)[i][2] \in Nat
  BY <1>1, <1>2 DEF StreamsBehind
<1>4. numbers \in Seq(Nat) /\ Len(numbers) = Len(Stream(s))
  BY <1>2, <1>3, IsASeq
<1>5. CASE bindings[s] = None
  BY <1>2, <1>5, EmptySeq DEF Relayed, Stream, Numbered
<1>6. CASE bindings[s] # None
  <2>1. Relayed(s) = numbers
    BY <1>6 DEF Relayed, Stream
  <2>2. QED
    BY <1>2, <1>4, <2>1 DEF Numbered
<1>7. QED
  BY <1>5, <1>6

-----------------------------------------------------------------------------
(* The order is preserved *)

LEMMA TakeOrder ==
    ASSUME IInv, DatagramsConsecutive, DatagramsInOrder, TakeDatagram, UNCHANGED arrived
    PROVE  DatagramsConsecutive' /\ DatagramsInOrder'
<1>1. /\ Len(udpIn) \in Nat \ {0}
      /\ Len(udpIn') = Len(udpIn) - 1
      /\ \A i \in 1..Len(udpIn') : i + 1 \in 1..Len(udpIn) /\ udpIn'[i] = udpIn[i + 1]
  BY TakeShifts
<1>2. DatagramsConsecutive'
  <2>1. ASSUME NEW i \in 1..Len(udpIn')
        PROVE  \E k \in 0..arrived'[udpIn'[i].from] :
                 /\ k + Len(udpIn'[i].data) <= arrived'[udpIn'[i].from]
                 /\ \A j \in 1..Len(udpIn'[i].data) : udpIn'[i].data[j][2] = k + j
    <3>1. i + 1 \in 1..Len(udpIn) /\ udpIn'[i] = udpIn[i + 1]
      BY <1>1
    <3>2. \E k \in 0..arrived[udpIn[i + 1].from] :
            /\ k + Len(udpIn[i + 1].data) <= arrived[udpIn[i + 1].from]
            /\ \A j \in 1..Len(udpIn[i + 1].data) : udpIn[i + 1].data[j][2] = k + j
      BY <3>1 DEF DatagramsConsecutive
    <3>3. QED
      BY <3>1, <3>2
  <2>2. QED
    BY <2>1 DEF DatagramsConsecutive
<1>3. DatagramsInOrder'
  <2> SUFFICES ASSUME NEW i \in 1..Len(udpIn'), NEW j \in 1..Len(udpIn'), i < j, udpIn'[i].from = udpIn'[j].from
               PROVE  Before(udpIn'[i].data, udpIn'[j].data)
    BY DEF DatagramsInOrder, Before
  <2>1. i + 1 < j + 1
    BY <1>1
  <2>2. QED
    BY <1>1, <2>1 DEF DatagramsInOrder
<1>4. QED
  BY <1>2, <1>3

\* What a datagram that is taken adds to its source's stream: the units from k + 1 on.
LEMMA TakenNumbers ==
    ASSUME IInv, OrderInv, TakeDatagram, NEW d \in Seq(Units), Begins(d, Datagram.data)
    PROVE  \E k \in Nat : k + Len(d) <= arrived[Datagram.from] /\ \A i \in 1..Len(d) : d[i][2] = k + i
<1>1. 1 \in 1..Len(udpIn) /\ Datagram = udpIn[1]
  BY TakeShifts
<1>2. Datagram.from \in Sources /\ Datagram.data \in Seq(Units)
  BY TakeProperties DEF Datagrams
<1>3. /\ Len(d) \in Nat /\ Len(Datagram.data) \in Nat /\ arrived[Datagram.from] \in Nat
      /\ Len(d) <= Len(Datagram.data)
  BY <1>2, LenProperties, ClientProxyAssumption DEF Begins, IInv, TypeOK
<1>4. PICK k \in 0..arrived[Datagram.from] :
        /\ k + Len(Datagram.data) <= arrived[Datagram.from]
        /\ \A j \in 1..Len(Datagram.data) : Datagram.data[j][2] = k + j
  BY <1>1 DEF OrderInv, DatagramsConsecutive
<1>5. \A i \in 1..Len(d) : d[i][2] = k + i
  BY <1>3, <1>4 DEF Begins
<1>6. k \in Nat /\ k + Len(d) <= arrived[Datagram.from]
  BY <1>3, <1>4
<1>7. QED
  BY <1>5, <1>6

\* A stream that grows by what its source's datagram begins with.
LEMMA GrowingStreamBehind ==
    ASSUME IInv, OrderInv, TakeDatagram, UNCHANGED arrived, NEW d \in Seq(Units), Begins(d, Datagram.data),
           NEW s \in Sources, Datagram.from = s, Stream(s)' = Stream(s) \o d
    PROVE  /\ \A i \in 1..Len(Stream(s)') : Stream(s)'[i][2] \in 1..arrived'[s]
           /\ \A i \in 1..Len(udpIn') : udpIn'[i].from = s => Before(Stream(s)', udpIn'[i].data)
<1>1. /\ Len(udpIn) \in Nat \ {0} /\ Datagram = udpIn[1] /\ 1 \in 1..Len(udpIn)
      /\ \A i \in 1..Len(udpIn') : i + 1 \in 2..Len(udpIn) /\ udpIn'[i] = udpIn[i + 1]
  BY TakeShifts
<1>2. Stream(s) \in Seq(Units) /\ Len(Stream(s)) \in Nat /\ Len(d) \in Nat
  BY StreamNumbers, LenProperties DEF OrderInv, AllNumbered, Numbered
<1>3. /\ Len(Stream(s)') = Len(Stream(s)) + Len(d)
      /\ \A i \in 1..Len(Stream(s)) : Stream(s)'[i] = Stream(s)[i]
      /\ \A i \in 1..Len(d) : Stream(s)'[Len(Stream(s)) + i] = d[i]
  BY <1>2, ConcatProperties
<1>4. \A i \in 1..Len(Stream(s)') : i \in 1..Len(Stream(s)) \/ \E j \in 1..Len(d) : i = Len(Stream(s)) + j
  <2>1. ASSUME NEW i \in 1..Len(Stream(s)'), i \notin 1..Len(Stream(s))
        PROVE  i - Len(Stream(s)) \in 1..Len(d) /\ i = Len(Stream(s)) + (i - Len(Stream(s)))
    BY <1>2, <1>3, <2>1
  <2>2. QED
    BY <2>1
<1>5. PICK k \in Nat : k + Len(d) <= arrived[s] /\ \A i \in 1..Len(d) : d[i][2] = k + i
  BY TakenNumbers
<1>6. ASSUME NEW i \in 1..Len(Stream(s)') PROVE Stream(s)'[i][2] \in 1..arrived'[s]
  <2>1. CASE i \in 1..Len(Stream(s))
    BY <1>3, <2>1 DEF OrderInv, StreamsBehind
  <2>2. ASSUME NEW j \in 1..Len(d), i = Len(Stream(s)) + j PROVE Stream(s)'[i][2] \in 1..arrived'[s]
    <3>1. Stream(s)'[i][2] = k + j
      BY <1>3, <1>5, <2>2
    <3>2. arrived[s] \in Nat
      BY ClientProxyAssumption DEF IInv, TypeOK
    <3>3. k + j \in 1..arrived[s]
      BY <1>2, <1>5, <3>2
    <3>4. QED
      BY <3>1, <3>3
  <2>3. QED
    BY <1>4, <2>1, <2>2
<1>7. ASSUME NEW h \in 1..Len(udpIn'), udpIn'[h].from = s,
             NEW i \in 1..Len(Stream(s)'), NEW j \in 1..Len(udpIn'[h].data)
      PROVE  Stream(s)'[i][2] < udpIn'[h].data[j][2]
  <2>1. h + 1 \in 2..Len(udpIn) /\ udpIn'[h] = udpIn[h + 1]
    BY <1>1
  <2>2. h + 1 \in 1..Len(udpIn) /\ 1 < h + 1
    BY <1>1, <2>1
  <2>3. CASE i \in 1..Len(Stream(s))
    BY <1>3, <1>7, <2>1, <2>2, <2>3 DEF OrderInv, StreamsBehind, Before
  <2>4. ASSUME NEW n \in 1..Len(d), i = Len(Stream(s)) + n PROVE Stream(s)'[i][2] < udpIn'[h].data[j][2]
    <3>1. Before(udpIn[1].data, udpIn[h + 1].data)
      BY <1>1, <1>7, <2>1, <2>2 DEF OrderInv, DatagramsInOrder
    <3>2. Len(Datagram.data) \in Nat
      BY TakeProperties, LenProperties DEF Datagrams
    <3>3. n \in 1..Len(Datagram.data) /\ d[n] = udpIn[1].data[n]
      BY <1>1, <1>2, <3>2 DEF Begins
    <3>4. udpIn[1].data[n][2] < udpIn[h + 1].data[j][2]
      BY <1>1, <2>1, <3>1, <3>3 DEF Before
    <3>5. Stream(s)'[i] = udpIn[1].data[n]
      BY <1>3, <2>4, <3>3
    <3>6. QED
      BY <2>1, <3>4, <3>5
  <2>5. QED
    BY <1>4, <2>3, <2>4
<1>8. QED
  BY <1>6, <1>7 DEF Before

LEMMA HandleDatagramOrder ==
    ASSUME IInv, OrderInv, HandleDatagram, UNCHANGED envVars
    PROVE  OrderInv'
<1>1. TakeDatagram /\ UNCHANGED arrived
  BY DEF HandleDatagram, ReadFails, ForwardOnBinding, ConnectAndForward, ConnectFails, envVars
<1>2. DatagramsConsecutive' /\ DatagramsInOrder'
  BY <1>1, TakeOrder DEF OrderInv
<1>3. ASSUME NEW s \in Sources
      PROVE  /\ \A i \in 1..Len(Stream(s)') : Stream(s)'[i][2] \in 1..arrived'[s]
             /\ \A i \in 1..Len(udpIn') : udpIn'[i].from = s => Before(Stream(s)', udpIn'[i].data)
  <2>1. CASE Stream(s)' = Stream(s)
    <3>1. \A i \in 1..Len(udpIn') : i + 1 \in 1..Len(udpIn) /\ udpIn'[i] = udpIn[i + 1]
      BY <1>1, TakeShifts
    <3>2. QED
      BY <1>1, <2>1, <3>1 DEF OrderInv, StreamsBehind
  <2>2. ASSUME Datagram.from = s, NEW d \in Seq(Units), Begins(d, Datagram.data), Stream(s)' = Stream(s) \o d
        PROVE  /\ \A i \in 1..Len(Stream(s)') : Stream(s)'[i][2] \in 1..arrived'[s]
               /\ \A i \in 1..Len(udpIn') : udpIn'[i].from = s => Before(Stream(s)', udpIn'[i].data)
    BY <1>1, <2>2, GrowingStreamBehind
  <2>3. QED
    BY <2>1, <2>2, HandlerWrites
<1>4. StreamsBehind'
  BY <1>3 DEF StreamsBehind, Before
<1>5. QED
  BY <1>2, <1>4 DEF OrderInv

\* A datagram that arrives is behind everything of its source.
LEMMA ArriveOrder ==
    ASSUME IInv, OrderInv, NEW s \in Sources, NEW n \in 0..BufSize + 1, Arrive(s, n)
    PROVE  /\ OrderInv'
           /\ \A t \in Sources : Stream(t)' = Stream(t) /\ (t # s => arrived'[t] = arrived[t])
           /\ arrived'[s] > arrived[s]
<1> DEFINE data == [i \in 1..n |-> <<s, arrived[s] + i>>]
           in == [from |-> s, data |-> data]
<1>1. /\ udpIn' = Append(udpIn, in)
      /\ arrived' = [arrived EXCEPT ![s] = @ + IF n = 0 THEN 1 ELSE n]
      /\ UNCHANGED <<bindings, toServer>>
  BY DEF Arrive, bindingVars, tcpVars
<1>2. n \in Nat /\ arrived \in [Sources -> Nat]
  BY ClientProxyAssumption DEF IInv, TypeOK
<1>3. /\ arrived'[s] > arrived[s] /\ arrived[s] + n <= arrived'[s]
      /\ \A t \in Sources : arrived'[t] \in Nat /\ arrived[t] <= arrived'[t] /\ (t # s => arrived'[t] = arrived[t])
  BY <1>1, <1>2
<1>4. Len(data) = n /\ \A j \in 1..n : data[j][2] = arrived[s] + j
  BY <1>2
<1>5. /\ Len(udpIn) \in Nat /\ Len(udpIn') = Len(udpIn) + 1
      /\ \A i \in 1..Len(udpIn) : udpIn'[i] = udpIn[i] /\ udpIn[i] \in Datagrams
      /\ \A i \in 1..Len(udpIn) : udpIn[i].from \in Sources /\ udpIn[i].data \in Seq(Units)
      /\ udpIn'[Len(udpIn) + 1].from = s /\ udpIn'[Len(udpIn) + 1].data = data
  <2>1. udpIn \in Seq(Datagrams)
    BY DEF IInv, TypeOK
  <2>2. /\ Len(udpIn) \in Nat /\ Len(udpIn') = Len(udpIn) + 1
        /\ \A i \in 1..Len(udpIn) : udpIn'[i] = udpIn[i]
        /\ udpIn'[Len(udpIn) + 1] = in
    BY <1>1, <2>1, AppendProperties, LenProperties
  <2>3. \A i \in 1..Len(udpIn) : udpIn[i] \in Datagrams /\ udpIn[i].from \in Sources /\ udpIn[i].data \in Seq(Units)
    <3>1. \A i \in 1..Len(udpIn) : udpIn[i] \in Datagrams
      BY <2>1, ElementOfSeq
    <3>2. QED
      BY <3>1 DEF Datagrams
  <2>4. QED
    BY <2>2, <2>3
<1>6. \A t \in Sources : Stream(t)' = Stream(t)
  BY <1>1 DEF Stream
<1> HIDE DEF data, in
<1>7. DatagramsConsecutive'
  <2>1. ASSUME NEW i \in 1..Len(udpIn)
        PROVE  \E k \in 0..arrived'[udpIn[i].from] :
                 /\ k + Len(udpIn[i].data) <= arrived'[udpIn[i].from]
                 /\ \A j \in 1..Len(udpIn[i].data) : udpIn[i].data[j][2] = k + j
    <3> DEFINE a == arrived[udpIn[i].from]
               b == arrived'[udpIn[i].from]
    <3>1. a \in Nat /\ b \in Nat /\ a <= b
      BY <1>2, <1>3, <1>5
    <3>2. PICK k \in 0..a : /\ k + Len(udpIn[i].data) <= a
                            /\ \A j \in 1..Len(udpIn[i].data) : udpIn[i].data[j][2] = k + j
      BY DEF OrderInv, DatagramsConsecutive
    <3>3. udpIn[i].data \in Seq(Units)
      BY <1>5
    <3>4. k \in 0..b /\ k + Len(udpIn[i].data) <= b
      <4>1. Len(udpIn[i].data) \in Nat
        BY <3>3, LenProperties
      <4>2. QED
        BY <3>1, <3>2, <4>1
    <3>5. QED
      BY <3>2, <3>4
  <2>2. /\ arrived[s] \in 0..arrived'[s] /\ arrived[s] + Len(data) <= arrived'[s]
        /\ \A j \in 1..Len(data) : data[j][2] = arrived[s] + j
    BY <1>2, <1>3, <1>4
  <2>3. ASSUME NEW i \in 1..Len(udpIn') PROVE i \in 1..Len(udpIn) \/ i = Len(udpIn) + 1
    BY <1>5
  <2>4. ASSUME NEW i \in 1..Len(udpIn')
        PROVE  \E k \in 0..arrived'[udpIn'[i].from] :
                 /\ k + Len(udpIn'[i].data) <= arrived'[udpIn'[i].from]
                 /\ \A j \in 1..Len(udpIn'[i].data) : udpIn'[i].data[j][2] = k + j
    <3>1. CASE i \in 1..Len(udpIn)
      <4>1. udpIn'[i] = udpIn[i]
        BY <1>5, <3>1
      <4>2. QED
        BY <2>1, <3>1, <4>1
    <3>2. CASE i = Len(udpIn) + 1
      <4>1. udpIn'[i].from = s /\ udpIn'[i].data = data
        BY <1>5, <3>2
      <4>2. QED
        BY <2>2, <4>1
    <3>3. QED
      BY <2>3, <3>1, <3>2
  <2>5. QED
    BY <2>4 DEF DatagramsConsecutive
<1>8. ASSUME NEW x \in Nat, x <= arrived[s], NEW j \in 1..Len(data) PROVE x < data[j][2]
  BY <1>2, <1>4, <1>8
<1>9. DatagramsInOrder'
  <2> SUFFICES ASSUME NEW i \in 1..Len(udpIn'), NEW j \in 1..Len(udpIn'), i < j, udpIn'[i].from = udpIn'[j].from
               PROVE  Before(udpIn'[i].data, udpIn'[j].data)
    BY DEF DatagramsInOrder, Before
  <2>1. i \in 1..Len(udpIn)
    BY <1>5
  <2>2. CASE j \in 1..Len(udpIn)
    BY <1>5, <2>1, <2>2 DEF OrderInv, DatagramsInOrder
  <2>3. CASE j = Len(udpIn) + 1
    <3>1. udpIn[i].from = s
      BY <1>5, <2>1, <2>3
    <3>2. PICK k \in 0..arrived[s] : /\ k + Len(udpIn[i].data) <= arrived[s]
                                     /\ \A h \in 1..Len(udpIn[i].data) : udpIn[i].data[h][2] = k + h
      BY <2>1, <3>1 DEF OrderInv, DatagramsConsecutive
    <3>3. Len(udpIn[i].data) \in Nat /\ k \in Nat /\ arrived[s] \in Nat
      BY <1>2, <1>5, <2>1, LenProperties
    <3>4. ASSUME NEW h \in 1..Len(udpIn[i].data)
          PROVE  udpIn[i].data[h][2] \in Nat /\ udpIn[i].data[h][2] <= arrived[s]
      <4>1. udpIn[i].data[h][2] = k + h
        BY <3>2
      <4>2. k + h \in Nat /\ k + h <= arrived[s]
        BY <3>2, <3>3
      <4>3. QED
        BY <4>1, <4>2
    <3>5. QED
      BY <1>5, <1>8, <2>1, <2>3, <3>4 DEF Before
  <2>4. QED
    BY <1>5, <2>2, <2>3
<1>10. StreamsBehind'
  <2>1. ASSUME NEW t \in Sources, NEW i \in 1..Len(Stream(t)) PROVE Stream(t)[i][2] \in 1..arrived'[t]
    <3>1. Stream(t)[i][2] \in 1..arrived[t]
      BY DEF OrderInv, StreamsBehind
    <3>2. QED
      BY <1>2, <1>3, <3>1
  <2>2. ASSUME NEW t \in Sources, NEW i \in 1..Len(udpIn'), udpIn'[i].from = t
        PROVE  Before(Stream(t), udpIn'[i].data)
    <3>1. CASE i \in 1..Len(udpIn)
      BY <1>5, <2>2, <3>1 DEF OrderInv, StreamsBehind
    <3>2. CASE i = Len(udpIn) + 1
      <4>1. \A h \in 1..Len(Stream(t)) : Stream(t)[h][2] \in Nat /\ Stream(t)[h][2] <= arrived[s]
        BY <1>2, <1>5, <2>2, <3>2 DEF OrderInv, StreamsBehind
      <4>2. QED
        BY <1>5, <1>8, <2>2, <3>2, <4>1 DEF Before
    <3>3. QED
      BY <1>5, <3>1, <3>2
  <2>3. QED
    BY <1>6, <2>1, <2>2 DEF StreamsBehind, Before
<1>11. QED
  BY <1>3, <1>6, <1>7, <1>9, <1>10 DEF OrderInv

\* No other step touches the queue, the streams or the numbers.
LEMMA OtherStepsAside ==
    ASSUME [Next]_vars,
           ~(HandleDatagram /\ UNCHANGED envVars),
           ~\E s \in Sources, n \in 0..BufSize + 1 : Arrive(s, n)
    PROVE  UNCHANGED <<udpIn, bindings, toServer, arrived>>
BY DEF Next, System, ReactorThread, ForwardAnswer, ServerLeft, ReactorExits, Stopping, StopBegins, Sigint, EndLoop,
       RemoveUdpHandler, Environment, ServerWrites, ServerCloses, ServerRestarts, Terminated,
       udpVars, bindingVars, tcpVars, loopVars, envVars, systemVars, vars

LEMMA InitOrder == Init => OrderInv
BY DEF Init, OrderInv, DatagramsConsecutive, DatagramsInOrder, StreamsBehind, Stream, Endpoints

LEMMA NextOrder == ASSUME IInv, OrderInv, [Next]_vars PROVE OrderInv'
<1>1. CASE HandleDatagram /\ UNCHANGED envVars
  BY <1>1, HandleDatagramOrder
<1>2. CASE \E s \in Sources, n \in 0..BufSize + 1 : Arrive(s, n)
  BY <1>2, ArriveOrder
<1>3. CASE UNCHANGED <<udpIn, bindings, toServer, arrived>>
  <2>1. \A s \in Sources : Stream(s)' = Stream(s)
    BY <1>3 DEF Stream
  <2>2. DatagramsConsecutive'
    <3>1. udpIn' = udpIn /\ arrived' = arrived
      BY <1>3
    <3>2. QED
      BY <3>1 DEF OrderInv, DatagramsConsecutive
  <2>3. DatagramsInOrder'
    BY <1>3 DEF OrderInv, DatagramsInOrder, Before
  <2>4. StreamsBehind'
    BY <1>3, <2>1 DEF OrderInv, StreamsBehind, Before
  <2>5. QED
    BY <2>2, <2>3, <2>4 DEF OrderInv
<1>4. QED
  BY <1>1, <1>2, <1>3, OtherStepsAside

-----------------------------------------------------------------------------
(* The tunnel implements the ordered channel *)

\* What handle_client writes is a delivery, or nothing.
LEMMA HandlerDelivers ==
    ASSUME IInv, OrderInv, OrderInv', IInv', HandleDatagram, UNCHANGED envVars, NEW s \in Sources
    PROVE  [Channel(s)!Deliver]_<<arrived[s], Relayed(s)>>
<1>1. TakeDatagram /\ UNCHANGED arrived
  BY DEF HandleDatagram, ReadFails, ForwardOnBinding, ConnectAndForward, ConnectFails, envVars
<1>2. /\ Stream(s) \in Seq(Units) /\ Len(Stream(s)) \in Nat
      /\ Relayed(s) \in Seq(Nat) /\ Len(Relayed(s)) = Len(Stream(s))
      /\ \A i \in 1..Len(Stream(s)) : Relayed(s)[i] = Stream(s)[i][2]
  BY StreamNumbers DEF OrderInv, AllNumbered, Numbered
<1>3. /\ Stream(s)' \in Seq(Units) /\ Len(Stream(s)') \in Nat
      /\ Relayed(s)' \in Seq(Nat) /\ Len(Relayed(s)') = Len(Stream(s)')
      /\ \A i \in 1..Len(Stream(s)') : Relayed(s)'[i] = Stream(s)'[i][2]
  <2>1. StreamsBehind'
    BY DEF OrderInv
  <2>2. AllNumbered'
    BY <2>1, StreamNumbers, PTL
  <2>3. QED
    BY <2>2 DEF AllNumbered, Numbered
<1>4. CASE Stream(s)' = Stream(s)
  <2>1. Relayed(s)' = Relayed(s)
    BY <1>2, <1>3, <1>4, SeqEqual
  <2>2. QED
    BY <1>1, <2>1
<1>5. ASSUME Datagram.from = s, NEW d \in Seq(Units), Begins(d, Datagram.data), Stream(s)' = Stream(s) \o d
      PROVE  [Channel(s)!Deliver]_<<arrived[s], Relayed(s)>>
  <2>1. /\ Len(d) \in Nat
        /\ Len(Stream(s)') = Len(Stream(s)) + Len(d)
        /\ \A i \in 1..Len(Stream(s)) : Stream(s)'[i] = Stream(s)[i]
        /\ \A i \in 1..Len(d) : Stream(s)'[Len(Stream(s)) + i] = d[i]
    BY <1>2, <1>5, ConcatProperties, LenProperties
  <2>2. PICK k \in Nat : k + Len(d) <= arrived[s] /\ \A i \in 1..Len(d) : d[i][2] = k + i
    BY <1>1, <1>5, TakenNumbers
  <2>3. CASE d = <<>>
    BY <1>2, <1>4, <1>5, <2>3, ConcatEmptySeq
  <2>4. CASE d # <<>>
    <3> DEFINE lo == k + 1
               hi == k + Len(d)
               new == [i \in 1..hi + 1 - lo |-> lo + i - 1]
    <3>1. Len(d) \in Nat \ {0}
      BY <2>1, <2>4, EmptySeq
    <3>2. arrived[s] \in Nat
      BY ClientProxyAssumption DEF IInv, TypeOK
    <3>3. Channel(s)!Last \in Nat /\ Channel(s)!Last < lo
      <4>1. CASE Relayed(s) = <<>>
        BY <4>1 DEF Channel!Last
      <4>2. CASE Relayed(s) # <<>>
        <5>1. Len(Stream(s)) \in 1..Len(Stream(s))
          BY <1>2, <4>2, EmptySeq
        <5>2. Channel(s)!Last = Stream(s)[Len(Stream(s))][2]
          BY <1>2, <4>2, <5>1 DEF Channel!Last
        <5>3. Before(Stream(s), Datagram.data)
          <6>1. 1 \in 1..Len(udpIn) /\ Datagram = udpIn[1]
            BY <1>1, TakeShifts
          <6>2. QED
            BY <1>5, <6>1 DEF OrderInv, StreamsBehind
        <5>4. 1 \in 1..Len(Datagram.data) /\ 1 \in 1..Len(d) /\ d[1] = Datagram.data[1]
          <6>1. Len(Datagram.data) \in Nat
            BY <1>1, TakeProperties, LenProperties DEF Datagrams
          <6>2. QED
            BY <1>5, <3>1, <6>1 DEF Begins
        <5>5. Stream(s)[Len(Stream(s))][2] < k + 1
          BY <2>2, <5>1, <5>3, <5>4 DEF Before
        <5>6. Stream(s)[Len(Stream(s))][2] \in Nat
          BY <3>2, <5>1 DEF OrderInv, StreamsBehind
        <5>7. QED
          BY <5>2, <5>5, <5>6
      <4>3. QED
        BY <4>1, <4>2
    <3>4. lo \in Channel(s)!Last + 1 .. arrived[s] /\ hi \in Channel(s)!Last + 1 .. arrived[s]
      BY <2>2, <3>1, <3>2, <3>3
    <3>5. new \in Seq(Nat) /\ Len(new) = Len(d) /\ \A i \in 1..Len(d) : new[i] = k + i
      <4>1. hi + 1 - lo = Len(d) /\ \A i \in 1..Len(d) : lo + i - 1 = k + i /\ k + i \in Nat
        BY <3>1, <2>2
      <4>2. QED
        BY <2>1, <4>1, IsASeq
    <3> HIDE DEF new
    <3>6. /\ Relayed(s) \o new \in Seq(Nat)
          /\ Len(Relayed(s) \o new) = Len(Stream(s)) + Len(d)
          /\ \A i \in 1..Len(Stream(s)) : (Relayed(s) \o new)[i] = Relayed(s)[i]
          /\ \A i \in 1..Len(d) : (Relayed(s) \o new)[Len(Stream(s)) + i] = new[i]
      <4>1. /\ Relayed(s) \o new \in Seq(Nat)
            /\ Len(Relayed(s) \o new) = Len(Relayed(s)) + Len(new)
            /\ \A i \in 1..Len(Relayed(s)) + Len(new) :
                 (Relayed(s) \o new)[i] = IF i <= Len(Relayed(s)) THEN Relayed(s)[i] ELSE new[i - Len(Relayed(s))]
        <5>1. Relayed(s) \in Seq(Nat)
          BY <1>2
        <5>2. new \in Seq(Nat)
          BY <3>5
        <5>3. QED
          BY <5>1, <5>2, ConcatProperties
      <4>2. ASSUME NEW i \in 1..Len(Stream(s)) PROVE (Relayed(s) \o new)[i] = Relayed(s)[i]
        BY <1>2, <2>1, <3>5, <4>1
      <4>3. ASSUME NEW i \in 1..Len(d) PROVE (Relayed(s) \o new)[Len(Stream(s)) + i] = new[i]
        <5>1. /\ Len(Stream(s)) + i \in 1..Len(Stream(s)) + Len(d)
              /\ ~(Len(Stream(s)) + i <= Len(Stream(s))) /\ Len(Stream(s)) + i - Len(Stream(s)) = i
          BY <1>2, <2>1
        <5>2. QED
          BY <1>2, <3>5, <4>1, <5>1
      <4>4. QED
        BY <1>2, <3>5, <4>1, <4>2, <4>3
    <3>7. ASSUME NEW i \in 1..Len(Stream(s)) + Len(d) PROVE Relayed(s)'[i] = (Relayed(s) \o new)[i]
      <4>1. CASE i \in 1..Len(Stream(s))
        <5>1. i \in 1..Len(Stream(s)')
          BY <1>2, <2>1
        <5>2. QED
          <6>1. Relayed(s)'[i] = Stream(s)'[i][2]
            BY <1>3, <5>1
          <6>2. Stream(s)'[i] = Stream(s)[i] /\ Relayed(s)[i] = Stream(s)[i][2]
            BY <1>2, <2>1, <4>1
          <6>3. QED
            BY <3>6, <4>1, <6>1, <6>2
      <4>2. CASE i \notin 1..Len(Stream(s))
        <5>1. i - Len(Stream(s)) \in 1..Len(d) /\ i = Len(Stream(s)) + (i - Len(Stream(s)))
          BY <1>2, <2>1, <4>2
        <5>2. PICK j \in 1..Len(d) : i = Len(Stream(s)) + j
          BY <5>1
        <5>3. Relayed(s)'[i] = d[j][2]
          BY <1>3, <2>1, <5>2
        <5>4. QED
          BY <2>2, <3>5, <3>6, <5>2, <5>3
      <4>3. QED
        BY <4>1, <4>2
    <3>8. Relayed(s)' = Relayed(s) \o new
      BY <1>3, <2>1, <3>6, <3>7, SeqEqual
    <3>9. QED
      BY <1>1, <3>4, <3>8 DEF Channel!Deliver, new
  <2>5. QED
    BY <2>3, <2>4
<1>6. QED
  BY <1>1, <1>4, <1>5, HandlerWrites

\* Every step of the proxy is, for each source, a step of its channel or none.
LEMMA ChannelStep ==
    ASSUME IInv, OrderInv, [Next]_vars, NEW s \in Sources
    PROVE  [Channel(s)!Next]_<<arrived[s], Relayed(s)>>
<1>1. IInv' /\ OrderInv'
  BY NextInvariant, NextOrder
<1>2. CASE HandleDatagram /\ UNCHANGED envVars
  BY <1>1, <1>2, HandlerDelivers DEF Channel!Next
<1>3. ASSUME NEW t \in Sources, NEW n \in 0..BufSize + 1, Arrive(t, n)
      PROVE  [Channel(s)!Next]_<<arrived[s], Relayed(s)>>
  <2>1. Relayed(s)' = Relayed(s)
    BY <1>3 DEF Arrive, Relayed, bindingVars, tcpVars
  <2>2. arrived'[t] > arrived[t] /\ (t # s => arrived'[s] = arrived[s])
    BY <1>3, ArriveOrder
  <2>3. QED
    BY <2>1, <2>2 DEF Channel!Next, Channel!Send
<1>4. CASE UNCHANGED <<udpIn, bindings, toServer, arrived>>
  BY <1>4 DEF Relayed
<1>5. QED
  BY <1>2, <1>3, <1>4, OtherStepsAside

-----------------------------------------------------------------------------
(* The theorems *)

\* The invariant holds in every state the client proxy can reach.
THEOREM Invariant == Spec => []IInv
<1>1. Init => IInv
  BY InitInvariant
<1>2. IInv /\ [Next]_vars => IInv'
  BY NextInvariant
<1>3. QED
  BY <1>1, <1>2, PTL DEF Spec

\* Every variable has its type, whatever the faults.
THEOREM TypeCorrect == Spec => []TypeOK
<1>1. IInv => TypeOK
  BY DEF IInv
<1>2. QED
  BY <1>1, Invariant, PTL

\* bindings_ and udp_sender_ agree: BindingManager::getOrCreateBinding never gives
\* a connection to two sources, nor loses one.
THEOREM BindingsAlwaysAgree == Spec => []BindingsAgree
<1>1. IInv => BindingsAgree
  BY DEF IInv
<1>2. QED
  BY <1>1, Invariant, PTL

\* A TCP connection to the server carries the data of one UDP source.
THEOREM SourcesStaySeparate == Spec => []SourcesSeparate
<1>1. IInv => SourcesSeparate
  BY DEF IInv
<1>2. QED
  BY <1>1, Invariant, PTL

\* What UdpTcpBinding::handle_input sends goes to the source whose connection the
\* server wrote it on.
THEOREM AnswersAlwaysGoHome == Spec => []AnswersGoHome
<1>1. IInv => AnswersGoHome
  BY DEF IInv
<1>2. QED
  BY <1>1, Invariant, PTL

\* No key is bound twice: the handlers use a binding for as long as the proxy runs.
THEOREM BindingsAreForLife == Spec => BindingIsForLife
<1> DEFINE Kept == \A k \in Endpoints : bindings[k] # None => bindings'[k] = bindings[k]
<1>1. IInv /\ [Next]_vars => [Kept]_vars
  <2> SUFFICES ASSUME IInv, Next PROVE Kept
    OBVIOUS
  <2>1. CASE UNCHANGED bindings
    BY <2>1
  <2>2. ASSUME NEW c \in Conns, ConnectAndForward(c) PROVE Kept
    <3>1. PICK m \in Message : bindings[m.key] = None /\ bindings' = [bindings EXCEPT ![m.key] = c]
      BY <2>2 DEF ConnectAndForward, NoBinding, StoreBinding
    <3>2. QED
      BY <3>1 DEF IInv, TypeOK
  <2>3. QED
    BY <2>1, <2>2 DEF Next, System, ReactorThread, HandleDatagram, ReadFails, ForwardOnBinding, ConnectFails,
                      ForwardAnswer, ServerLeft, ReactorExits, Stopping, StopBegins, Sigint, EndLoop,
                      RemoveUdpHandler, Environment, Arrive, ServerWrites, ServerCloses, ServerRestarts,
                      Terminated, bindingVars, vars, systemVars
<1>2. QED
  BY <1>1, Invariant, PTL DEF Spec, BindingIsForLife

\* As long as register_handler succeeds, the reactor watches every open connection:
\* nothing the server writes goes unseen.
THEOREM OpenIsAlwaysWatched == Spec => []OpenIsWatched
<1>1. Init => OpenIsWatched
  BY DEF Init, OpenIsWatched
<1>2. TypeOK /\ OpenIsWatched /\ [Next]_vars => OpenIsWatched'
  <2> SUFFICES ASSUME TypeOK, OpenIsWatched, [Next]_vars, "register" \notin Faults,
                      NEW c \in Conns, link'[c] = "open"
               PROVE  c \in registered'
    BY DEF OpenIsWatched
  <2>1. CASE UNCHANGED <<link, registered>>
    BY <2>1 DEF OpenIsWatched
  <2>2. ASSUME NEW d \in Conns, ConnectAndForward(d) PROVE c \in registered'
    BY <2>2 DEF ConnectAndForward, RegisterWithReactor, TypeOK, OpenIsWatched
  <2>3. ASSUME NEW d \in Conns, ServerLeft(d) PROVE c \in registered'
    BY <2>3 DEF ServerLeft, tcpVars, OpenIsWatched
  <2>4. ASSUME NEW d \in Conns, ServerCloses(d) PROVE c \in registered'
    BY <2>4 DEF ServerCloses, bindingVars, TypeOK, OpenIsWatched
  <2>5. CASE ServerRestarts
    BY <2>5 DEF ServerRestarts, bindingVars, TypeOK, OpenIsWatched
  <2>6. QED
    BY <2>1, <2>2, <2>3, <2>4, <2>5
    DEF Next, System, ReactorThread, HandleDatagram, ReadFails, ForwardOnBinding, ConnectFails,
        ForwardAnswer, ReactorExits, Stopping, StopBegins, Sigint, EndLoop, RemoveUdpHandler,
        Environment, Arrive, ServerWrites, Terminated, bindingVars, tcpVars, vars, systemVars
<1>3. QED
  BY <1>1, <1>2, TypeCorrect, PTL DEF Spec

\* The units of a source arrive, wait and are written in the order of their numbers.
THEOREM DataStayInOrder == Spec => []OrderInv
<1>1. Init => OrderInv
  BY InitOrder
<1>2. IInv /\ OrderInv /\ [Next]_vars => OrderInv'
  BY NextOrder
<1>3. QED
  BY <1>1, <1>2, Invariant, PTL DEF Spec

\* The client proxy implements an ordered channel that may lose, for each source:
\* what handle_client writes for it is never invented, repeated or reordered.
THEOREM RelaysAlwaysInOrder == Spec => RelaysInOrder
<1> DEFINE Step == \A s \in Sources : [Channel(s)!Next]_<<arrived[s], Relayed(s)>>
<1>1. Init => \A s \in Sources : Channel(s)!Init
  BY DEF Init, Channel!Init, Relayed, Endpoints
<1>2. IInv /\ OrderInv /\ [Next]_vars => [Step]_vars
  BY ChannelStep
<1>3. QED
  BY <1>1, <1>2, Invariant, DataStayInOrder, PTL DEF Spec, RelaysInOrder
=============================================================================
