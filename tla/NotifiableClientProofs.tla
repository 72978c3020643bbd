----------------------- MODULE NotifiableClientProofs -----------------------
(***************************************************************************)
(* Proofs about NotifiableClient, for any clients, bounds and buffer size  *)
(* and whatever a read may return: the types, and what process_response    *)
(* makes of the stream of messages: which it validates, in which order,    *)
(* which it passes over and which alarms it raises.                        *)
(***************************************************************************)
EXTENDS NotifiableClient, SequenceLemmas

-----------------------------------------------------------------------------
(* The inductive invariant *)

\* The requests of another client are notified with growing numbers.
NumbersRise ==
    \A i, j \in 1..Len(said) :
        i < j /\ said[i].id = said[j].id /\ said[i].id \in Others => said[i].num < said[j].num

Rises(log) == \A i, j \in 1..Len(log) : i < j => log[i] < log[j]

\* The validated messages have been read up to their text.
Behind(log, p) == \A i \in 1..Len(log) : 4 * log[i] - 1 <= p

\* What is known of a client is the number of the last of its messages in the log.
LastIsKnown(numbers, log) ==
    \A c \in Others :
        \/ numbers[c] = None /\ \A i \in 1..Len(log) : said[log[i]].id # c
        \/ \E j \in 1..Len(log) :
            /\ said[log[j]].id = c /\ numbers[c] = said[log[j]].num
            /\ \A i \in 1..Len(log) : said[log[i]].id = c => i <= j

\* A thread that writes has a number to write; a read takes something.
Numbers ==
    /\ sender = "write" => seq \in 1..MaxSeq
    /\ \A r \in reads : r.first \in Nat \ {0} /\ r.last \in Nat

IInv ==
    /\ TypeOK
    /\ Numbers
    /\ NumbersRise
    /\ Rises(validated)
    /\ Behind(validated, taken)
    /\ LastIsKnown(known, validated)
    /\ FalseAlarmsComeFromCuts
    /\ SkippedForAReason

-----------------------------------------------------------------------------
(* Pieces and messages *)

\* Every piece belongs to one message and has one place in it.
LEMMA PlaceAndPart ==
    /\ \A p \in Nat \ {0} : /\ Place(p) \in Nat \ {0} /\ Part(p) \in 1..4
                            /\ Part(p) = 1 => p = 4 * Place(p) - 3
    /\ \A m \in Nat \ {0} : Place(4 * m - 3) = m /\ Part(4 * m - 3) = 1
BY DEF Place, Part

\* What the server may have said.
LEMMA MessageFields ==
    ASSUME NEW m \in Messages
    PROVE  /\ m.kind \in {"echo", "notify"}
           /\ m.kind = "echo" => m.id = Self
           /\ m.kind = "notify" => m.id \in Others /\ m.num \in 1..MaxNum
BY DEF Messages

\* A keyword is the beginning of a message.
LEMMA KeywordPlace ==
    ASSUME TypeOK, NEW hi \in Nat, hi <= 4 * Len(said), NEW p \in Nat \ {0}, IsKeyword(p, hi)
    PROVE  /\ Place(p) \in 1..Len(said) /\ p = 4 * Place(p) - 3
           /\ Message(p) = said[Place(p)] /\ Message(p) \in Messages
<1>1. said \in Seq(Messages) /\ Len(said) \in Nat
  BY LenProperties DEF TypeOK
<1>2. Place(p) \in Nat \ {0} /\ p = 4 * Place(p) - 3 /\ p + 1 <= hi
  BY PlaceAndPart DEF IsKeyword
<1>3. Place(p) \in 1..Len(said)
  BY <1>1, <1>2
<1>4. QED
  BY <1>1, <1>2, <1>3, ElementOfSeq DEF Message

\* Where the beginning of a message is found.
LEMMA PlaceKeyword ==
    ASSUME NEW hi \in Nat, NEW m \in Nat \ {0}, 4 * m <= hi
    PROVE  IsKeyword(4 * m - 3, hi) /\ Message(4 * m - 3) = said[m]
<1>1. Place(4 * m - 3) = m /\ Part(4 * m - 3) = 1
  BY PlaceAndPart
<1>2. QED
  BY <1>1 DEF IsKeyword, Message

\* What find() makes the end: behind it is a keyword or nothing, up to it there is none
\* of the other kind.
LEMMA EndProperties ==
    ASSUME TypeOK, NEW hi \in Nat, hi <= 4 * Len(said), NEW p \in Nat \ {0}, IsKeyword(p, hi)
    PROVE  /\ End(p, hi) \in Nat /\ p + 1 <= End(p, hi) /\ End(p, hi) <= hi
           /\ End(p, hi) # hi => Part(End(p, hi) + 1) = 1 /\ p + 3 <= End(p, hi)
           /\ \A q \in p + 1 .. End(p, hi) : IsKeyword(q, hi) => Message(q).kind = Message(p).kind
<1> DEFINE others == {q \in p + 1 .. hi : IsKeyword(q, hi) /\ Message(q).kind # Message(p).kind}
<1>1. p + 1 <= hi /\ Part(p) = 1
  BY DEF IsKeyword
<1>2. CASE others = {}
  <2>1. End(p, hi) = hi
    BY <1>2 DEF End
  <2>2. \A q \in p + 1 .. hi : IsKeyword(q, hi) => Message(q).kind = Message(p).kind
    BY <1>2
  <2>3. QED
    BY <1>1, <2>1, <2>2
<1>3. CASE others # {}
  <2>1. others \in SUBSET Nat
    OBVIOUS
  <2> DEFINE least == Min(others)
  <2>2. least \in others /\ \A q \in others : least <= q
    BY <1>3, <2>1, MinOfSet
  <2>3. End(p, hi) = least - 1
    BY <1>3 DEF End
  <2>4. least \in p + 1 .. hi /\ IsKeyword(least, hi) /\ least \in Nat \ {0}
    BY <2>2
  <2> HIDE DEF least
  <2>5. p + 3 <= least - 1
    <3>1. p = 4 * Place(p) - 3 /\ least = 4 * Place(least) - 3 /\ Place(p) \in Nat /\ Place(least) \in Nat
      BY <2>4, KeywordPlace
    <3>2. QED
      BY <2>4, <3>1
  <2>6. \A q \in p + 1 .. least - 1 : q \in p + 1 .. hi /\ ~(least <= q)
    BY <2>4
  <2>7. \A q \in p + 1 .. least - 1 : IsKeyword(q, hi) => Message(q).kind = Message(p).kind
    BY <2>2, <2>6
  <2>8. Part(least - 1 + 1) = 1 /\ least - 1 \in Nat /\ p + 1 <= least - 1 /\ least - 1 <= hi
    BY <2>4, <2>5 DEF IsKeyword
  <2>9. QED
    BY <2>3, <2>5, <2>7, <2>8
<1>4. QED
  BY <1>2, <1>3

-----------------------------------------------------------------------------
(* One turn of the loop of process_response, on the pieces from lo to hi *)

LoopStates ==
    [at : Nat \ {0}, known : [Others -> 1..MaxNum \cup {None}], alarms : SUBSET {"parse", "id", "old"},
     validated : Seq(1..Len(said))]

Holds(log, m) == \E i \in 1..Len(log) : log[i] = m

\* Messages of one read in a row.
Repeats(lo, m) == lo <= 4 * m - 7 /\ said[m - 1].kind = said[m].kind

\* What the loop has made of the pieces before st.at.
LoopInv(st, lo, hi) ==
    /\ st \in LoopStates /\ lo <= st.at /\ st.at <= hi + 1
    /\ Rises(st.validated) /\ Behind(st.validated, st.at - 1) /\ LastIsKnown(st.known, st.validated)
    /\ st.alarms \subseteq {"parse"}
    /\ st.alarms # {} => hi % 4 # 0 \/ \E r \in reads : r.last % 4 # 0
    /\ \A m \in 1..Len(said) : Holds(validated, m) => Holds(st.validated, m)
    /\ Part(lo) = 1 =>
        /\ st.at = hi + 1 \/ Part(st.at) = 1
        /\ \A m \in 1..Len(said) : lo <= 4 * m - 3 /\ 4 * m < st.at => Holds(st.validated, m) \/ Repeats(lo, m)

\* A message that parses is validated, and one that does not was cut by the read: the
\* server says its id, and no old number.
HandleParses(st, end) ==
    /\ st.at + 2 <= end
    /\ \E k \in [Others -> 1..MaxNum \cup {None}] :
        /\ Handle(st, [first |-> st.at, last |-> end])
               = [at |-> st.at, known |-> k, alarms |-> st.alarms, validated |-> Append(st.validated, Place(st.at))]
        /\ \/ Message(st.at).kind = "echo" /\ k = st.known
           \/ /\ Message(st.at).kind = "notify"
              /\ k = [st.known EXCEPT ![Message(st.at).id] = Message(st.at).num]

HandleFails(st, end) ==
    /\ end < st.at + 2
    /\ \E a \in SUBSET {"parse", "id", "old"} :
        /\ Handle(st, [first |-> st.at, last |-> end])
               = [at |-> st.at, known |-> st.known, alarms |-> a, validated |-> st.validated]
        /\ a = st.alarms \/ a = st.alarms \cup {"parse"}

LEMMA HandleProperties ==
    ASSUME TypeOK, NumbersRise, NEW hi \in Nat, hi <= 4 * Len(said), NEW lo \in Nat \ {0}, NEW st, LoopInv(st, lo, hi),
           IsKeyword(st.at, hi), NEW end \in Nat
    PROVE  HandleParses(st, end) \/ HandleFails(st, end)
<1> DEFINE m == Message(st.at)
           s == [first |-> st.at, last |-> end]
<1>1. /\ st \in LoopStates /\ st.at \in Nat \ {0}
      /\ st = [at |-> st.at, known |-> st.known, alarms |-> st.alarms, validated |-> st.validated]
      /\ st.known \in [Others -> 1..MaxNum \cup {None}] /\ st.alarms \in SUBSET {"parse", "id", "old"}
      /\ st.validated \in Seq(1..Len(said))
  BY DEF LoopInv, LoopStates
<1>2. /\ Place(st.at) \in 1..Len(said) /\ st.at = 4 * Place(st.at) - 3
      /\ m = said[Place(st.at)] /\ m \in Messages
  BY <1>1, KeywordPlace
<1>3. /\ m.kind \in {"echo", "notify"}
      /\ m.kind = "echo" => m.id = Self
      /\ m.kind = "notify" => m.id \in Others /\ m.num \in 1..MaxNum
  BY <1>2, MessageFields
<1>4. Message(s.first) = m /\ Place(s.first) = Place(st.at) /\ (Parses(s) <=> st.at + 2 <= end)
  BY <1>1 DEF Parses
<1>5. m.kind = "notify" => ~IsOld(st.known[m.id], m.num)
  <2> SUFFICES ASSUME m.kind = "notify", st.known[m.id] # None, m.num < st.known[m.id] + 1 PROVE FALSE
    BY DEF IsOld
  <2>1. PICK j \in 1..Len(st.validated) : said[st.validated[j]].id = m.id /\ st.known[m.id] = said[st.validated[j]].num
    BY <1>3 DEF LoopInv, LastIsKnown
  <2>2. st.validated[j] \in 1..Len(said) /\ Len(said) \in Nat
    BY <1>1, ElementOfSeq, LenProperties DEF TypeOK
  <2>3. 4 * st.validated[j] - 1 <= st.at - 1
    BY DEF LoopInv, Behind
  <2>4. st.validated[j] < Place(st.at)
    <3>1. \A v, p, b \in Nat : b = 4 * p - 3 /\ 4 * v - 1 <= b - 1 => v < p
      OBVIOUS
    <3>2. st.validated[j] \in Nat /\ Place(st.at) \in Nat
      BY <1>2, <2>2
    <3>3. QED
      BY <1>1, <1>2, <2>3, <3>1, <3>2
  <2>5. st.known[m.id] < m.num
    BY <1>2, <1>3, <2>1, <2>2, <2>4 DEF NumbersRise
  <2>6. st.known[m.id] \in 1..MaxNum /\ m.num \in 1..MaxNum /\ MaxNum \in Nat
    BY <1>1, <1>3, ClientAssumption
  <2>7. QED
    BY <2>5, <2>6
<1>6. Valid(st, s) = [at |-> st.at, known |-> st.known, alarms |-> st.alarms, validated |-> Append(st.validated, Place(st.at))]
  <2>1. Valid(st, s) = [st EXCEPT !.validated = Append(st.validated, Place(st.at))]
    BY <1>4, Zenon DEF Valid
  <2>2. QED
    BY <1>1, <2>1
<1> HIDE DEF m, s
<1>7. CASE m.kind = "echo"
  <2>1. Handle(st, s) = IF ~Parses(s) THEN st ELSE Valid(st, s)
    BY <1>3, <1>4, <1>7 DEF Handle, HandleEcho
  <2>2. CASE st.at + 2 <= end
    BY <1>1, <1>4, <1>6, <1>7, <2>1, <2>2 DEF HandleParses, m, s
  <2>3. CASE ~(st.at + 2 <= end)
    <3>1. Handle(st, s) = [at |-> st.at, known |-> st.known, alarms |-> st.alarms, validated |-> st.validated]
      BY <1>1, <1>4, <2>1, <2>3
    <3>2. end < st.at + 2
      BY <1>1, <2>3
    <3>3. QED
      BY <1>1, <3>1, <3>2 DEF HandleFails, s
  <2>4. QED
    BY <2>2, <2>3
<1>8. CASE m.kind = "notify"
  <2>1. Handle(st, s) = IF ~Parses(s) THEN Alarm(st, "parse") ELSE [Valid(st, s) EXCEPT !.known[m.id] = m.num]
    BY <1>4, <1>5, <1>8 DEF Handle, HandleNotification
  <2>2. CASE st.at + 2 <= end
    <3> DEFINE k == [st.known EXCEPT ![m.id] = m.num]
    <3>1. k \in [Others -> 1..MaxNum \cup {None}]
      BY <1>1, <1>3, <1>8
    <3>2. Handle(st, s) = [at |-> st.at, known |-> k, alarms |-> st.alarms, validated |-> Append(st.validated, Place(st.at))]
      <4>1. Handle(st, s) = [Valid(st, s) EXCEPT !.known[m.id] = m.num]
        BY <1>4, <2>1, <2>2
      <4>2. [Valid(st, s) EXCEPT !.known[m.id] = m.num] = [Valid(st, s) EXCEPT !.known = [@ EXCEPT ![m.id] = m.num]]
        OBVIOUS
      <4>3. Valid(st, s).known = st.known
        BY <1>6
      <4>4. [Valid(st, s) EXCEPT !.known = [@ EXCEPT ![m.id] = m.num]] = [Valid(st, s) EXCEPT !.known = k]
        BY <4>3
      <4>5. [Valid(st, s) EXCEPT !.known = k]
                = [at |-> st.at, known |-> k, alarms |-> st.alarms, validated |-> Append(st.validated, Place(st.at))]
        <5> DEFINE log == Append(st.validated, Place(st.at))
        <5> HIDE DEF k, log
        <5>1. Valid(st, s) = [at |-> st.at, known |-> st.known, alarms |-> st.alarms, validated |-> log]
          BY <1>6 DEF log
        <5>2. [[at |-> st.at, known |-> st.known, alarms |-> st.alarms, validated |-> log] EXCEPT !.known = k]
                = [at |-> st.at, known |-> k, alarms |-> st.alarms, validated |-> log]
          OBVIOUS
        <5>3. QED
          BY <5>1, <5>2 DEF log
      <4>6. QED
        BY <4>1, <4>2, <4>4, <4>5
    <3>3. QED
      BY <1>8, <2>2, <3>1, <3>2 DEF HandleParses, m, s
  <2>3. CASE ~(st.at + 2 <= end)
    <3> DEFINE a == st.alarms \cup {"parse"}
    <3>1. a \in SUBSET {"parse", "id", "old"}
      BY <1>1
    <3>2. Handle(st, s) = [at |-> st.at, known |-> st.known, alarms |-> a, validated |-> st.validated]
      BY <1>1, <1>4, <2>1, <2>3 DEF Alarm
    <3>3. end < st.at + 2
      BY <1>1, <2>3
    <3> HIDE DEF a
    <3>4. a = st.alarms \/ a = st.alarms \cup {"parse"}
      BY DEF a
    <3>5. QED
      BY <3>1, <3>2, <3>3, <3>4 DEF HandleFails, s
  <2>4. QED
    BY <2>2, <2>3
<1>9. QED
  BY <1>3, <1>7, <1>8

LEMMA UpToNext ==
    \A n \in Nat : /\ \A i \in 1..n + 1 : i \in 1..n \/ i = n + 1
                   /\ n + 1 \in 1..n + 1 /\ \A i \in 1..n : i \in 1..n + 1 /\ i < n + 1
OBVIOUS

\* A log that takes one more message, behind all that it has.
LEMMA LogGrows ==
    ASSUME NEW log \in Seq(1..Len(said)), NEW m \in 1..Len(said), Len(said) \in Nat,
           \A i \in 1..Len(log) : log[i] < m, Rises(log)
    PROVE  /\ Append(log, m) \in Seq(1..Len(said)) /\ Rises(Append(log, m))
           /\ \A n : Holds(Append(log, m), n) <=> Holds(log, n) \/ n = m
           /\ \A i \in 1..Len(Append(log, m)) :
                \/ i \in 1..Len(log) /\ Append(log, m)[i] = log[i]
                \/ i = Len(log) + 1 /\ Append(log, m)[i] = m
           /\ Len(log) \in Nat /\ Len(Append(log, m)) = Len(log) + 1
<1> DEFINE new == Append(log, m)
<1>1. /\ Len(log) \in Nat /\ new \in Seq(1..Len(said)) /\ Len(new) = Len(log) + 1
      /\ \A i \in 1..Len(log) : new[i] = log[i]
      /\ new[Len(log) + 1] = m
  BY AddLast
<1> HIDE DEF new
<1>2. \A i \in 1..Len(new) : \/ i \in 1..Len(log) /\ new[i] = log[i]
                             \/ i = Len(log) + 1 /\ new[i] = m
  <2> SUFFICES ASSUME NEW i \in 1..Len(new)
               PROVE  \/ i \in 1..Len(log) /\ new[i] = log[i]
                      \/ i = Len(log) + 1 /\ new[i] = m
    OBVIOUS
  <2>1. i \in 1..Len(log) + 1
    BY <1>1
  <2>2. i \in 1..Len(log) \/ i = Len(log) + 1
    BY <1>1, <2>1, UpToNext
  <2>3. QED
    BY <1>1, <2>2
<1>3. Rises(new)
  <2> SUFFICES ASSUME NEW i \in 1..Len(new), NEW j \in 1..Len(new), i < j PROVE new[i] < new[j]
    BY DEF Rises
  <2>1. i \in 1..Len(log) /\ new[i] = log[i]
    BY <1>1, <1>2
  <2>2. CASE j \in 1..Len(log) /\ new[j] = log[j]
    BY <2>1, <2>2 DEF Rises
  <2>3. CASE j = Len(log) + 1 /\ new[j] = m
    BY <2>1, <2>3
  <2>4. QED
    BY <1>2, <2>2, <2>3
<1>4. \A n : Holds(new, n) <=> Holds(log, n) \/ n = m
  <2>1. \A i \in 1..Len(log) : i \in 1..Len(new)
    BY <1>1
  <2>2. Len(log) + 1 \in 1..Len(new)
    BY <1>1
  <2>3. QED
    BY <1>1, <1>2, <2>1, <2>2 DEF Holds
<1>5. QED
  BY <1>1, <1>2, <1>3, <1>4 DEF new

\* What is known is the last of the log that has grown.
LEMMA KnownGrows ==
    ASSUME NEW log \in Seq(1..Len(said)), NEW m \in 1..Len(said), Len(said) \in Nat,
           \A i \in 1..Len(log) : log[i] < m, Rises(log),
           NEW old \in [Others -> 1..MaxNum \cup {None}], LastIsKnown(old, log), NEW new,
           \/ said[m].id \notin Others /\ new = old
           \/ said[m].id \in Others /\ new = [old EXCEPT ![said[m].id] = said[m].num]
    PROVE  LastIsKnown(new, Append(log, m))
<1> DEFINE grown == Append(log, m)
<1>1. /\ \A i \in 1..Len(grown) : \/ i \in 1..Len(log) /\ grown[i] = log[i]
                                  \/ i = Len(log) + 1 /\ grown[i] = m
      /\ Len(log) \in Nat /\ Len(grown) = Len(log) + 1
  BY LogGrows
<1> HIDE DEF grown
<1>2. /\ Len(log) + 1 \in 1..Len(grown) /\ grown[Len(log) + 1] = m
      /\ \A i \in 1..Len(log) : i \in 1..Len(grown) /\ grown[i] = log[i]
  <2>1. /\ Len(log) + 1 \in 1..Len(grown)
        /\ \A i \in 1..Len(log) : i \in 1..Len(grown) /\ i # Len(log) + 1
    BY <1>1, UpToNext
  <2>2. ~(Len(log) + 1 \in 1..Len(log))
    BY <1>1
  <2>3. QED
    BY <1>1, <2>1, <2>2
<1> SUFFICES ASSUME NEW c \in Others
             PROVE  \/ new[c] = None /\ \A i \in 1..Len(grown) : said[grown[i]].id # c
                    \/ \E j \in 1..Len(grown) :
                        /\ said[grown[j]].id = c /\ new[c] = said[grown[j]].num
                        /\ \A i \in 1..Len(grown) : said[grown[i]].id = c => i <= j
  BY DEF LastIsKnown, grown
<1>3. CASE said[m].id = c
  <2>1. new[c] = said[m].num
    BY <1>3
  <2>2. \A i \in 1..Len(grown) : i <= Len(log) + 1
    BY <1>1
  <2>3. QED
    BY <1>2, <1>3, <2>1, <2>2
<1>4. CASE said[m].id # c
  <2>1. new[c] = old[c]
    BY <1>4
  <2>2. CASE old[c] = None /\ \A i \in 1..Len(log) : said[log[i]].id # c
    BY <1>1, <1>4, <2>1, <2>2
  <2>3. ASSUME NEW j \in 1..Len(log), said[log[j]].id = c, old[c] = said[log[j]].num,
               \A i \in 1..Len(log) : said[log[i]].id = c => i <= j
        PROVE  \E l \in 1..Len(grown) :
                        /\ said[grown[l]].id = c /\ new[c] = said[grown[l]].num
                        /\ \A i \in 1..Len(grown) : said[grown[i]].id = c => i <= l
    <3>1. \A i \in 1..Len(grown) : said[grown[i]].id = c => i <= j
      BY <1>1, <1>4, <2>3
    <3>2. QED
      BY <1>2, <2>1, <2>3, <3>1
  <2>4. QED
    BY <2>2, <2>3 DEF LastIsKnown
<1>5. QED
  BY <1>3, <1>4

\* The messages that one segment holds are of one kind, and so repeat the first of them.
LEMMA SegmentRepeats ==
    ASSUME TypeOK, NEW hi \in Nat, hi <= 4 * Len(said), NEW lo \in Nat \ {0}, NEW p \in Nat \ {0}, lo <= p,
           IsKeyword(p, hi), NEW m \in 1..Len(said), 4 * m <= End(p, hi), Place(p) < m
    PROVE  Repeats(lo, m)
<1>1. Place(p) \in 1..Len(said) /\ p = 4 * Place(p) - 3 /\ Message(p) = said[Place(p)] /\ Len(said) \in Nat
  BY KeywordPlace, LenProperties DEF TypeOK
<1>2. /\ End(p, hi) \in Nat /\ End(p, hi) <= hi
      /\ \A q \in p + 1 .. End(p, hi) : IsKeyword(q, hi) => Message(q).kind = Message(p).kind
  BY EndProperties
<1>3. ASSUME NEW n \in 1..Len(said), Place(p) <= n, n <= m PROVE said[n].kind = Message(p).kind
  <2>1. CASE n = Place(p)
    BY <1>1, <2>1
  <2>2. CASE n # Place(p)
    <3>1. n \in Nat \ {0} /\ 4 * n <= hi /\ 4 * n - 3 \in p + 1 .. End(p, hi)
      BY <1>1, <1>2, <1>3, <2>2
    <3>2. IsKeyword(4 * n - 3, hi) /\ Message(4 * n - 3) = said[n]
      BY <3>1, PlaceKeyword
    <3>3. QED
      BY <1>2, <3>1, <3>2
  <2>3. QED
    BY <2>1, <2>2
<1>4. m - 1 \in 1..Len(said) /\ Place(p) <= m - 1 /\ m - 1 <= m /\ m \in Nat /\ Place(p) \in Nat
  BY <1>1
<1>5. said[m - 1].kind = said[m].kind
  BY <1>3, <1>4
<1>6. lo <= 4 * m - 7
  BY <1>1, <1>4
<1>7. QED
  BY <1>5, <1>6 DEF Repeats

\* A turn keeps what the loop has made of the pieces, and goes on behind the keyword.
LEMMA TurnKeepsInv ==
    ASSUME TypeOK, NumbersRise, NEW hi \in Nat, hi <= 4 * Len(said), NEW lo \in Nat \ {0}, NEW st, LoopInv(st, lo, hi),
           IsKeyword(st.at, hi)
    PROVE  LoopInv(Turn(st, hi), lo, hi) /\ st.at + 1 <= Turn(st, hi).at
<1> DEFINE P == Place(st.at)
           end == End(st.at, hi)
<1>1. /\ st \in LoopStates /\ st.at \in Nat \ {0} /\ lo <= st.at
      /\ st.known \in [Others -> 1..MaxNum \cup {None}] /\ st.alarms \in SUBSET {"parse", "id", "old"}
      /\ st.validated \in Seq(1..Len(said)) /\ Len(said) \in Nat
  BY LenProperties DEF LoopInv, LoopStates, TypeOK
<1>2. P \in 1..Len(said) /\ P \in Nat /\ st.at = 4 * P - 3 /\ Message(st.at) = said[P] /\ said[P] \in Messages
  BY <1>1, KeywordPlace
<1>3. /\ end \in Nat /\ st.at + 1 <= end /\ end <= hi
      /\ end # hi => Part(end + 1) = 1 /\ st.at + 3 <= end
  BY <1>1, EndProperties
<1>4. Turn(st, hi) = [Handle(st, [first |-> st.at, last |-> end]) EXCEPT !.at = end + 1]
  BY DEF Turn
<1>5. \A m \in 1..Len(said) : 4 * m <= end => 4 * m < st.at \/ m = P \/ Repeats(lo, m)
  <2> SUFFICES ASSUME NEW m \in 1..Len(said), 4 * m <= end, ~(4 * m < st.at), m # P PROVE Repeats(lo, m)
    OBVIOUS
  <2>1. P < m
    BY <1>2
  <2>2. QED
    BY <1>1, <2>1, SegmentRepeats
<1>6. HandleParses(st, end) \/ HandleFails(st, end)
  BY <1>3, HandleProperties
<1> HIDE DEF P, end
<1>7. CASE HandleParses(st, end)
  <2>1. PICK k \in [Others -> 1..MaxNum \cup {None}] :
          /\ Handle(st, [first |-> st.at, last |-> end])
                 = [at |-> st.at, known |-> k, alarms |-> st.alarms, validated |-> Append(st.validated, P)]
          /\ \/ said[P].kind = "echo" /\ k = st.known
             \/ said[P].kind = "notify" /\ k = [st.known EXCEPT ![said[P].id] = said[P].num]
    BY <1>2, <1>7 DEF HandleParses, P
  <2> DEFINE log == Append(st.validated, P)
             nx == [at |-> end + 1, known |-> k, alarms |-> st.alarms, validated |-> log]
  <2>2. Turn(st, hi) = nx
    <3> HIDE DEF log
    <3>1. [[at |-> st.at, known |-> k, alarms |-> st.alarms, validated |-> log] EXCEPT !.at = end + 1]
            = [at |-> end + 1, known |-> k, alarms |-> st.alarms, validated |-> log]
      OBVIOUS
    <3>2. QED
      BY <1>4, <2>1, <3>1 DEF log
  <2>3. \A i \in 1..Len(st.validated) : st.validated[i] \in 1..Len(said) /\ 4 * st.validated[i] - 1 <= st.at - 1
    BY <1>1, ElementOfSeq DEF LoopInv, Behind
  <2>4. \A i \in 1..Len(st.validated) : st.validated[i] < P
    <3>1. \A v, p, b \in Nat : b = 4 * p - 3 /\ 4 * v - 1 <= b - 1 => v < p
      OBVIOUS
    <3>2. \A i \in 1..Len(st.validated) : st.validated[i] \in Nat
      BY <2>3
    <3>3. QED
      BY <1>1, <1>2, <2>3, <3>1, <3>2
  <2>5. Rises(st.validated) /\ LastIsKnown(st.known, st.validated)
    BY DEF LoopInv
  <2>6. /\ log \in Seq(1..Len(said)) /\ Rises(log)
        /\ \A n : Holds(log, n) <=> Holds(st.validated, n) \/ n = P
        /\ \A i \in 1..Len(log) : \/ i \in 1..Len(st.validated) /\ log[i] = st.validated[i]
                                  \/ i = Len(st.validated) + 1 /\ log[i] = P
    BY <1>1, <1>2, <2>4, <2>5, LogGrows
  <2>7. \/ said[P].id \notin Others /\ k = st.known
        \/ said[P].id \in Others /\ k = [st.known EXCEPT ![said[P].id] = said[P].num]
    BY <1>2, <2>1, MessageFields, ClientAssumption
  <2>8. LastIsKnown(k, log)
    <3> HIDE DEF log
    <3>1. LastIsKnown(k, Append(st.validated, P))
      <4>1. /\ st.validated \in Seq(1..Len(said)) /\ P \in 1..Len(said) /\ Len(said) \in Nat
            /\ st.known \in [Others -> 1..MaxNum \cup {None}]
        BY <1>1, <1>2
      <4>2. Rises(st.validated) /\ LastIsKnown(st.known, st.validated)
        BY <2>5
      <4>3. QED
        BY <2>4, <2>7, <4>1, <4>2, KnownGrows
    <3>2. QED
      BY <3>1 DEF log
  <2> HIDE DEF log
  <2>9. Behind(log, end)
    <3> SUFFICES ASSUME NEW i \in 1..Len(log) PROVE 4 * log[i] - 1 <= end
      BY DEF Behind
    <3>1. st.at + 2 <= end
      BY <1>7 DEF HandleParses
    <3>2. CASE i \in 1..Len(st.validated) /\ log[i] = st.validated[i]
      <4>1. st.validated[i] \in Nat /\ 4 * st.validated[i] - 1 <= st.at - 1
        BY <2>3, <3>2
      <4>2. \A v, b \in Nat : 4 * v - 1 <= b - 1 /\ b + 2 <= end => 4 * v - 1 <= end
        BY <1>3
      <4>3. QED
        BY <1>1, <3>1, <3>2, <4>1, <4>2
    <3>3. CASE log[i] = P
      BY <1>2, <1>3, <3>1, <3>3
    <3>4. QED
      BY <2>6, <3>2, <3>3
  <2>10. end + 1 \in Nat \ {0} /\ lo <= end + 1 /\ end + 1 <= hi + 1 /\ end + 1 - 1 = end /\ st.at + 1 <= end + 1
    BY <1>1, <1>3
  <2>11. nx \in LoopStates
    BY <1>1, <2>6, <2>10 DEF LoopStates
  <2>12. end + 1 = hi + 1 \/ Part(end + 1) = 1
    BY <1>3
  <2>13. \A m \in 1..Len(said) : Holds(validated, m) => Holds(log, m)
    BY <2>6 DEF LoopInv
  <2>14. Part(lo) = 1 => \A m \in 1..Len(said) : lo <= 4 * m - 3 /\ 4 * m < end + 1 => Holds(log, m) \/ Repeats(lo, m)
    <3> SUFFICES ASSUME Part(lo) = 1, NEW m \in 1..Len(said), lo <= 4 * m - 3, 4 * m < end + 1
                 PROVE  Holds(log, m) \/ Repeats(lo, m)
      OBVIOUS
    <3>1. 4 * m <= end
      BY <1>3
    <3>2. QED
      BY <1>5, <2>6, <3>1 DEF LoopInv
  <2>15. nx.at = end + 1 /\ nx.known = k /\ nx.alarms = st.alarms /\ nx.validated = log
    OBVIOUS
  <2> HIDE DEF nx
  <2>16. LoopInv(nx, lo, hi)
    <3>1. nx \in LoopStates /\ lo <= nx.at /\ nx.at <= hi + 1
      BY <2>10, <2>11, <2>15
    <3>2. Rises(nx.validated) /\ Behind(nx.validated, nx.at - 1) /\ LastIsKnown(nx.known, nx.validated)
      <4>1. nx.at - 1 = end
        BY <1>3, <2>15
      <4>2. QED
        BY <2>6, <2>8, <2>9, <2>15, <4>1
    <3>3. /\ nx.alarms \subseteq {"parse"}
          /\ nx.alarms # {} => hi % 4 # 0 \/ \E r \in reads : r.last % 4 # 0
      BY <2>15 DEF LoopInv
    <3>4. QED
      BY <2>12, <2>13, <2>14, <2>15, <3>1, <3>2, <3>3 DEF LoopInv
  <2>17. QED
    BY <2>2, <2>10, <2>15, <2>16
<1>8. CASE HandleFails(st, end)
  <2>1. PICK a \in SUBSET {"parse", "id", "old"} :
          /\ Handle(st, [first |-> st.at, last |-> end])
                 = [at |-> st.at, known |-> st.known, alarms |-> a, validated |-> st.validated]
          /\ a = st.alarms \/ a = st.alarms \cup {"parse"}
    BY <1>8 DEF HandleFails
  <2> DEFINE nx == [at |-> end + 1, known |-> st.known, alarms |-> a, validated |-> st.validated]
  <2>2. Turn(st, hi) = nx
    BY <1>4, <2>1
  <2>3. end < st.at + 2
    BY <1>8 DEF HandleFails
  <2>4. end = hi /\ hi % 4 = 2 /\ end = st.at + 1
    <3>1. end = hi /\ end = st.at + 1
      <4>1. \A b, e \in Nat : b + 1 <= e /\ e < b + 2 => e = b + 1 /\ ~(b + 3 <= e)
        OBVIOUS
      <4>2. QED
        BY <1>1, <1>3, <2>3, <4>1
    <3>2. hi = 4 * P - 2
      BY <1>2, <3>1
    <3>3. \A n \in Nat : (4 * n - 2) % 4 = 2
      OBVIOUS
    <3>4. QED
      BY <1>2, <3>1, <3>2, <3>3
  <2>5. end + 1 \in Nat \ {0} /\ lo <= end + 1 /\ end + 1 <= hi + 1 /\ end + 1 - 1 = end /\ st.at + 1 <= end + 1
    BY <1>1, <1>3
  <2>6. nx \in LoopStates
    BY <1>1, <2>5 DEF LoopStates
  <2>7. Behind(st.validated, end)
    <3>1. \A i \in 1..Len(st.validated) : st.validated[i] \in 1..Len(said) /\ 4 * st.validated[i] - 1 <= st.at - 1
      BY <1>1, ElementOfSeq DEF LoopInv, Behind
    <3>2. QED
      <4>1. \A v, b \in Nat : 4 * v - 1 <= b - 1 /\ b + 1 <= end => 4 * v - 1 <= end
        BY <1>3
      <4>2. \A i \in 1..Len(st.validated) : st.validated[i] \in Nat
        BY <3>1
      <4>3. QED
        BY <1>1, <1>3, <3>1, <4>1, <4>2 DEF Behind
  <2>8. a \subseteq {"parse"}
    BY <2>1 DEF LoopInv
  <2>9. Part(lo) = 1 => \A m \in 1..Len(said) : lo <= 4 * m - 3 /\ 4 * m < end + 1 => Holds(st.validated, m) \/ Repeats(lo, m)
    <3> SUFFICES ASSUME Part(lo) = 1, NEW m \in 1..Len(said), lo <= 4 * m - 3, 4 * m < end + 1
                 PROVE  Holds(st.validated, m) \/ Repeats(lo, m)
      OBVIOUS
    <3>1. 4 * m <= end /\ ~(4 * P <= end)
      BY <1>2, <1>3, <2>4
    <3>2. QED
      BY <1>5, <3>1 DEF LoopInv
  <2>10. Rises(st.validated) /\ LastIsKnown(st.known, st.validated)
         /\ \A m \in 1..Len(said) : Holds(validated, m) => Holds(st.validated, m)
    BY DEF LoopInv
  <2>11. nx.at = end + 1 /\ nx.known = st.known /\ nx.alarms = a /\ nx.validated = st.validated
    OBVIOUS
  <2>12. hi % 4 # 0 /\ end + 1 = hi + 1
    BY <2>4
  <2> HIDE DEF nx
  <2>13. LoopInv(nx, lo, hi)
    <3>1. nx \in LoopStates /\ lo <= nx.at /\ nx.at <= hi + 1
      BY <2>5, <2>6, <2>11
    <3>2. Rises(nx.validated) /\ Behind(nx.validated, nx.at - 1) /\ LastIsKnown(nx.known, nx.validated)
      <4>1. nx.at - 1 = end
        BY <1>3, <2>11
      <4>2. LastIsKnown(st.known, st.validated)
        BY DEF LoopInv
      <4>3. QED
        BY <2>7, <2>10, <2>11, <4>1, <4>2
    <3>3. /\ nx.alarms \subseteq {"parse"}
          /\ nx.alarms # {} => hi % 4 # 0 \/ \E r \in reads : r.last % 4 # 0
      BY <2>8, <2>11, <2>12
    <3>4. QED
      BY <2>9, <2>10, <2>11, <2>12, <3>1, <3>2, <3>3 DEF LoopInv
  <2>14. QED
    BY <2>2, <2>5, <2>11, <2>13
<1>9. QED
  BY <1>6, <1>7, <1>8

-----------------------------------------------------------------------------
(* The loop of process_response *)

Beginning(lo) == [at |-> lo, known |-> known, alarms |-> alarms, validated |-> validated]

\* f is the loop's state after each of n turns.
Turns(f, n, lo, hi) == f = [i \in 0..n |-> IF i = 0 THEN Beginning(lo) ELSE Turn(f[i - 1], hi)]

LEMMA TurnsExist ==
    ASSUME NEW n \in Nat, NEW lo, NEW hi
    PROVE  \E f : Turns(f, n, lo, hi)
<1> DEFINE T == {m \in Nat : \E f : Turns(f, m, lo, hi)}
<1>1. 0 \in T
  <2>1. Turns([i \in 0..0 |-> Beginning(lo)], 0, lo, hi)
    BY DEF Turns
  <2>2. QED
    BY <2>1
<1>2. ASSUME NEW m \in Nat, m \in T PROVE m + 1 \in T
  <2>1. PICK f : Turns(f, m, lo, hi)
    BY <1>2
  <2> DEFINE g == [i \in 0 .. m + 1 |-> IF i <= m THEN f[i] ELSE Turn(f[m], hi)]
             h == [i \in 0 .. m + 1 |-> IF i = 0 THEN Beginning(lo) ELSE Turn(g[i - 1], hi)]
  <2>2. ASSUME NEW i \in 0 .. m + 1 PROVE g[i] = h[i]
    <3>1. CASE i = 0
      BY <2>1, <3>1 DEF Turns
    <3>2. CASE i # 0 /\ i <= m
      <4>1. i \in 0..m /\ i - 1 \in 0 .. m + 1 /\ i - 1 <= m
        BY <3>2
      <4>2. f[i] = Turn(f[i - 1], hi)
        BY <2>1, <3>2, <4>1 DEF Turns
      <4>3. QED
        BY <3>2, <4>1, <4>2
    <3>3. CASE i # 0 /\ ~(i <= m)
      <4>1. i - 1 = m /\ m \in 0 .. m + 1
        BY <3>3
      <4>2. g[i - 1] = f[m]
        BY <4>1
      <4>3. QED
        BY <3>3, <4>2
    <3>4. QED
      BY <3>1, <3>2, <3>3
  <2>3. g = h
    BY <2>2
  <2>4. Turns(g, m + 1, lo, hi)
    BY <2>3 DEF Turns
  <2>5. QED
    BY <2>4
<1> HIDE DEF T
<1>3. n \in T
  BY <1>1, <1>2, NatSetInduction
<1>4. QED
  BY <1>3 DEF T

\* After each turn the loop has gone on or has come to its end.
LEMMA TurnsKeepInv ==
    ASSUME TypeOK, NumbersRise, NEW hi \in Nat, hi <= 4 * Len(said), NEW lo \in Nat \ {0},
           LoopInv(Beginning(lo), lo, hi), NEW n \in Nat, NEW f, Turns(f, n, lo, hi)
    PROVE  LoopInv(f[n], lo, hi) /\ (lo + n <= f[n].at \/ ~IsKeyword(f[n].at, hi))
<1> DEFINE Done(i) == LoopInv(f[i], lo, hi) /\ (lo + i <= f[i].at \/ ~IsKeyword(f[i].at, hi))
           T == {i \in Nat : i <= n => Done(i)}
<1>1. 0 \in T
  <2>1. 0 \in 0..n /\ f[0] = Beginning(lo)
    BY DEF Turns
  <2>2. LoopInv(f[0], lo, hi)
    BY <2>1
  <2>3. lo + 0 <= f[0].at
    BY <2>1 DEF Beginning
  <2>4. QED
    BY <2>2, <2>3
<1>2. ASSUME NEW i \in Nat, i \in T PROVE i + 1 \in T
  <2> SUFFICES ASSUME i + 1 <= n PROVE Done(i + 1)
    OBVIOUS
  <2>1. i <= n /\ i + 1 \in 0..n /\ i + 1 # 0 /\ i + 1 - 1 = i
    OBVIOUS
  <2>2. Done(i)
    BY <1>2, <2>1
  <2>3. f[i + 1] = Turn(f[i], hi)
    BY <2>1 DEF Turns
  <2>4. CASE IsKeyword(f[i].at, hi)
    <3>1. LoopInv(f[i + 1], lo, hi) /\ f[i].at + 1 <= f[i + 1].at /\ lo + i <= f[i].at
      BY <2>2, <2>3, <2>4, TurnKeepsInv
    <3>2. f[i].at \in Nat /\ f[i + 1].at \in Nat
      BY <2>2, <3>1 DEF LoopInv, LoopStates
    <3>3. QED
      BY <3>1, <3>2
  <2>5. CASE ~IsKeyword(f[i].at, hi)
    <3>1. f[i + 1] = f[i]
      BY <2>3, <2>5 DEF Turn
    <3>2. QED
      BY <2>2, <2>5, <3>1
  <2>6. QED
    BY <2>4, <2>5
<1> HIDE DEF T
<1>3. n \in T
  BY <1>1, <1>2, NatSetInduction
<1>4. QED
  BY <1>3 DEF T

\* The loop ends where there is no keyword.
LEMMA LoopEnds ==
    ASSUME TypeOK, NumbersRise, NEW hi \in Nat, hi <= 4 * Len(said), NEW lo \in Nat \ {0}, lo <= hi + 1,
           LoopInv(Beginning(lo), lo, hi), ProcessResponse(lo, hi)
    PROVE  \E st : /\ LoopInv(st, lo, hi) /\ ~IsKeyword(st.at, hi)
                   /\ known' = st.known /\ alarms' = st.alarms /\ validated' = st.validated
<1> DEFINE n == hi + 1 - lo
           f == CHOOSE f : f = [i \in 0 .. n |-> IF i = 0 THEN Beginning(lo) ELSE Turn(f[i - 1], hi)]
<1>1. n \in Nat
  OBVIOUS
<1>2. Turns(f, n, lo, hi)
  BY <1>1, TurnsExist DEF Turns
<1>3. known' = f[n].known /\ alarms' = f[n].alarms /\ validated' = f[n].validated
  BY DEF ProcessResponse, Beginning
<1> HIDE DEF f
<1>4. LoopInv(f[n], lo, hi) /\ (lo + n <= f[n].at \/ ~IsKeyword(f[n].at, hi))
  BY <1>1, <1>2, TurnsKeepInv
<1>5. ~IsKeyword(f[n].at, hi)
  <2>1. f[n].at \in Nat
    BY <1>4 DEF LoopInv, LoopStates
  <2>2. CASE lo + n <= f[n].at
    BY <2>1, <2>2 DEF IsKeyword
  <2>3. QED
    BY <1>4, <2>2
<1>6. QED
  BY <1>3, <1>4, <1>5

-----------------------------------------------------------------------------
(* The steps *)

LEMMA InitHolds == Init => IInv
<1> SUFFICES ASSUME Init PROVE IInv
  OBVIOUS
<1>1. Len(said) = 0 /\ Len(validated) = 0 /\ said \in Seq(Messages) /\ validated \in Seq(1..Len(said)) /\ requests \in Seq(1..MaxSeq)
  BY EmptySeq DEF Init
<1>2. TypeOK
  <2>1. seq \in 0..MaxSeq /\ taken \in 0 .. 4 * Len(said)
    BY <1>1, ClientAssumption DEF Init
  <2>2. known \in [Others -> 1..MaxNum \cup {None}] /\ \A r \in reads : r.first <= r.last /\ r.last <= taken
    BY DEF Init
  <2>3. QED
    BY <1>1, <2>1, <2>2 DEF Init, TypeOK
<1>3. Numbers /\ NumbersRise /\ Rises(validated) /\ Behind(validated, taken)
  BY <1>1 DEF Init, Numbers, NumbersRise, Rises, Behind
<1>4. LastIsKnown(known, validated) /\ FalseAlarmsComeFromCuts
  BY <1>1 DEF Init, LastIsKnown, FalseAlarmsComeFromCuts
<1>5. SkippedForAReason
  <2>1. ~\E m \in 1 .. 0 \div 4 : TRUE
    OBVIOUS
  <2>2. QED
    BY <2>1 DEF Init, SkippedForAReason
<1>6. QED
  BY <1>2, <1>3, <1>4, <1>5 DEF IInv

\* What the server says is new: its number is above the known ones of its client.
LEMMA SayKeepsInv ==
    ASSUME IInv, NEW kind, NEW id, NEW num, Say(kind, id, num), requests' \in Seq(1..MaxSeq),
           [kind |-> kind, id |-> id, num |-> num] \in Messages,
           id \in Others => \A i \in 1..Len(said) : said[i].id = id => said[i].num < num
    PROVE  IInv'
<1> DEFINE m == [kind |-> kind, id |-> id, num |-> num]
<1>1. said' = Append(said, m) /\ UNCHANGED <<callerVars, sender, seq, conn, receiverVars>>
  BY DEF Say
<1>2. TypeOK /\ said \in Seq(Messages) /\ Len(said) \in Nat /\ m \in Messages
  BY LenProperties DEF IInv, TypeOK
<1>3. /\ said' \in Seq(Messages) /\ Len(said') = Len(said) + 1
      /\ \A i \in 1..Len(said) : said'[i] = said[i]
      /\ said'[Len(said) + 1] = m
  BY <1>1, <1>2, AddLast
<1>4. m.id = id /\ m.num = num
  OBVIOUS
<1> HIDE DEF m
<1>5. TypeOK'
  <2>1. validated' \in Seq(1..Len(said'))
    <3>1. 1..Len(said) \subseteq 1..Len(said')
      BY <1>2, <1>3
    <3>2. validated \in Seq(1..Len(said)) /\ validated' = validated
      BY <1>1, <1>2 DEF TypeOK, receiverVars
    <3>3. QED
      BY <3>1, <3>2, SeqMonotonic
  <2>2. taken' \in 0 .. 4 * Len(said')
    BY <1>1, <1>2, <1>3 DEF TypeOK, receiverVars
  <2>3. QED
    BY <1>1, <1>2, <1>3, <2>1, <2>2 DEF TypeOK, callerVars, receiverVars
<1>6. Numbers'
  BY <1>1 DEF IInv, Numbers, receiverVars
<1>7. NumbersRise'
  <2> SUFFICES ASSUME NEW i \in 1..Len(said'), NEW j \in 1..Len(said'), i < j, said'[i].id = said'[j].id, said'[i].id \in Others
               PROVE  said'[i].num < said'[j].num
    BY DEF NumbersRise
  <2>1. i \in 1..Len(said) /\ said'[i] = said[i]
    BY <1>2, <1>3
  <2>2. CASE j \in 1..Len(said)
    BY <1>3, <2>1, <2>2 DEF IInv, NumbersRise
  <2>3. CASE j = Len(said) + 1
    BY <1>3, <1>4, <2>1, <2>3
  <2>4. j \in 1..Len(said) \/ j = Len(said) + 1
    <3>1. j \in 1..Len(said) + 1
      BY <1>3
    <3>2. QED
      BY <1>2, <3>1, UpToNext
  <2>5. QED
    BY <2>2, <2>3, <2>4
<1>8. \A i \in 1..Len(validated) : validated[i] \in 1..Len(said) /\ said'[validated[i]] = said[validated[i]]
  BY <1>2, <1>3, ElementOfSeq DEF TypeOK
<1>9. Rises(validated)' /\ Behind(validated, taken)'
  BY <1>1 DEF IInv, Rises, Behind, receiverVars
<1>10. LastIsKnown(known, validated)'
  <2>1. LastIsKnown(known, validated)
    BY DEF IInv
  <2>2. known' = known /\ validated' = validated
    BY <1>1 DEF receiverVars
  <2>3. QED
    <3>1. \A i \in 1..Len(validated) : said'[validated[i]] = said[validated[i]]
      BY <1>8
    <3> SUFFICES ASSUME NEW c \in Others
                 PROVE  \/ known[c] = None /\ \A i \in 1..Len(validated) : said'[validated[i]].id # c
                        \/ \E j \in 1..Len(validated) :
                            /\ said'[validated[j]].id = c /\ known[c] = said'[validated[j]].num
                            /\ \A i \in 1..Len(validated) : said'[validated[i]].id = c => i <= j
      BY <2>2 DEF LastIsKnown
    <3>2. \/ known[c] = None /\ \A i \in 1..Len(validated) : said[validated[i]].id # c
          \/ \E j \in 1..Len(validated) :
              /\ said[validated[j]].id = c /\ known[c] = said[validated[j]].num
              /\ \A i \in 1..Len(validated) : said[validated[i]].id = c => i <= j
      BY <2>1 DEF LastIsKnown
    <3>3. QED
      BY <3>1, <3>2
<1>11. FalseAlarmsComeFromCuts'
  BY <1>1 DEF IInv, FalseAlarmsComeFromCuts, receiverVars
<1>12. SkippedForAReason'
  <2>1. SkippedForAReason /\ validated' = validated /\ reads' = reads /\ taken' = taken
    BY <1>1 DEF IInv, receiverVars
  <2>2. taken \in Nat /\ taken <= 4 * Len(said)
    BY <1>2 DEF TypeOK
  <2>3. \A m1 \in 1 .. taken \div 4 : m1 \in 1..Len(said)
    BY <1>2, <2>2
  <2>4. \A r \in reads : r.first \in Nat \ {0}
    BY DEF IInv, Numbers
  <2>5. \A m1 \in 1 .. taken \div 4 : \A r \in reads :
            r.first <= 4 * m1 - 7 => said'[m1 - 1] = said[m1 - 1] /\ said'[m1] = said[m1]
    <3> SUFFICES ASSUME NEW m1 \in 1 .. taken \div 4, NEW r \in reads, r.first <= 4 * m1 - 7
                 PROVE  m1 - 1 \in 1..Len(said) /\ m1 \in 1..Len(said)
      BY <1>3
    <3>1. m1 \in 1..Len(said) /\ r.first \in Nat \ {0}
      BY <2>3, <2>4
    <3>2. m1 - 1 \in 1..Len(said)
      BY <1>2, <3>1
    <3>3. QED
      BY <3>1, <3>2
  <2>6. QED
    BY <2>1, <2>5 DEF SkippedForAReason
<1>13. QED
  BY <1>5, <1>6, <1>7, <1>9, <1>10, <1>11, <1>12 DEF IInv

\* What a read returned is processed up to its end.
LEMMA ReadKeepsInv ==
    ASSUME IInv, NEW n \in Nat \ {0}, ReceiverReads(n)
    PROVE  IInv'
<1> DEFINE lo == taken + 1
           hi == taken + n
<1>1. /\ TypeOK /\ NumbersRise /\ Numbers /\ Rises(validated) /\ Behind(validated, taken) /\ LastIsKnown(known, validated)
      /\ FalseAlarmsComeFromCuts /\ SkippedForAReason
  BY DEF IInv
<1>2. /\ taken \in Nat /\ taken <= 4 * Len(said) /\ Len(said) \in Nat
      /\ known \in [Others -> 1..MaxNum \cup {None}] /\ alarms \in SUBSET {"parse", "id", "old"}
      /\ validated \in Seq(1..Len(said))
  BY <1>1, LenProperties DEF TypeOK
<1>3. hi \in Nat /\ lo \in Nat \ {0} /\ hi <= 4 * Len(said) /\ lo <= hi /\ lo <= hi + 1 /\ lo - 1 = taken
  BY <1>2 DEF ReceiverReads, Waiting
<1>4. /\ ProcessResponse(lo, hi) /\ taken' = hi /\ reads' = reads \cup {[first |-> lo, last |-> hi]}
      /\ receiver' = "check" /\ UNCHANGED <<callerVars, sender, seq, serverVars>>
  BY DEF ReceiverReads, ReceiverStep
<1>5. /\ said' = said /\ caller' = caller /\ running' = running /\ sender' = sender /\ seq' = seq
      /\ conn' = conn /\ requests' = requests
  BY <1>4 DEF callerVars, serverVars
<1> HIDE DEF lo, hi
<1>6. LoopInv(Beginning(lo), lo, hi)
  <2> DEFINE st == Beginning(lo)
  <2>1. st.at = lo /\ st.known = known /\ st.alarms = alarms /\ st.validated = validated
    BY DEF Beginning
  <2>2. st \in LoopStates
    BY <1>2, <1>3 DEF Beginning, LoopStates
  <2> HIDE DEF st
  <2>3. ~\E m \in 1..Len(said) : lo <= 4 * m - 3 /\ 4 * m < lo
    BY <1>3
  <2>4. Behind(st.validated, st.at - 1)
    BY <1>1, <1>3, <2>1
  <2>5. Rises(st.validated) /\ LastIsKnown(st.known, st.validated)
    BY <1>1, <2>1
  <2>6. st.alarms \subseteq {"parse"} /\ (st.alarms # {} => \E r \in reads : r.last % 4 # 0)
    BY <1>1, <2>1 DEF FalseAlarmsComeFromCuts
  <2>7. QED
    BY <1>3, <2>1, <2>2, <2>3, <2>4, <2>5, <2>6 DEF LoopInv, st
<1>7. PICK st : /\ LoopInv(st, lo, hi) /\ ~IsKeyword(st.at, hi)
                /\ known' = st.known /\ alarms' = st.alarms /\ validated' = st.validated
  BY <1>1, <1>3, <1>4, <1>6, LoopEnds
<1>8. /\ st.at \in Nat \ {0} /\ st.at <= hi + 1 /\ st \in LoopStates
      /\ known' \in [Others -> 1..MaxNum \cup {None}] /\ alarms' \subseteq {"parse"}
      /\ validated' \in Seq(1..Len(said))
  BY <1>7 DEF LoopInv, LoopStates
<1>9. [first |-> lo, last |-> hi].first = lo /\ [first |-> lo, last |-> hi].last = hi
  OBVIOUS
<1> DEFINE r0 == [first |-> lo, last |-> hi]
<1>10. r0.first = lo /\ r0.last = hi /\ reads' = reads \cup {r0}
  BY <1>4
<1> HIDE DEF r0
<1>11. \A r \in reads : r.first \in Nat \ {0} /\ r.last \in Nat /\ r.first <= r.last /\ r.last <= taken
  BY <1>1 DEF Numbers, TypeOK
<1>12. taken <= hi
  BY <1>2, <1>3
<1>13. TypeOK'
  <2>1. \A r \in reads' : r.first <= r.last /\ r.last <= taken'
    <3>1. \A r \in reads : r.last <= hi
      BY <1>2, <1>3, <1>11, <1>12
    <3>2. r0.first <= r0.last /\ r0.last <= hi
      BY <1>3, <1>10
    <3>3. QED
      BY <1>4, <1>10, <1>11, <3>1, <3>2
  <2>2. taken' \in 0 .. 4 * Len(said)
    BY <1>2, <1>3, <1>4
  <2>3. QED
    BY <1>1, <1>4, <1>5, <1>8, <2>1, <2>2 DEF TypeOK
<1>14. Numbers'
  BY <1>1, <1>3, <1>5, <1>10, <1>11 DEF Numbers
<1>15. NumbersRise'
  BY <1>1, <1>5 DEF NumbersRise
<1>16. Rises(validated)' /\ LastIsKnown(known, validated)'
  BY <1>5, <1>7 DEF LoopInv, Rises, LastIsKnown
<1>17. Behind(validated, taken)'
  <2>1. Behind(st.validated, st.at - 1)
    BY <1>7 DEF LoopInv
  <2>2. \A i \in 1..Len(st.validated) : st.validated[i] \in Nat /\ 4 * st.validated[i] - 1 <= st.at - 1
    BY <1>7, <1>8, <2>1, ElementOfSeq DEF Behind
  <2>3. \A v, p \in Nat : 4 * v - 1 <= p - 1 /\ p <= hi + 1 => 4 * v - 1 <= hi
    BY <1>3
  <2>4. QED
    BY <1>4, <1>7, <1>8, <2>2, <2>3 DEF Behind
<1>18. FalseAlarmsComeFromCuts'
  <2>1. alarms' # {} => hi % 4 # 0 \/ \E r \in reads : r.last % 4 # 0
    BY <1>7 DEF LoopInv
  <2>2. QED
    BY <1>8, <1>10, <2>1 DEF FalseAlarmsComeFromCuts
<1>19. SkippedForAReason'
  <2> DEFINE Reason(r, m) == /\ r.first <= 4 * m /\ r.last > 4 * m - 4
                             /\ \/ r.first > 4 * m - 3 \/ r.last < 4 * m
                                \/ Part(r.first) # 1
                                \/ r.first <= 4 * m - 7 /\ said[m - 1].kind = said[m].kind
  <2> SUFFICES ASSUME NEW m \in 1 .. hi \div 4
               PROVE  Holds(validated', m) \/ \E r \in reads' : Reason(r, m)
    BY <1>4, <1>5 DEF SkippedForAReason, Holds
  <2>1. m \in Nat \ {0} /\ 4 * m <= hi /\ m \in 1..Len(said)
    BY <1>2, <1>3
  <2>2. CASE 4 * m <= taken
    <3>1. m \in 1 .. taken \div 4
      BY <1>2, <2>1, <2>2
    <3>2. Holds(validated, m) \/ \E r \in reads : Reason(r, m)
      BY <1>1, <3>1 DEF SkippedForAReason, Holds
    <3>3. Holds(validated, m) => Holds(validated', m)
      BY <1>7, <2>1 DEF LoopInv
    <3> HIDE DEF Reason
    <3>4. QED
      BY <1>10, <3>2, <3>3
  <2>3. CASE taken < 4 * m
    <3>1. lo <= 4 * m /\ hi > 4 * m - 4
      BY <1>2, <1>3, <2>1, <2>3 DEF lo
    <3>2. CASE lo > 4 * m - 3 \/ Part(lo) # 1
      <4>1. Reason(r0, m)
        BY <1>10, <3>1, <3>2
      <4>2. QED
        BY <1>10, <4>1
    <3>3. CASE lo <= 4 * m - 3 /\ Part(lo) = 1
      <4>1. st.at = hi + 1 \/ Part(st.at) = 1
        BY <1>7, <3>3 DEF LoopInv
      <4>2. 4 * m < st.at
        <5>1. CASE st.at = hi + 1
          BY <1>3, <2>1, <5>1
        <5>2. CASE Part(st.at) = 1 /\ st.at # hi + 1
          <6>1. st.at = hi
            <7>1. ~(st.at + 1 <= hi)
              BY <1>7, <5>2 DEF IsKeyword
            <7>2. \A p, h \in Nat : p <= h + 1 /\ p # h + 1 /\ ~(p + 1 <= h) => p = h
              OBVIOUS
            <7>3. QED
              BY <1>3, <1>8, <5>2, <7>1, <7>2
          <6>2. st.at = 4 * Place(st.at) - 3 /\ Place(st.at) \in Nat
            BY <1>8, <5>2, PlaceAndPart
          <6>3. QED
            BY <2>1, <6>1, <6>2
        <5>3. QED
          BY <4>1, <5>1, <5>2
      <4>3. Holds(st.validated, m) \/ Repeats(lo, m)
        BY <1>7, <2>1, <3>3, <4>2 DEF LoopInv
      <4>4. Repeats(lo, m) => Reason(r0, m)
        BY <1>10, <3>1 DEF Repeats
      <4> HIDE DEF Reason
      <4>5. QED
        BY <1>7, <1>10, <4>3, <4>4
    <3>4. QED
      BY <1>3, <2>1, <3>2, <3>3
  <2>4. QED
    BY <1>2, <2>1, <2>2, <2>3
<1>20. QED
  BY <1>13, <1>14, <1>15, <1>16, <1>17, <1>18, <1>19 DEF IInv

\* A step of the threads that neither says nor reads.
LEMMA OtherStepsKeepInv ==
    ASSUME IInv, TypeOK', UNCHANGED <<said, taken, known, alarms, validated, reads>>,
           sender' = "write" => seq' # 0
    PROVE  IInv'
<1>1. Numbers'
  BY DEF IInv, TypeOK, Numbers
<1>2. NumbersRise' /\ Rises(validated)' /\ Behind(validated, taken)' /\ LastIsKnown(known, validated)'
  BY DEF IInv, NumbersRise, Rises, Behind, LastIsKnown
<1>3. FalseAlarmsComeFromCuts' /\ SkippedForAReason'
  BY DEF IInv, FalseAlarmsComeFromCuts, SkippedForAReason
<1>4. QED
  BY <1>1, <1>2, <1>3 DEF IInv

LEMMA SenderTypes ==
    ASSUME IInv, SenderThread
    PROVE  /\ TypeOK' /\ (sender' = "write" => seq' # 0)
           /\ UNCHANGED <<said, taken, known, alarms, validated, reads>>
<1>1. /\ TypeOK /\ Numbers /\ seq \in 0..MaxSeq /\ requests \in Seq(1..MaxSeq) /\ MaxSeq \in Nat
  BY ClientAssumption DEF IInv, TypeOK
<1>2. /\ UNCHANGED <<callerVars, conn, said, receiverVars>>
      /\ sender' \in {"check", "write", "done"}
  BY DEF SenderThread, SenderChecks, SenderWrites, SenderFails, SenderStep
<1>3. seq' \in 0..MaxSeq
  BY <1>1 DEF SenderThread, SenderChecks, SenderWrites, SenderFails
<1>4. requests' \in Seq(1..MaxSeq)
  <2>1. CASE SenderChecks \/ SenderFails
    BY <1>1, <2>1 DEF SenderChecks, SenderFails
  <2>2. CASE SenderWrites
    <3>1. seq \in 1..MaxSeq
      BY <1>1, <2>2 DEF SenderWrites, SenderStep, Numbers
    <3>2. requests' = Append(requests, seq) \/ requests' = requests
      BY <2>2 DEF SenderWrites
    <3>3. QED
      BY <1>1, <3>1, <3>2, AddLast
  <2>3. QED
    BY <2>1, <2>2 DEF SenderThread
<1>5. sender' = "write" => seq' # 0
  BY <1>1 DEF SenderThread, SenderChecks, SenderWrites, SenderFails, SenderStep
<1>6. TypeOK'
  BY <1>1, <1>2, <1>3, <1>4 DEF TypeOK, callerVars, receiverVars
<1>7. QED
  BY <1>2, <1>5, <1>6 DEF receiverVars

LEMMA NextKeepsInv == IInv /\ [Next]_vars => IInv'
<1> SUFFICES ASSUME IInv, [Next]_vars PROVE IInv'
  OBVIOUS
<1>1. /\ TypeOK /\ Numbers /\ seq \in 0..MaxSeq /\ requests \in Seq(1..MaxSeq) /\ said \in Seq(Messages)
      /\ sender = "write" => seq # 0
  BY DEF IInv, TypeOK, Numbers
<1>2. CASE ServerEchoes
  <2>1. requests # <<>> /\ Say("echo", Self, Head(requests)) /\ requests' = Tail(requests)
    BY <1>2 DEF ServerEchoes
  <2>2. Head(requests) \in 1..MaxSeq /\ requests' \in Seq(1..MaxSeq)
    BY <1>1, <2>1, HeadTailProperties
  <2>3. [kind |-> "echo", id |-> Self, num |-> Head(requests)] \in Messages
    BY <2>2 DEF Messages
  <2>4. QED
    BY <2>1, <2>2, <2>3, ClientAssumption, SayKeepsInv
<1>3. ASSUME NEW c \in Others, NEW n \in 1..MaxNum, ServerNotifies(c, n) PROVE IInv'
  <2>1. /\ Say("notify", c, n) /\ requests' = requests
        /\ \A i \in 1..Len(said) : said[i].id = c => said[i].num < n
    BY <1>3 DEF ServerNotifies
  <2>2. [kind |-> "notify", id |-> c, num |-> n] \in Messages
    BY <1>3 DEF Messages
  <2>3. QED
    BY <1>1, <2>1, <2>2, SayKeepsInv
<1>4. CASE ServerCloses
  BY <1>1, <1>4, OtherStepsKeepInv DEF ServerCloses, TypeOK, callerVars, receiverVars
<1>5. CASE SenderThread
  BY <1>5, SenderTypes, OtherStepsKeepInv
<1>6. ASSUME NEW n \in 1..BufSize, ReceiverReads(n) PROVE IInv'
  BY <1>6, ReadKeepsInv
<1>7. CASE ReceiverChecks \/ ReceiverTimesOut \/ ReceiverSeesClose
  <2>1. /\ UNCHANGED <<callerVars, sender, seq, serverVars, taken, known, alarms, validated, reads>>
        /\ receiver' \in {"read", "check", "done"}
    BY <1>7 DEF ReceiverChecks, ReceiverTimesOut, ReceiverSeesClose, ReceiverStep
  <2>2. QED
    BY <1>1, <2>1, OtherStepsKeepInv DEF TypeOK, callerVars, serverVars
<1>8. CASE Start
  BY <1>1, <1>8, OtherStepsKeepInv DEF Start, TypeOK, serverVars
<1>9. CASE StopBegins
  BY <1>1, <1>9, OtherStepsKeepInv DEF StopBegins, TypeOK, serverVars, receiverVars
<1>10. CASE JoinSender
  BY <1>1, <1>10, OtherStepsKeepInv DEF JoinSender, TypeOK, serverVars, receiverVars
<1>11. CASE JoinReceiver
  BY <1>1, <1>11, OtherStepsKeepInv DEF JoinReceiver, TypeOK, receiverVars
<1>12. CASE UNCHANGED vars
  BY <1>1, <1>12, OtherStepsKeepInv DEF vars, TypeOK, callerVars, serverVars, receiverVars
<1>13. QED
  BY <1>2, <1>3, <1>4, <1>5, <1>6, <1>7, <1>8, <1>9, <1>10, <1>11, <1>12
     DEF Next, Server, ReceiverThread, Terminated

-----------------------------------------------------------------------------
(* The theorems *)

THEOREM Invariant == Spec => []IInv
BY InitHolds, NextKeepsInv, PTL DEF Spec

THEOREM TypeCorrect == Spec => []TypeOK
<1>1. IInv => TypeOK
  BY DEF IInv
<1>2. QED
  BY <1>1, Invariant, PTL

\* A server that says what is right causes no alarm for a wrong id or an old number, and
\* one for what does not parse only after a read that ends inside a message: whatever
\* messages the reads join and whatever the loop of process_response makes of them.
THEOREM FalseAlarmsAlwaysFromCuts == Spec => []FalseAlarmsComeFromCuts
<1>1. IInv => FalseAlarmsComeFromCuts
  BY DEF IInv
<1>2. QED
  BY <1>1, Invariant, PTL

LEMMA InvValidatesInOrder == IInv => ValidatedInOrder
<1> SUFFICES ASSUME IInv PROVE ValidatedInOrder
  OBVIOUS
<1>1. \A i, j \in 1..Len(validated) : i < j => validated[i] < validated[j]
  BY DEF IInv, Rises
<1>2. ASSUME NEW c \in Others
      PROVE  LET ofC == {i \in 1..Len(validated) : said[validated[i]].id = c}
             IN known[c] = IF ofC = {} THEN None ELSE said[validated[Max(ofC)]].num
  <2> DEFINE ofC == {i \in 1..Len(validated) : said[validated[i]].id = c}
  <2>1. CASE known[c] = None /\ \A i \in 1..Len(validated) : said[validated[i]].id # c
    BY <2>1
  <2>2. CASE \E j \in 1..Len(validated) :
              /\ said[validated[j]].id = c /\ known[c] = said[validated[j]].num
              /\ \A i \in 1..Len(validated) : said[validated[i]].id = c => i <= j
    <3>1. PICK j \in 1..Len(validated) :
              /\ said[validated[j]].id = c /\ known[c] = said[validated[j]].num
              /\ \A i \in 1..Len(validated) : said[validated[i]].id = c => i <= j
      BY <2>2
    <3>2. j \in ofC /\ ofC \in SUBSET Nat /\ \A i \in ofC : i <= j
      BY <3>1
    <3> HIDE DEF ofC
    <3>3. Max(ofC) = j
      BY <3>2, MaxOfSet
    <3>4. QED
      BY <3>1, <3>2, <3>3 DEF ofC
  <2>3. QED
    BY <2>1, <2>2 DEF IInv, LastIsKnown
<1>3. QED
  BY <1>1, <1>2 DEF ValidatedInOrder

\* The validated messages are logged in the order of the stream, none twice, and
\* client_sequence_numbers_ is always the last number validated of each client.
THEOREM AlwaysValidatedInOrder == Spec => []ValidatedInOrder
BY Invariant, InvValidatesInOrder, PTL

\* What was read and not validated was cut by a read, or stood behind a remainder or a
\* message of its own kind in one read: nothing else escapes the client.
THEOREM AlwaysSkippedForAReason == Spec => []SkippedForAReason
<1>1. IInv => SkippedForAReason
  BY DEF IInv
<1>2. QED
  BY <1>1, Invariant, PTL

=============================================================================
