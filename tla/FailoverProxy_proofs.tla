------------------------- MODULE FailoverProxy_proofs ------------------------
(***************************************************************************)
(* FailoverProxy keeps its promises for every number of calls, restarts    *)
(* and faults and every queue that takes a handshake: each request has one *)
(* fate, a server hears the handshake before any call, and a server that   *)
(* works is neither replaced nor killed.                                   *)
(*                                                                         *)
(* None of these is inductive.  That a request is relayed once needs that  *)
(* the current server has it once among its lines and is still waited for  *)
(* (Unique, Expected), and that no older server is listened to.  That a    *)
(* call comes after the handshake needs that the current server has read   *)
(* it or will (Greeted), which a failover has to restore from what the     *)
(* client has sent (Protocol) although a full queue may cut the lines.     *)
(* That the watchdog's late kill finds a remote server, and that there is  *)
(* a generation for every restart, needs the count of the generations      *)
(* (Counted, Servers).                                                     *)
(***************************************************************************)
EXTENDS FailoverProxy, FiniteSetTheorems, TLAPS


\* Generations only count up, by two at most for each restart, ...
Counted ==
    /\ mode = "none" => gen = 0 /\ restarts = 0 /\ sent = {} /\ ~closing
    /\ mode = "remote" => gen = 1 /\ restarts = 0
    /\ mode = "local" => gen \in 1 .. 3 + 2 * restarts
    /\ mode = "dead" => gen \in 1 .. 4 + 2 * restarts
    /\ current = IF mode \in {"remote", "local"} THEN gen ELSE 0
    /\ discard <= gen /\ victim <= gen

\* ... and a server has the kind that the proxy had when it was started; after
\* the last one there is none to be lost.
Servers ==
    /\ \A g \in Gens : g > gen => server[g] = Absent
    /\ current # 0 => server[current].kind = mode
    /\ victim # 0 => server[victim].kind = "remote"
    /\ mode = "dead" => server[gen].reader \in {"none", "done"}

\* The client follows the protocol, and the proxy remembers its handshake.
Protocol ==
    /\ handshake = sent \ Calls
    /\ sent \cap Calls # {} => "initialized" \in sent
    /\ "initialized" \in sent => answers["initialize"] > 0

\* The lines on the way to or from a server.
On(g) == {server[g].in[i] : i \in DOMAIN server[g].in}
            \cup {server[g].out[i] : i \in DOMAIN server[g].out}

Distinct(s) == \A i, j \in DOMAIN s : s[i] = s[j] => i = j

\* No server has a line twice; what the current one has to answer is waited for,
\* and it has, or will have, read the handshake.
Unique(g) ==
    /\ Distinct(server[g].in) /\ Distinct(server[g].out)
    /\ \A i \in DOMAIN server[g].in, j \in DOMAIN server[g].out :
          server[g].in[i] # server[g].out[j]

Expected(g) ==
    /\ On(g) \cap Ids \subseteq pending
    /\ "initialized" \in On(g) => "initialized" \in sent
    /\ "replay" \in On(g) => replaying

ToRead(g) == server[g].shook \cup {server[g].in[i] : i \in DOMAIN server[g].in}

Greeted(g) ==
    /\ "initialize" \in handshake => ToRead(g) \cap {"initialize", "replay"} # {}
    /\ "initialized" \in handshake => "initialized" \in ToRead(g)

Speaking == current # 0 /\ server[current].reader = "reading" =>
    Unique(current) /\ Expected(current) /\ Greeted(current)

\* HandshakeFirst and OneFate, by server and by request.
First(g) ==
    /\ server[g].relay # "replay"
    /\ \A i \in DOMAIN server[g].in :
          /\ server[g].in[i] \in Calls => "initialized" \in ReadBefore(g, i)
          /\ server[g].in[i] = "initialized" =>
                ReadBefore(g, i) \cap {"initialize", "replay"} # {}

Relays(q) == {g \in Gens : server[g].relay = q}

Fate(q) ==
    (IF q \in pending THEN 1 ELSE 0) + Cardinality(Relays(q)) + answers[q]
        + (IF q \in lost THEN 1 ELSE 0) = IF q \in sent THEN 1 ELSE 0

IInv ==
    /\ TypeOK /\ Counted /\ Servers /\ Protocol /\ Speaking
    /\ \A q \in Ids : Fate(q)
    /\ \A g \in Gens : First(g)
-----------------------------------------------------------------------------
LEMMA Constants ==
  /\ "initialize" \notin Calls /\ "initialized" \notin Calls
  /\ "replay" \notin Calls /\ "nothing" \notin Calls
  /\ MaxLocalRestarts \in Nat /\ MaxFaults \in Nat
  /\ QueueLimit \in Nat /\ QueueLimit >= 2
BY ProxyConstants

LEMMA Generation ==
  /\ Gens \subseteq Nat /\ 0 \notin Gens
  /\ \A g \in Nat : g \in Gens <=> g >= 1 /\ g <= 2 * MaxLocalRestarts + 4
BY Constants DEF Gens

LEMMA FiniteGens == IsFiniteSet(Gens)
<1>1. 1 \in Int /\ 2 * MaxLocalRestarts + 4 \in Int
  BY Constants
<1> QED
  BY <1>1, FS_Interval DEF Gens

LEMMA FiniteIds == IsFiniteSet(Ids)
BY ProxyConstants, FS_AddElement DEF Ids

LEMMA NoSuchId == /\ "replay" \notin Ids /\ "nothing" \notin Ids /\ "initialized" \notin Ids
                  /\ "initialize" \in Ids /\ Calls \subseteq Ids
                  /\ Lines = Ids \cup {"initialized"}
BY Constants DEF Ids, Lines

\* The safety properties by server and by request.
LEMMA Parts ==
  /\ OneFate <=> \A q \in Ids : Fate(q)
  /\ HandshakeFirst <=> \A g \in Gens : First(g)
BY DEF OneFate, Fate, Relays, HandshakeFirst, First

LEMMA RelaysFinite ==
  \A q : IsFiniteSet(Relays(q)) /\ Cardinality(Relays(q)) \in Nat
<1> SUFFICES ASSUME NEW q PROVE IsFiniteSet(Relays(q)) /\ Cardinality(Relays(q)) \in Nat
  OBVIOUS
<1>1. Relays(q) \in SUBSET Gens
  BY DEF Relays
<1> QED
  BY <1>1, FiniteGens, FS_Subset, FS_CardinalityType

\* How many answers are on the way, as readers take and pass them on.
LEMMA RelaysStay ==
  ASSUME \A g \in Gens : server'[g].relay = server[g].relay
  PROVE  \A q : Cardinality(Relays(q)') = Cardinality(Relays(q))
<1>1. \A q : Relays(q)' = Relays(q)
  BY DEF Relays
<1> QED
  BY <1>1

LEMMA RelaysLose ==
  ASSUME NEW g \in Gens, server[g].relay # "nothing", server'[g].relay = "nothing",
         \A h \in Gens \ {g} : server'[h].relay = server[h].relay
  PROVE  \A q \in Ids : Cardinality(Relays(q)') =
            Cardinality(Relays(q)) - IF q = server[g].relay THEN 1 ELSE 0
<1> SUFFICES ASSUME NEW q \in Ids
             PROVE  Cardinality(Relays(q)') =
                       Cardinality(Relays(q)) - IF q = server[g].relay THEN 1 ELSE 0
  OBVIOUS
<1>1. IsFiniteSet(Relays(q)) /\ Cardinality(Relays(q)) \in Nat
  BY RelaysFinite
<1>2. CASE q = server[g].relay
  <2>1. Relays(q)' = Relays(q) \ {g} /\ g \in Relays(q)
    BY <1>2, NoSuchId DEF Relays
  <2> QED
    BY <1>1, <1>2, <2>1, FS_RemoveElement
<1>3. CASE q # server[g].relay
  <2>1. Relays(q)' = Relays(q)
    BY <1>3, NoSuchId DEF Relays
  <2> QED
    BY <1>1, <1>3, <2>1
<1> QED
  BY <1>2, <1>3

LEMMA RelaysGain ==
  ASSUME NEW g \in Gens, server[g].relay = "nothing", server'[g].relay # "nothing",
         \A h \in Gens \ {g} : server'[h].relay = server[h].relay
  PROVE  \A q \in Ids : Cardinality(Relays(q)') =
            Cardinality(Relays(q)) + IF q = server'[g].relay THEN 1 ELSE 0
<1> SUFFICES ASSUME NEW q \in Ids
             PROVE  Cardinality(Relays(q)') =
                       Cardinality(Relays(q)) + IF q = server'[g].relay THEN 1 ELSE 0
  OBVIOUS
<1>1. IsFiniteSet(Relays(q)) /\ Cardinality(Relays(q)) \in Nat
  BY RelaysFinite
<1>2. CASE q = server'[g].relay
  <2>1. Relays(q)' = Relays(q) \cup {g} /\ g \notin Relays(q)
    BY <1>2, NoSuchId DEF Relays
  <2> QED
    BY <1>1, <1>2, <2>1, FS_AddElement
<1>3. CASE q # server'[g].relay
  <2>1. Relays(q)' = Relays(q)
    BY <1>3, NoSuchId DEF Relays
  <2> QED
    BY <1>1, <1>3, <2>1
<1> QED
  BY <1>2, <1>3

\* A tally that does not change, or changes in two places at once.
LEMMA FateStays ==
  ASSUME NEW q \in Ids, Fate(q), Cardinality(Relays(q)') = Cardinality(Relays(q)),
         answers'[q] = answers[q], q \in pending' <=> q \in pending,
         q \in lost' <=> q \in lost, q \in sent' <=> q \in sent
  PROVE  Fate(q)'
BY DEF Fate
-----------------------------------------------------------------------------
\* What may happen to one server without the proxy's doing: it, its reader or
\* its lines change, and neither who is current nor what is waited for.
Alone(g) ==
    /\ UNCHANGED <<mode, gen, current, restarts, pending, replaying, handshake, client>>
    /\ server' \in [Gens -> ServerType]
    /\ \A h \in Gens \ {g} : server'[h] = server[h]
    /\ server'[g].kind = server[g].kind /\ server'[g].relay = server[g].relay
    /\ server'[g].reader = "reading" => server[g].reader = "reading"
    /\ closing' \in BOOLEAN /\ faults' \in 0 .. MaxFaults
    /\ discard' \in Gens \cup {0} /\ victim' \in Gens \cup {0}
    /\ mode = "none" => ~closing'
    /\ discard' \in {0, discard} /\ victim' \in {0, victim}

LEMMA AloneStep ==
  ASSUME IInv, NEW g \in Gens, g <= gen, Alone(g),
         mode = "dead" => server'[gen].reader \in {"none", "done"},
         Unique(g) /\ Expected(g) /\ Greeted(g) =>
            Unique(g)' /\ Expected(g)' /\ Greeted(g)',
         First(g)'
  PROVE  IInv'
<1>1. TypeOK'
  BY DEF IInv, TypeOK, Alone, client
<1>2. Counted'
  <2>1. discard \in Nat /\ victim \in Nat /\ gen \in Nat
    BY Generation DEF IInv, TypeOK
  <2> QED
    BY <2>1 DEF IInv, Counted, Alone, client
<1>3. Servers'
  <2>1. \A h \in Gens : h > gen => h # g
    BY Generation DEF IInv, TypeOK
  <2>2. \A h \in Gens : server'[h].kind = server[h].kind
    BY DEF Alone
  <2>3. current \in Gens \cup {0} /\ victim \in Gens \cup {0}
    BY DEF IInv, TypeOK
  <2> QED
    BY <2>1, <2>2, <2>3 DEF IInv, Servers, Alone
<1>4. Protocol'
  BY DEF IInv, Protocol, Alone, client
<1>5. Speaking'
  <2>1. CASE current = g
    BY <2>1 DEF IInv, Speaking, Alone
  <2>2. CASE current # g
    <3>1. current # 0 => server'[current] = server[current]
      BY <2>2 DEF IInv, TypeOK, Alone
    <3> QED
      BY <3>1 DEF IInv, Speaking, Alone, Unique, Expected, Greeted, On, ToRead, client
  <2> QED
    BY <2>1, <2>2
<1>6. \A q \in Ids : Fate(q)'
  <2>1. \A h \in Gens : server'[h].relay = server[h].relay
    BY DEF Alone
  <2> QED
    BY <2>1, RelaysStay, FateStays DEF IInv, Alone, client
<1>7. \A h \in Gens : First(h)'
  BY DEF IInv, First, ReadBefore, Alone
<1> QED
  BY <1>1, <1>2, <1>3, <1>4, <1>5, <1>6, <1>7 DEF IInv

\* Its lines stay as they are; the reader may stop.
LEMMA SameLinesStep ==
  ASSUME IInv, NEW g \in Gens, g <= gen, Alone(g),
         server'[g].in = server[g].in, server'[g].out = server[g].out,
         server'[g].shook = server[g].shook,
         \/ server'[g].reader = server[g].reader
         \/ server[g].reader = "reading" /\ server'[g].reader = "stopped"
  PROVE  IInv'
<1>1. mode = "dead" => server'[gen].reader \in {"none", "done"}
  <2>1. mode = "dead" => gen \in Gens /\ server[gen].reader \in {"none", "done"}
    BY DEF IInv, TypeOK, Counted, Servers
  <2> QED
    BY <2>1 DEF Alone
<1>2. Unique(g) /\ Expected(g) /\ Greeted(g) =>
         Unique(g)' /\ Expected(g)' /\ Greeted(g)'
  BY DEF Unique, Expected, Greeted, On, ToRead, Alone, client
<1>3. First(g)'
  BY DEF IInv, First, ReadBefore, Alone
<1> QED
  BY <1>1, <1>2, <1>3, AloneStep

LEMMA StartedBefore ==
  ASSUME IInv, NEW g \in Gens, server[g].up \/ server[g].reader = "reading"
  PROVE  g <= gen
<1>1. server[g] # Absent
  BY DEF Absent
<1>2. gen \in Nat /\ g \in Nat
  BY Generation DEF IInv, TypeOK
<1> QED
  BY <1>1, <1>2 DEF IInv, Servers

LEMMA FaultsTyped ==
  ASSUME IInv, Fault
  PROVE  faults' \in 0 .. MaxFaults
BY Constants DEF IInv, TypeOK, Fault

\* Shut, as a function of one server.
LEMMA ShutTyped ==
  ASSUME IInv, NEW g \in Gens
  PROVE  /\ Shut(g) \in [Gens -> ServerType]
         /\ \A h \in Gens \ {g} : Shut(g)[h] = server[h]
         /\ Shut(g)[g].kind = server[g].kind /\ Shut(g)[g].relay = server[g].relay
         /\ Shut(g)[g].in = server[g].in /\ Shut(g)[g].out = server[g].out
         /\ Shut(g)[g].shook = server[g].shook
         /\ \/ Shut(g)[g].reader = server[g].reader /\ server[g].reader # "reading"
            \/ server[g].reader = "reading" /\ Shut(g)[g].reader = "stopped"
<1>1. server \in [Gens -> ServerType] /\ server[g] \in ServerType
  BY DEF IInv, TypeOK
<1>2. "stopped" \in Readers
  BY DEF Readers
<1>3. CASE server[g].reader = "reading"
  <2>1. Shut(g) = [server EXCEPT ![g] =
           [server[g] EXCEPT !.up = FALSE, !.reader = "stopped"]]
    BY <1>1, <1>3 DEF Shut, ServerType
  <2>2. [server[g] EXCEPT !.up = FALSE, !.reader = "stopped"] \in ServerType
    BY <1>1, <1>2 DEF ServerType
  <2> QED
    BY <1>1, <1>3, <2>1, <2>2 DEF ServerType
<1>4. CASE server[g].reader # "reading"
  <2> DEFINE x == [server[g] EXCEPT !.up = FALSE]
  <2>1. Shut(g) = [server EXCEPT ![g] = x]
    BY <1>1, <1>4 DEF Shut, ServerType
  <2>2. x \in ServerType
    BY <1>1 DEF ServerType
  <2>3. /\ x.in = server[g].in /\ x.out = server[g].out
        /\ x.shook = server[g].shook /\ x.reader = server[g].reader
        /\ x.kind = server[g].kind /\ x.relay = server[g].relay
    BY <1>1 DEF ServerType
  <2> HIDE DEF x
  <2> QED
    BY <1>1, <1>4, <2>1, <2>2, <2>3
<1> QED
  BY <1>3, <1>4

LEMMA DiesStep ==
  ASSUME IInv, NEW g \in Gens, Dies(g) \/ Hangs(g)
  PROVE  IInv'
<1>1. server \in [Gens -> ServerType] /\ server[g] \in ServerType
  BY DEF IInv, TypeOK
<1>2. PICK x \in {[server[g] EXCEPT !.up = FALSE], [server[g] EXCEPT !.hung = TRUE]} :
         server' = [server EXCEPT ![g] = x]
  BY <1>1 DEF Dies, Hangs
<1>3. x \in ServerType /\ x.in = server[g].in /\ x.out = server[g].out
      /\ x.shook = server[g].shook /\ x.reader = server[g].reader
      /\ x.kind = server[g].kind /\ x.relay = server[g].relay
  BY <1>1 DEF ServerType
<1>4. /\ Fault /\ UNCHANGED <<proxy, discard, victim, client>>
      /\ server[g].up
  BY DEF Dies, Hangs
<1>5. Alone(g)
  BY <1>1, <1>2, <1>3, <1>4, FaultsTyped DEF Alone, IInv, TypeOK, proxy, Counted
<1> QED
  BY <1>1, <1>2, <1>3, <1>4, <1>5, StartedBefore, SameLinesStep

LEMMA ShutStep ==
  ASSUME IInv, NEW g \in Gens, g <= gen, server' = Shut(g),
         UNCHANGED <<mode, gen, current, restarts, pending, replaying, handshake, client>>,
         closing' \in BOOLEAN, mode = "none" => ~closing',
         faults' \in 0 .. MaxFaults,
         discard' \in {0, discard}, victim' \in {0, victim}
  PROVE  IInv'
<1>1. Alone(g)
  BY ShutTyped DEF Alone, IInv, TypeOK
<1> QED
  BY <1>1, ShutTyped, SameLinesStep

LEMMA StopsStep ==
  ASSUME IInv, NEW g \in Gens, Babbles(g) \/ EndOfOutput(g)
  PROVE  IInv'
<1>1. server[g].reader = "reading" /\ server' = Shut(g)
      /\ UNCHANGED <<proxy, discard, victim, client>>
  BY DEF Babbles, EndOfOutput
<1>2. faults' \in 0 .. MaxFaults
  BY FaultsTyped DEF Babbles, EndOfOutput, IInv, TypeOK
<1>3. mode = "none" => ~closing'
  BY <1>1 DEF IInv, Counted, proxy
<1> QED
  BY <1>1, <1>2, <1>3, StartedBefore, ShutStep DEF proxy, IInv, TypeOK

LEMMA DiscardStep ==
  ASSUME IInv, Discard
  PROVE  IInv'
<1>1. PICK g \in Gens : g = discard
  BY DEF IInv, TypeOK, Discard
<1>2. server' = Shut(g) /\ discard' = 0 /\ UNCHANGED <<proxy, victim, faults, client>>
  BY <1>1 DEF Discard
<1>3. g <= gen
  BY <1>1 DEF IInv, Counted
<1> QED
  BY <1>2, <1>3, ShutStep DEF IInv, TypeOK, Counted, proxy

LEMMA KillStep ==
  ASSUME IInv, Kill
  PROVE  IInv'
<1>1. PICK g \in Gens : g = victim
  BY DEF IInv, TypeOK, Kill
<1>2. server' = [server EXCEPT ![g].up = FALSE] /\ victim' = 0
      /\ UNCHANGED <<proxy, discard, faults, client>>
  BY <1>1 DEF Kill
<1>3. g <= gen
  BY <1>1 DEF IInv, Counted
<1>4. server \in [Gens -> ServerType] /\ server[g] \in ServerType
  BY DEF IInv, TypeOK
<1>5. LET x == [server[g] EXCEPT !.up = FALSE]
      IN  /\ server' = [server EXCEPT ![g] = x] /\ x \in ServerType
          /\ x.in = server[g].in /\ x.out = server[g].out
          /\ x.shook = server[g].shook /\ x.reader = server[g].reader
          /\ x.kind = server[g].kind /\ x.relay = server[g].relay
  BY <1>2, <1>4 DEF ServerType
<1>6. Alone(g)
  BY <1>2, <1>4, <1>5 DEF Alone, IInv, TypeOK, proxy, Counted
<1> QED
  BY <1>3, <1>4, <1>5, <1>6, SameLinesStep

LEMMA CloseStep ==
  ASSUME IInv, Close
  PROVE  IInv'
<1>1. mode # "none" /\ closing' = TRUE
      /\ UNCHANGED <<mode, gen, current, restarts, pending, replaying, handshake,
                     discard, victim, faults, client>>
  BY DEF Close
<1>2. CASE current # 0
  <2>1. PICK g \in Gens : g = current
    BY <1>2 DEF IInv, TypeOK
  <2>2. server' = Shut(g) /\ g <= gen
    BY <1>2, <2>1, Generation DEF Close, IInv, Counted, TypeOK
  <2> QED
    BY <1>1, <2>2, ShutStep DEF IInv, TypeOK
<1>3. CASE current = 0
  <2>1. UNCHANGED server
    BY <1>3 DEF Close
  <2>2. TypeOK' /\ Counted' /\ Servers' /\ Protocol' /\ Speaking'
    BY <1>1, <1>3, <2>1
    DEF IInv, TypeOK, Counted, Servers, Protocol, Speaking, client
  <2>3. \A q \in Ids : Fate(q)'
    BY <1>1, <2>1 DEF IInv, Fate, Relays, client
  <2>4. \A g \in Gens : First(g)'
    BY <2>1 DEF IInv, First, ReadBefore
  <2> QED
    BY <2>2, <2>3, <2>4 DEF IInv
<1> QED
  BY <1>2, <1>3

LEMMA WatchdogStep ==
  ASSUME IInv, Watchdog
  PROVE  IInv'
<1>1. UNCHANGED <<proxy, server, discard, faults, client>>
      /\ victim' = current /\ current # 0 /\ mode = "remote"
  BY DEF Watchdog
<1>2. TypeOK' /\ Protocol' /\ Servers'
  BY <1>1 DEF IInv, TypeOK, Protocol, Servers, proxy, client
<1>3. Counted'
  BY <1>1, Generation DEF IInv, TypeOK, Counted, proxy, client
<1>4. Speaking'
  BY <1>1 DEF IInv, Speaking, Unique, Expected, Greeted, On, ToRead, proxy, client
<1>5. (\A q \in Ids : Fate(q)') /\ \A g \in Gens : First(g)'
  BY <1>1 DEF IInv, Fate, Relays, First, ReadBefore, proxy, client
<1> QED
  BY <1>2, <1>3, <1>4, <1>5 DEF IInv
-----------------------------------------------------------------------------
LEMMA TailFacts ==
  ASSUME NEW S, NEW s \in Seq(S), s # <<>>
  PROVE  /\ Head(s) \in S /\ Head(s) = s[1] /\ 1 \in DOMAIN s
         /\ Tail(s) \in Seq(S)
         /\ \A i \in DOMAIN Tail(s) :
               i \in Nat /\ i + 1 \in DOMAIN s /\ i + 1 # 1 /\ Tail(s)[i] = s[i + 1]
OBVIOUS

LEMMA AppendFacts ==
  ASSUME NEW S, NEW s \in Seq(S), NEW x \in S
  PROVE  /\ Append(s, x) \in Seq(S) /\ s \o <<x>> = Append(s, x)
         /\ DOMAIN Append(s, x) = DOMAIN s \cup {Len(s) + 1}
         /\ Len(s) + 1 \notin DOMAIN s /\ Append(s, x)[Len(s) + 1] = x
         /\ \A i \in DOMAIN s : Append(s, x)[i] = s[i]
OBVIOUS

\* The lines of a server that reads one of them and may answer it.
LEMMA ServedLines ==
  ASSUME NEW g \in Gens, NEW S, NEW T,
         server[g].in \in Seq(S), server[g].out \in Seq(T), server[g].in # <<>>,
         server'[g].in = Tail(server[g].in),
         \/ server'[g].out = server[g].out
         \/ /\ Head(server[g].in) \in T
            /\ server'[g].out = Append(server[g].out, Head(server[g].in))
  PROVE  /\ Unique(g) => Unique(g)'
         /\ On(g)' \subseteq On(g)
<1> DEFINE in == server[g].in
           out == server[g].out
           in2 == server'[g].in
           out2 == server'[g].out
<1>1. \A i \in DOMAIN in2 : /\ i \in Nat /\ i + 1 \in DOMAIN in /\ i + 1 # 1
                            /\ in2[i] = in[i + 1]
  BY TailFacts
<1>2. 1 \in DOMAIN in /\ Head(in) = in[1]
  BY TailFacts
<1>3. \A j \in DOMAIN out2 : \/ j \in DOMAIN out /\ out2[j] = out[j]
                             \/ j = Len(out) + 1 /\ j \notin DOMAIN out /\ out2[j] = in[1]
  BY <1>2, AppendFacts
<1> HIDE DEF in, out, in2, out2
<1>4. On(g)' \subseteq On(g)
  BY <1>1, <1>2, <1>3 DEF On, in, out, in2, out2
<1>5. ASSUME Unique(g) PROVE Unique(g)'
  <2>1. /\ \A i, j \in DOMAIN in : in[i] = in[j] => i = j
        /\ \A i, j \in DOMAIN out : out[i] = out[j] => i = j
        /\ \A i \in DOMAIN in, j \in DOMAIN out : in[i] # out[j]
    BY <1>5 DEF Unique, Distinct, in, out
  <2>2. \A i, j \in DOMAIN in2 : in2[i] = in2[j] => i = j
    BY <1>1, <2>1
  <2>3. \A i, j \in DOMAIN out2 : out2[i] = out2[j] => i = j
    BY <1>2, <1>3, <2>1
  <2>4. \A i \in DOMAIN in2, j \in DOMAIN out2 : in2[i] # out2[j]
    BY <1>1, <1>2, <1>3, <2>1
  <2> QED
    BY <2>2, <2>3, <2>4 DEF Unique, Distinct, in2, out2
<1> QED
  BY <1>4, <1>5

LEMMA ServeStep ==
  ASSUME IInv, NEW g \in Gens, Serve(g)
  PROVE  IInv'
<1> DEFINE line == Head(server[g].in)
           x == [server[g] EXCEPT
                    !.in = Tail(@), !.out = @ \o Replies(line),
                    !.shook = IF line \in Calls THEN @ ELSE @ \cup {line}]
<1>1. /\ server \in [Gens -> ServerType] /\ server[g] \in ServerType
      /\ server[g].in \in Seq(Lines \cup {"replay"})
      /\ server[g].out \in Seq(Ids \cup {"replay"})
      /\ server[g].shook \in SUBSET Greetings
  BY DEF IInv, TypeOK, ServerType
<1>2. server[g].in # <<>> /\ server[g].up /\ server' = [server EXCEPT ![g] = x]
      /\ UNCHANGED <<proxy, discard, victim, faults, client>>
  BY <1>1 DEF Serve
<1>3. line \in Lines \cup {"replay"} /\ Tail(server[g].in) \in Seq(Lines \cup {"replay"})
  BY <1>1, <1>2, TailFacts
<1>4. line \notin Calls => line \in Greetings
  BY <1>3 DEF Lines, Ids, Greetings
<1>5. /\ server[g].out \o Replies(line) \in Seq(Ids \cup {"replay"})
      /\ \/ server[g].out \o Replies(line) = server[g].out
         \/ /\ line \in Ids \cup {"replay"}
            /\ server[g].out \o Replies(line) = Append(server[g].out, line)
  <2>1. CASE line = "initialized"
    BY <1>1, <2>1 DEF Replies
  <2>2. CASE line # "initialized"
    <3>1. line \in Ids \cup {"replay"}
      BY <1>3, <2>2 DEF Lines
    <3> QED
      BY <1>1, <2>2, <3>1, AppendFacts DEF Replies
  <2> QED
    BY <2>1, <2>2
<1>6. /\ x \in ServerType /\ x.kind = server[g].kind /\ x.relay = server[g].relay
      /\ x.in = Tail(server[g].in) /\ x.out = server[g].out \o Replies(line)
      /\ x.shook = IF line \in Calls THEN server[g].shook ELSE server[g].shook \cup {line}
      /\ x.reader = server[g].reader
  BY <1>1, <1>3, <1>4, <1>5 DEF ServerType
<1> HIDE DEF x
<1>7. server'[g] = x /\ \A h \in Gens \ {g} : server'[h] = server[h]
  BY <1>1, <1>2
<1>8. Alone(g)
  BY <1>1, <1>2, <1>6, <1>7 DEF Alone, IInv, TypeOK, proxy, Counted
<1>9. Unique(g) => Unique(g)'
  BY <1>1, <1>2, <1>5, <1>6, <1>7, ServedLines
<1>10. On(g)' \subseteq On(g)
  BY <1>1, <1>2, <1>5, <1>6, <1>7, ServedLines
<1>11. Expected(g) => Expected(g)'
  BY <1>10, <1>8 DEF Expected, Alone, client
<1>12. \A i \in DOMAIN server'[g].in : /\ i \in Nat /\ i + 1 \in DOMAIN server[g].in
                                       /\ server'[g].in[i] = server[g].in[i + 1]
                                       /\ 1 .. i - 1 \subseteq DOMAIN server'[g].in
  <2>1. server'[g].in = Tail(server[g].in)
    BY <1>6, <1>7
  <2>2. \A i \in DOMAIN Tail(server[g].in) :
           /\ i \in Nat /\ i + 1 \in DOMAIN server[g].in
           /\ Tail(server[g].in)[i] = server[g].in[i + 1]
    BY <1>1, <1>2, TailFacts
  <2>3. \A i \in DOMAIN Tail(server[g].in) :
           1 .. i - 1 \subseteq DOMAIN Tail(server[g].in)
    BY <1>3
  <2> QED
    BY <2>1, <2>2, <2>3
<1>13. Greeted(g) => Greeted(g)'
  <2>1. \A y \in ToRead(g) : y \notin Calls => y \in ToRead(g)'
    <3> SUFFICES ASSUME NEW i \in DOMAIN server[g].in, server[g].in[i] \notin Calls
                 PROVE  server[g].in[i] \in ToRead(g)'
      BY <1>6, <1>7 DEF ToRead
    <3>1. CASE i = 1
      BY <1>1, <1>2, <1>6, <1>7, <3>1, TailFacts DEF ToRead
    <3>2. CASE i # 1
      <4>1. i - 1 \in DOMAIN Tail(server[g].in)
            /\ Tail(server[g].in)[i - 1] = server[g].in[i]
        BY <1>1, <1>2, <3>2
      <4> QED
        BY <1>6, <1>7, <4>1 DEF ToRead
    <3> QED
      BY <3>1, <3>2
  <2> QED
    BY <2>1, <1>8, Constants DEF Greeted, Alone, client
<1>14. First(g)'
  <2>1. \A i \in DOMAIN server'[g].in : \A y \in ReadBefore(g, i + 1) :
           y \notin Calls => y \in ReadBefore(g, i)'
    <3> SUFFICES ASSUME NEW i \in DOMAIN server'[g].in, NEW j \in 1 .. (i + 1) - 1,
                        server[g].in[j] \notin Calls
                 PROVE  server[g].in[j] \in ReadBefore(g, i)'
      BY <1>6, <1>7 DEF ReadBefore
    <3>1. CASE j = 1
      BY <1>1, <1>2, <1>6, <1>7, <3>1, TailFacts DEF ReadBefore
    <3>2. CASE j # 1
      <4>1. j - 1 \in 1 .. i - 1 /\ j - 1 \in DOMAIN server'[g].in
        <5>1. i \in Nat /\ 1 .. i - 1 \subseteq DOMAIN server'[g].in
          BY <1>12
        <5>2. j - 1 \in 1 .. i - 1
          BY <3>2, <5>1
        <5> QED
          BY <5>1, <5>2
      <4>2. server'[g].in[j - 1] = server[g].in[j]
        BY <1>12, <4>1
      <4> QED
        BY <4>1, <4>2 DEF ReadBefore
    <3> QED
      BY <3>1, <3>2
  <2>2. /\ server'[g].relay # "replay"
        /\ \A i \in DOMAIN server[g].in :
              /\ server[g].in[i] \in Calls => "initialized" \in ReadBefore(g, i)
              /\ server[g].in[i] = "initialized" =>
                    ReadBefore(g, i) \cap {"initialize", "replay"} # {}
    BY <1>6, <1>7 DEF IInv, First
  <2> QED
    BY <1>12, <2>1, <2>2, Constants DEF First
<1>15. mode = "dead" => server'[gen].reader \in {"none", "done"}
  BY <1>6, <1>7 DEF IInv, TypeOK, Counted, Servers
<1>16. g <= gen
  BY <1>2, StartedBefore
<1> QED
  BY <1>8, <1>9, <1>11, <1>13, <1>14, <1>15, <1>16, AloneStep
-----------------------------------------------------------------------------
\* A request that waits was sent and not yet answered; one that was not sent
\* is nowhere.
LEMMA FateFacts ==
  ASSUME IInv, NEW q \in Ids
  PROVE  /\ Cardinality(Relays(q)) \in Nat /\ answers[q] \in Nat
         /\ q \in pending => /\ q \in sent /\ answers[q] = 0 /\ q \notin lost
                             /\ Cardinality(Relays(q)) = 0
         /\ q \notin sent => /\ q \notin pending /\ answers[q] = 0 /\ q \notin lost
                             /\ Cardinality(Relays(q)) = 0
<1>1. Cardinality(Relays(q)) \in Nat /\ answers[q] \in Nat
  BY RelaysFinite DEF IInv, TypeOK
<1>2. Fate(q)
  BY DEF IInv
<1> QED
  BY <1>1, <1>2 DEF Fate

\* on_client_line: the line is new to the server, and comes after the handshake.
LEMMA ClientLineStep ==
  ASSUME IInv, NEW line \in Lines, ClientLine(line)
  PROVE  IInv'
<1>0. /\ Says(line) /\ current # 0 /\ handshake' = Remembered(line)
      /\ pending' = Waiting(line) /\ sent' = sent \cup {line}
      /\ UNCHANGED <<mode, gen, current, restarts, replaying, closing, discard,
                     victim, faults, answers, lost>>
  BY DEF ClientLine, Says
<1>a. line \notin sent /\ mode # "none"
  BY <1>0 DEF Says
<1>1. PICK g \in Gens : g = current /\ g = gen
  BY <1>0 DEF IInv, TypeOK, Counted
<1> DEFINE in == server[g].in
           x == [server[g] EXCEPT !.in = Append(@, line)]
<1>2. /\ server \in [Gens -> ServerType] /\ server[g] \in ServerType
      /\ in \in Seq(Lines \cup {"replay"}) /\ line \in Lines \cup {"replay"}
      /\ server[g].reader = "reading" /\ server' = [server EXCEPT ![g] = x]
  BY <1>1 DEF IInv, TypeOK, ServerType, ClientLine
<1>3. /\ Append(in, line) \in Seq(Lines \cup {"replay"})
      /\ DOMAIN Append(in, line) = DOMAIN in \cup {Len(in) + 1}
      /\ Len(in) + 1 \notin DOMAIN in /\ Append(in, line)[Len(in) + 1] = line
      /\ \A i \in DOMAIN in : Append(in, line)[i] = in[i]
  BY <1>2, AppendFacts
<1>4. /\ x \in ServerType /\ x.kind = server[g].kind /\ x.relay = server[g].relay
      /\ x.in = Append(in, line) /\ x.out = server[g].out
      /\ x.shook = server[g].shook /\ x.reader = server[g].reader
  BY <1>2, <1>3 DEF ServerType
<1> HIDE DEF x
<1>5. server'[g] = x /\ \A h \in Gens \ {g} : server'[h] = server[h]
  BY <1>2
<1>6. server' \in [Gens -> ServerType]
  BY <1>2, <1>4
<1>7. handshake' = sent' \ Calls
  BY <1>0 DEF IInv, Protocol, Remembered
<1>8. TypeOK'
  <2>1. handshake' \subseteq {"initialize", "initialized"} /\ pending' \subseteq Ids
    BY <1>0, NoSuchId DEF IInv, TypeOK, Remembered, Waiting, Ids
  <2> QED
    BY <1>0, <1>6, <2>1 DEF IInv, TypeOK
<1>9. Counted' /\ Servers'
  <2>1. Counted'
    BY <1>0, <1>a DEF IInv, Counted
  <2>2. \A h \in Gens : h > gen => h # g
    BY <1>1, Generation DEF IInv, TypeOK
  <2>3. \A h \in Gens : /\ server'[h].kind = server[h].kind
                        /\ server'[h].reader = server[h].reader
    BY <1>4, <1>5
  <2>4. victim \in Gens \cup {0} /\ mode # "dead"
    BY <1>0 DEF IInv, TypeOK, Counted
  <2> QED
    BY <1>0, <1>1, <1>5, <2>1, <2>2, <2>3, <2>4 DEF IInv, Servers
<1>10. Protocol'
  BY <1>0, <1>7 DEF IInv, Protocol, Says
<1>11. line \notin On(g) /\ Unique(g) /\ Expected(g) /\ Greeted(g)
  <2>1. Unique(g) /\ Expected(g) /\ Greeted(g)
    BY <1>0, <1>1, <1>2 DEF IInv, Speaking
  <2>2. line \in Ids => line \notin pending
    BY <1>a, FateFacts
  <2> QED
    BY <1>a, <2>1, <2>2, NoSuchId DEF Expected
<1>12. On(g)' \subseteq On(g) \cup {line} /\ ToRead(g)' = ToRead(g) \cup {line}
  <2>1. {Append(in, line)[i] : i \in DOMAIN Append(in, line)}
           = {in[i] : i \in DOMAIN in} \cup {line}
    BY <1>3
  <2>2. server'[g].in = Append(in, line) /\ server'[g].out = server[g].out
        /\ server'[g].shook = server[g].shook
    BY <1>4, <1>5
  <2>3. On(g)' = {Append(in, line)[i] : i \in DOMAIN Append(in, line)}
                    \cup {server[g].out[i] : i \in DOMAIN server[g].out}
    BY <2>2 DEF On
  <2>4. ToRead(g)' = server[g].shook
                        \cup {Append(in, line)[i] : i \in DOMAIN Append(in, line)}
    BY <2>2 DEF ToRead
  <2>5. On(g)' \subseteq On(g) \cup {line}
    BY <2>1, <2>3 DEF On
  <2> QED
    BY <2>1, <2>4, <2>5 DEF ToRead
<1>13. Speaking'
  <2>1. Unique(g)'
    <3>1. \A i \in DOMAIN in : in[i] # line
      BY <1>11 DEF On
    <3>2. \A i \in DOMAIN server[g].out : server[g].out[i] # line
      BY <1>11 DEF On
    <3>3. Distinct(Append(in, line))
      BY <1>3, <1>11, <3>1 DEF Unique, Distinct
    <3>4. \A i \in DOMAIN Append(in, line), j \in DOMAIN server[g].out :
             Append(in, line)[i] # server[g].out[j]
      BY <1>3, <1>11, <3>2 DEF Unique
    <3> QED
      BY <1>4, <1>5, <1>11, <3>3, <3>4 DEF Unique
  <2>2. Expected(g)'
    BY <1>0, <1>11, <1>12, NoSuchId DEF Expected, Waiting
  <2>3. Greeted(g)'
    BY <1>0, <1>11, <1>12 DEF Greeted, Remembered
  <2> QED
    BY <1>0, <1>1, <2>1, <2>2, <2>3 DEF Speaking
<1>14. ASSUME NEW q \in Ids PROVE Fate(q)'
  <2>1. Cardinality(Relays(q)') = Cardinality(Relays(q))
    BY <1>4, <1>5, RelaysStay
  <2>2. CASE q = line
    BY <1>0, <1>a, <2>1, <2>2, FateFacts DEF Fate, Waiting
  <2>3. CASE q # line
    <3>1. (q \in pending' <=> q \in pending) /\ (q \in sent' <=> q \in sent)
      BY <1>0, <2>3 DEF Waiting
    <3> QED
      BY <1>0, <2>1, <3>1, FateStays DEF IInv
  <2> QED
    BY <2>2, <2>3
<1>15. ASSUME NEW h \in Gens PROVE First(h)'
  <2>1. CASE h # g
    BY <1>5, <2>1 DEF IInv, First, ReadBefore
  <2>2. CASE h = g
    <3>1. \A i \in DOMAIN in : ReadBefore(g, i) \subseteq ReadBefore(g, i)'
      <4> SUFFICES ASSUME NEW i \in DOMAIN in, NEW j \in 1 .. i - 1
                   PROVE  in[j] = server'[g].in[j]
        BY <1>4, <1>5 DEF ReadBefore
      <4>1. j \in DOMAIN in
        BY <1>2
      <4> QED
        BY <1>3, <1>4, <1>5, <4>1
    <3>2. ASSUME NEW k, k = Len(in) + 1 PROVE ToRead(g) \subseteq ReadBefore(g, k)'
      <4>1. \A j \in DOMAIN in : j \in 1 .. (Len(in) + 1) - 1 /\ in[j] = server'[g].in[j]
        BY <1>2, <1>3, <1>4, <1>5
      <4> QED
        BY <1>4, <1>5, <3>2, <4>1 DEF ReadBefore, ToRead
    <3>3. line \in Calls => "initialized" \in ToRead(g)
      BY <1>0, <1>11, Constants DEF Says, Greeted, IInv, Protocol
    <3>4. line = "initialized" => ToRead(g) \cap {"initialize", "replay"} # {}
      <4>1. line = "initialized" => "initialize" \in sent
        BY <1>0, FateFacts, NoSuchId DEF Says
      <4> QED
        BY <1>11, <4>1, Constants DEF Greeted, IInv, Protocol
    <3>5. First(g)
      BY DEF IInv
    <3>6. /\ server'[g].relay # "replay" /\ server'[g].in = Append(in, line)
          /\ \A i \in DOMAIN in :
                /\ in[i] \in Calls => "initialized" \in ReadBefore(g, i)
                /\ in[i] = "initialized" =>
                      ReadBefore(g, i) \cap {"initialize", "replay"} # {}
      BY <1>4, <1>5, <3>5 DEF First
    <3> SUFFICES ASSUME NEW i \in DOMAIN Append(in, line)
                 PROVE  /\ Append(in, line)[i] \in Calls =>
                              "initialized" \in ReadBefore(g, i)'
                        /\ Append(in, line)[i] = "initialized" =>
                              ReadBefore(g, i)' \cap {"initialize", "replay"} # {}
      BY <2>2, <3>6 DEF First
    <3>7. CASE i \in DOMAIN in
      BY <1>3, <3>1, <3>6, <3>7
    <3>8. CASE i = Len(in) + 1
      BY <1>3, <3>2, <3>3, <3>4, <3>8
    <3> QED
      BY <1>3, <3>7, <3>8
  <2> QED
    BY <2>1, <2>2
<1> QED
  BY <1>8, <1>9, <1>10, <1>13, <1>14, <1>15 DEF IInv
-----------------------------------------------------------------------------
\* The lines of a server of which one is taken from its output.
LEMMA TakenLines ==
  ASSUME NEW g \in Gens, NEW T, server[g].out \in Seq(T), server[g].out # <<>>,
         server'[g].in = server[g].in, server'[g].out = Tail(server[g].out)
  PROVE  /\ On(g)' \subseteq On(g) /\ Head(server[g].out) \in On(g)
         /\ Unique(g) => Unique(g)' /\ Head(server[g].out) \notin On(g)'
<1> DEFINE out == server[g].out
           out2 == server'[g].out
           in == server[g].in
           in2 == server'[g].in
<1>1. \A i \in DOMAIN out2 : /\ i \in Nat /\ i + 1 \in DOMAIN out /\ i + 1 # 1
                             /\ out2[i] = out[i + 1]
  BY TailFacts
<1>2. 1 \in DOMAIN out /\ Head(out) = out[1]
  BY TailFacts
<1>3. in2 = in
  OBVIOUS
<1> HIDE DEF in, out, in2, out2
<1>4. On(g)' \subseteq On(g) /\ Head(server[g].out) \in On(g)
  BY <1>1, <1>2, <1>3 DEF On, in, out, in2, out2
<1>5. ASSUME Unique(g) PROVE Unique(g)' /\ Head(server[g].out) \notin On(g)'
  <2>1. /\ \A i, j \in DOMAIN in : in[i] = in[j] => i = j
        /\ \A i, j \in DOMAIN out : out[i] = out[j] => i = j
        /\ \A i \in DOMAIN in, j \in DOMAIN out : in[i] # out[j]
    BY <1>5 DEF Unique, Distinct, in, out
  <2>2. \A i, j \in DOMAIN out2 : out2[i] = out2[j] => i = j
    BY <1>1, <2>1
  <2>3. \A i \in DOMAIN in2, j \in DOMAIN out2 : in2[i] # out2[j]
    BY <1>1, <1>3, <2>1
  <2>4. \A i, j \in DOMAIN in2 : in2[i] = in2[j] => i = j
    BY <1>3, <2>1
  <2>5. \A j \in DOMAIN out2 : out2[j] # Head(out)
    BY <1>1, <1>2, <2>1
  <2>6. \A i \in DOMAIN in2 : in2[i] # Head(out)
    BY <1>2, <1>3, <2>1
  <2>7. Unique(g)'
    BY <2>2, <2>3, <2>4 DEF Unique, Distinct, in2, out2
  <2>8. Head(server[g].out) \notin On(g)'
    BY <2>5, <2>6 DEF On, in2, out2, out
  <2> QED
    BY <2>7, <2>8
<1> QED
  BY <1>4, <1>5

LEMMA RelayCounts ==
  ASSUME NEW g \in Gens, NEW q, server[g].relay = q
  PROVE  Cardinality(Relays(q)) >= 1
<1>1. Relays(q) # {}
  BY DEF Relays
<1> QED
  BY <1>1, RelaysFinite, FS_EmptySet

\* on_backend_line: an answer is waited for, once, and comes from the current
\* server; the answer to a replay is dropped.
LEMMA BackendLineStep ==
  ASSUME IInv, NEW g \in Gens, BackendLine(g)
  PROVE  IInv'
<1> DEFINE line == Head(server[g].out)
           swallowed == line = "replay" /\ replaying
           x == [server[g] EXCEPT
                    !.out = Tail(@),
                    !.relay = IF Heard(g) /\ ~swallowed THEN line ELSE @]
<1>1. /\ server \in [Gens -> ServerType] /\ server[g] \in ServerType
      /\ server[g].out \in Seq(Ids \cup {"replay"})
      /\ server[g].reader = "reading" /\ server[g].relay = "nothing"
      /\ server[g].out # <<>>
  BY DEF IInv, TypeOK, ServerType, BackendLine
<1>2. /\ server' = [server EXCEPT ![g] = x]
      /\ replaying' = (replaying /\ ~(Heard(g) /\ swallowed))
      /\ pending' = IF Heard(g) THEN pending \ {line} ELSE pending
      /\ UNCHANGED <<mode, gen, current, restarts, handshake, closing, discard,
                     victim, faults, client>>
  BY <1>1 DEF BackendLine
<1>3. line \in Ids \cup {"replay"} /\ Tail(server[g].out) \in Seq(Ids \cup {"replay"})
  BY <1>1, TailFacts
<1>4. /\ x \in ServerType /\ x.kind = server[g].kind /\ x.in = server[g].in
      /\ x.out = Tail(server[g].out) /\ x.shook = server[g].shook
      /\ x.reader = server[g].reader
      /\ x.relay = IF Heard(g) /\ ~swallowed THEN line ELSE server[g].relay
  BY <1>1, <1>3 DEF ServerType
<1> HIDE DEF x
<1>5. server'[g] = x /\ \A h \in Gens \ {g} : server'[h] = server[h]
  BY <1>1, <1>2
<1>6. server' \in [Gens -> ServerType]
  BY <1>1, <1>2, <1>4
<1>7. g <= gen /\ g \in Nat /\ gen \in Nat
  BY <1>1, StartedBefore, Generation DEF IInv, TypeOK
<1>8. On(g)' \subseteq On(g) /\ line \in On(g)
  BY <1>1, <1>4, <1>5, TakenLines
<1>9. Unique(g) => Unique(g)' /\ line \notin On(g)'
  BY <1>1, <1>4, <1>5, TakenLines
<1> HIDE DEF line
<1>10. server[gen].reader \in {"none", "done"} => g # gen
  BY <1>1
<1>11. mode # "dead" \/ g # gen
  BY <1>10 DEF IInv, Servers
<1>12. CASE ~Heard(g)
  <2>1. Alone(g)
    BY <1>1, <1>2, <1>4, <1>5, <1>6, <1>12 DEF Alone, IInv, TypeOK, Counted
  <2>2. Expected(g) => Expected(g)'
    BY <1>8, <2>1 DEF Expected, Alone, client
  <2>3. Greeted(g) => Greeted(g)'
    BY <1>4, <1>5, <2>1 DEF Greeted, ToRead, Alone
  <2>4. First(g)'
    BY <1>4, <1>5, <1>12 DEF IInv, First, ReadBefore
  <2>5. mode = "dead" => server'[gen].reader \in {"none", "done"}
    BY <1>4, <1>5 DEF IInv, TypeOK, Counted, Servers
  <2> QED
    BY <1>7, <1>9, <2>1, <2>2, <2>3, <2>4, <2>5, AloneStep
<1>13. CASE Heard(g)
  <2>1. g = gen /\ current = g /\ mode \in {"remote", "local"}
    BY <1>11, <1>13, Generation DEF Heard, IInv, TypeOK, Counted
  <2>2. Unique(g) /\ Expected(g) /\ Greeted(g)
    BY <1>1, <2>1, Generation DEF IInv, Speaking
  <2>3. pending' = pending \ {line} /\ replaying' = (replaying /\ ~swallowed)
    BY <1>2, <1>13
  <2>4. line # "replay" => line \in Ids /\ line \in pending
    BY <1>3, <1>8, <2>2 DEF Expected
  <2>5. line = "replay" => swallowed
    BY <1>8, <2>2 DEF Expected
  <2>6. TypeOK'
    BY <1>2, <1>6, <2>3 DEF IInv, TypeOK, client
  <2>7. Counted'
    BY <1>2 DEF IInv, Counted, client
  <2>8. Servers'
    <3>1. \A h \in Gens : h > gen => h # g
      BY <1>7
    <3>2. \A h \in Gens : server'[h].kind = server[h].kind
      BY <1>4, <1>5
    <3>3. current \in Gens \cup {0} /\ victim \in Gens \cup {0}
      BY DEF IInv, TypeOK
    <3> QED
      BY <1>2, <1>5, <2>1, <3>1, <3>2, <3>3 DEF IInv, Servers
  <2>9. Protocol'
    BY <1>2 DEF IInv, Protocol, client
  <2>10. Speaking'
    <3>1. Unique(g)' /\ line \notin On(g)'
      BY <1>9, <2>2
    <3>2. Expected(g)'
      <4>1. On(g)' \cap Ids \subseteq pending'
        BY <1>8, <2>2, <2>3, <3>1 DEF Expected
      <4>2. "replay" \in On(g)' => replaying'
        BY <1>8, <2>2, <2>3, <3>1 DEF Expected
      <4>3. "initialized" \in On(g)' => "initialized" \in sent'
        BY <1>2, <1>8, <2>2 DEF Expected, client
      <4> QED
        BY <4>1, <4>2, <4>3 DEF Expected
    <3>3. Greeted(g)'
      BY <1>2, <1>4, <1>5, <2>2 DEF Greeted, ToRead
    <3> QED
      BY <1>2, <2>1, <3>1, <3>2, <3>3 DEF Speaking
  <2>11. ASSUME NEW q \in Ids PROVE Fate(q)'
    <3>1. CASE line = "replay"
      <4>1. \A h \in Gens : server'[h].relay = server[h].relay
        BY <1>4, <1>5, <2>5, <3>1
      <4> QED
        BY <1>2, <2>3, <3>1, <4>1, RelaysStay, FateStays, NoSuchId DEF IInv, client
    <3>2. CASE line # "replay"
      <4>1. server'[g].relay = line /\ line # "nothing"
        BY <1>4, <1>5, <1>13, <2>4, <3>2, NoSuchId
      <4>2. Cardinality(Relays(q)') =
               Cardinality(Relays(q)) + IF q = line THEN 1 ELSE 0
        BY <1>1, <1>5, <4>1, RelaysGain
      <4>3. CASE q = line
        BY <1>2, <2>3, <2>4, <3>2, <4>2, <4>3, FateFacts DEF Fate, client
      <4>4. CASE q # line
        <5>1. Cardinality(Relays(q)') = Cardinality(Relays(q))
          BY <4>2, <4>4, RelaysFinite
        <5> QED
          BY <1>2, <2>3, <4>4, <5>1, FateStays DEF IInv, client
      <4> QED
        BY <4>3, <4>4
    <3> QED
      BY <3>1, <3>2
  <2>12. \A h \in Gens : First(h)'
    <3>1. server'[g].relay # "replay"
      BY <1>1, <1>4, <1>5, <2>5
    <3> QED
      BY <1>4, <1>5, <3>1 DEF IInv, First, ReadBefore
  <2> QED
    BY <2>6, <2>7, <2>8, <2>9, <2>10, <2>11, <2>12 DEF IInv
<1> QED
  BY <1>12, <1>13
-----------------------------------------------------------------------------
\* A reader that hands on an answer, and may stop: the rest is as before.
LEMMA RelayedStep ==
  ASSUME IInv, NEW g \in Gens, server[g].relay # "nothing",
         UNCHANGED <<proxy, discard, victim, sent>>,
         server' \in [Gens -> ServerType],
         \A h \in Gens \ {g} : server'[h] = server[h],
         server'[g].kind = server[g].kind, server'[g].in = server[g].in,
         server'[g].out = server[g].out, server'[g].shook = server[g].shook,
         server'[g].relay = "nothing",
         \/ server'[g].reader = server[g].reader
         \/ server[g].reader = "reading" /\ server'[g].reader = "stopped",
         faults' \in 0 .. MaxFaults, lost' \subseteq Ids, answers' \in [Ids -> Nat],
         \A q \in Ids : answers'[q] >= answers[q],
         \A q \in Ids : Fate(q)'
  PROVE  IInv'
<1>1. TypeOK' /\ Counted'
  BY DEF IInv, TypeOK, Counted, proxy
<1>2. Servers'
  <2>1. server[g] # Absent
    BY DEF Absent
  <2>2. \A h \in Gens : h > gen => h # g
    BY <2>1 DEF IInv, Servers
  <2>3. \A h \in Gens : server'[h].kind = server[h].kind
    OBVIOUS
  <2>4. /\ current \in Gens \cup {0} /\ victim \in Gens \cup {0}
        /\ mode = "dead" => gen \in Gens /\ server'[gen].reader \in {"none", "done"}
    BY DEF IInv, TypeOK, Counted, Servers
  <2> QED
    BY <2>2, <2>3, <2>4 DEF IInv, Servers, proxy
<1>3. Protocol'
  <2>1. answers'["initialize"] >= answers["initialize"]
        /\ answers["initialize"] \in Nat /\ answers'["initialize"] \in Nat
    BY NoSuchId DEF IInv, TypeOK
  <2> QED
    BY <2>1 DEF IInv, Protocol, proxy
<1>4. Speaking'
  <2>1. \A h \in Gens : /\ server'[h].in = server[h].in /\ server'[h].out = server[h].out
                        /\ server'[h].shook = server[h].shook
    OBVIOUS
  <2>2. /\ current' = current
        /\ current' # 0 => current \in Gens
        /\ \A h \in Gens : server'[h].reader = "reading" => server[h].reader = "reading"
    BY DEF IInv, TypeOK, proxy
  <2>3. ASSUME current' # 0, server'[current].reader = "reading"
        PROVE  Unique(current) /\ Expected(current) /\ Greeted(current)
    BY <2>2, <2>3 DEF IInv, Speaking
  <2> QED
    BY <2>1, <2>2, <2>3 DEF Speaking, Unique, Expected, Greeted, On, ToRead, proxy
<1>5. \A h \in Gens : First(h)'
  <2>1. \A h \in Gens : /\ server'[h].in = server[h].in
                        /\ server'[h].shook = server[h].shook
                        /\ server'[h].relay # "replay"
    BY DEF IInv, First
  <2>2. ASSUME NEW h \in Gens PROVE First(h)'
    <3>1. \A i : ReadBefore(h, i)' = ReadBefore(h, i)
      BY <2>1 DEF ReadBefore
    <3>2. First(h)
      BY DEF IInv
    <3> QED
      BY <2>1, <3>1, <3>2 DEF First
  <2> QED
    BY <2>2
<1> QED
  BY <1>1, <1>2, <1>3, <1>4, <1>5 DEF IInv

LEMMA EmitStep ==
  ASSUME IInv, NEW g \in Gens, Emit(g)
  PROVE  IInv'
<1> DEFINE x == [server[g] EXCEPT !.relay = "nothing"]
<1>1. /\ server \in [Gens -> ServerType] /\ server[g] \in ServerType
      /\ server[g].relay # "nothing" /\ answers \in [Ids -> Nat]
      /\ server' = [server EXCEPT ![g] = x]
      /\ answers' = [q \in Ids |-> IF q = server[g].relay THEN answers[q] + 1
                                   ELSE answers[q]]
      /\ UNCHANGED <<proxy, discard, victim, faults, sent, lost>>
  BY DEF IInv, TypeOK, Emit
<1>2. /\ x \in ServerType /\ x.kind = server[g].kind /\ x.in = server[g].in
      /\ x.out = server[g].out /\ x.shook = server[g].shook
      /\ x.reader = server[g].reader /\ x.relay = "nothing"
  BY <1>1 DEF ServerType
<1> HIDE DEF x
<1>3. server'[g] = x /\ \A h \in Gens \ {g} : server'[h] = server[h]
  BY <1>1
<1>4. server' \in [Gens -> ServerType]
  BY <1>1, <1>2
<1>5. answers' \in [Ids -> Nat] /\ \A q \in Ids : answers'[q] >= answers[q]
  BY <1>1
<1>6. ASSUME NEW q \in Ids PROVE Fate(q)'
  <2>1. Cardinality(Relays(q)') =
           Cardinality(Relays(q)) - IF q = server[g].relay THEN 1 ELSE 0
    BY <1>1, <1>2, <1>3, RelaysLose
  <2>2. CASE q = server[g].relay
    <3>1. Cardinality(Relays(q)) >= 1
      BY <2>2, RelayCounts
    <3> QED
      BY <1>1, <2>1, <2>2, <3>1, FateFacts DEF IInv, Fate, proxy
  <2>3. CASE q # server[g].relay
    <3>1. Cardinality(Relays(q)') = Cardinality(Relays(q))
      BY <2>1, <2>3, RelaysFinite
    <3> QED
      BY <1>1, <2>3, <3>1, FateStays DEF IInv, proxy
  <2> QED
    BY <2>2, <2>3
<1>7. /\ faults' \in 0 .. MaxFaults /\ lost' \subseteq Ids
      /\ server[g].relay # "nothing" /\ UNCHANGED <<proxy, discard, victim, sent>>
  BY <1>1 DEF IInv, TypeOK
<1>8. /\ server'[g].kind = server[g].kind /\ server'[g].in = server[g].in
      /\ server'[g].out = server[g].out /\ server'[g].shook = server[g].shook
      /\ server'[g].reader = server[g].reader /\ server'[g].relay = "nothing"
  BY <1>2, <1>3
<1> QED
  BY <1>3, <1>4, <1>5, <1>6, <1>7, <1>8, RelayedStep

LEMMA EmitFailsStep ==
  ASSUME IInv, NEW g \in Gens, EmitFails(g)
  PROVE  IInv'
<1> DEFINE y == Shut(g)[g]
           x == [y EXCEPT !.relay = "nothing"]
<1>1. /\ server[g].relay # "nothing" /\ answers \in [Ids -> Nat]
      /\ server' = [Shut(g) EXCEPT ![g].relay = "nothing"]
      /\ lost' = lost \cup {server[g].relay}
      /\ UNCHANGED <<proxy, discard, victim, sent, answers>>
  BY DEF IInv, TypeOK, EmitFails
<1>2. faults' \in 0 .. MaxFaults
  BY FaultsTyped DEF EmitFails
<1>3. /\ Shut(g) \in [Gens -> ServerType] /\ y \in ServerType
      /\ y.in = server[g].in /\ y.out = server[g].out /\ y.shook = server[g].shook
      /\ y.kind = server[g].kind
      /\ \/ y.reader = server[g].reader
         \/ server[g].reader = "reading" /\ y.reader = "stopped"
      /\ \A h \in Gens \ {g} : Shut(g)[h] = server[h]
  BY ShutTyped
<1>4. server' = [Shut(g) EXCEPT ![g] = x]
  BY <1>1, <1>3
<1> HIDE DEF y
<1>5. /\ x \in ServerType /\ x.kind = y.kind /\ x.in = y.in /\ x.out = y.out
      /\ x.shook = y.shook /\ x.reader = y.reader /\ x.relay = "nothing"
  BY <1>3 DEF ServerType
<1> HIDE DEF x
<1>6. server' \in [Gens -> ServerType] /\ server'[g] = x
      /\ \A h \in Gens \ {g} : server'[h] = server[h]
  BY <1>3, <1>4, <1>5
<1>7. server[g].relay \in Ids
  BY <1>1 DEF IInv, TypeOK, First, ServerType
<1>8. ASSUME NEW q \in Ids PROVE Fate(q)'
  <2>1. Cardinality(Relays(q)') =
           Cardinality(Relays(q)) - IF q = server[g].relay THEN 1 ELSE 0
    BY <1>1, <1>5, <1>6, RelaysLose
  <2>2. CASE q = server[g].relay
    <3>1. Cardinality(Relays(q)) >= 1
      BY <2>2, RelayCounts
    <3>2. q \notin lost /\ q \in lost'
      <4>1. Fate(q) /\ answers[q] \in Nat /\ Cardinality(Relays(q)) \in Nat
        BY FateFacts DEF IInv
      <4> QED
        BY <1>1, <2>2, <3>1, <4>1 DEF Fate
    <3> QED
      BY <1>1, <2>1, <2>2, <3>1, <3>2, FateFacts DEF IInv, Fate, proxy
  <2>3. CASE q # server[g].relay
    <3>1. Cardinality(Relays(q)') = Cardinality(Relays(q))
      BY <2>1, <2>3, RelaysFinite
    <3> QED
      BY <1>1, <2>3, <3>1, FateStays DEF IInv, proxy
  <2> QED
    BY <2>2, <2>3
<1>9. /\ lost' \subseteq Ids /\ answers' \in [Ids -> Nat]
      /\ \A q \in Ids : answers'[q] >= answers[q]
  BY <1>1, <1>7 DEF IInv, TypeOK
<1>10. /\ server'[g].kind = server[g].kind /\ server'[g].in = server[g].in
       /\ server'[g].out = server[g].out /\ server'[g].shook = server[g].shook
       /\ server'[g].relay = "nothing"
       /\ \/ server'[g].reader = server[g].reader
          \/ server[g].reader = "reading" /\ server'[g].reader = "stopped"
  BY <1>3, <1>5, <1>6
<1>11. server[g].relay # "nothing" /\ UNCHANGED <<proxy, discard, victim, sent>>
  BY <1>1
<1>12. server' \in [Gens -> ServerType] /\ \A h \in Gens \ {g} : server'[h] = server[h]
  BY <1>6
<1> QED
  BY <1>2, <1>8, <1>9, <1>10, <1>11, <1>12, RelayedStep

\* on_client_line when there is no server left: an error for what waits.
LEMMA ClientLineDeadStep ==
  ASSUME IInv, NEW line \in Lines, ClientLineDead(line)
  PROVE  IInv'
<1>1. /\ Says(line) /\ current = 0 /\ handshake' = Remembered(line)
      /\ sent' = sent \cup {line} /\ line \notin sent /\ mode # "none"
      /\ pending' = {}
      /\ answers' = [q \in Ids |-> IF q \in Waiting(line) THEN answers[q] + 1
                                   ELSE answers[q]]
      /\ UNCHANGED <<mode, gen, current, restarts, replaying, closing, server,
                     discard, victim, faults, lost>>
  BY DEF ClientLineDead, Says, FailPending
<1>2. answers \in [Ids -> Nat] /\ sent \subseteq Lines
      /\ handshake \subseteq {"initialize", "initialized"}
  BY DEF IInv, TypeOK
<1>3. handshake' = sent' \ Calls /\ handshake' \subseteq {"initialize", "initialized"}
  BY <1>1, <1>2 DEF IInv, Protocol, Remembered, Lines, Ids
<1>4. TypeOK'
  BY <1>1, <1>2, <1>3 DEF IInv, TypeOK
<1>5. Counted' /\ Servers'
  BY <1>1 DEF IInv, Counted, Servers
<1>6. Protocol'
  <2>1. answers'["initialize"] >= answers["initialize"]
        /\ answers["initialize"] \in Nat /\ answers'["initialize"] \in Nat
    BY <1>1, <1>2, NoSuchId
  <2>2. line = "initialized" => answers["initialize"] > 0
    BY <1>1 DEF Says
  <2>3. line \in Calls => "initialized" \in sent
    BY <1>1 DEF Says
  <2> QED
    BY <1>1, <1>3, <2>1, <2>2, <2>3 DEF IInv, Protocol
<1>7. Speaking' /\ \A g \in Gens : First(g)'
  BY <1>1 DEF IInv, Speaking, First, ReadBefore
<1>8. ASSUME NEW q \in Ids PROVE Fate(q)'
  <2>1. Cardinality(Relays(q)') = Cardinality(Relays(q))
    BY <1>1, RelaysStay
  <2>2. CASE q \in pending \/ q = line
    <3>1. q \in Waiting(line) /\ answers'[q] = answers[q] + 1 /\ q \in sent'
      BY <1>1, <2>2, FateFacts DEF Waiting
    <3> QED
      BY <1>1, <2>1, <2>2, <3>1, FateFacts DEF Fate
  <2>3. CASE q \notin pending /\ q # line
    <3>1. (q \in pending' <=> q \in pending) /\ (q \in sent' <=> q \in sent)
          /\ answers'[q] = answers[q]
      BY <1>1, <1>2, <2>3 DEF Waiting
    <3> QED
      BY <1>1, <2>1, <3>1, FateStays DEF IInv
  <2> QED
    BY <2>2, <2>3
<1> QED
  BY <1>4, <1>5, <1>6, <1>7, <1>8 DEF IInv
-----------------------------------------------------------------------------
\* What a failover starts from: the requests W wait, the client's line (if it
\* was one that found the server gone) is remembered, and the servers S are as
\* before, but for the reader of the one that is lost.
Handed(W, S) ==
    /\ W \in SUBSET Ids /\ S \in [Gens -> ServerType]
    /\ \A h \in Gens :
          /\ S[h].kind = server[h].kind /\ S[h].relay = server[h].relay
          /\ S[h].in = server[h].in /\ S[h].shook = server[h].shook
          /\ h > gen => S[h] = Absent
    /\ UNCHANGED <<closing, victim, faults, lost>>
    /\ discard' \in {discard, current}
    /\ sent' \in SUBSET Lines /\ sent \subseteq sent'
    /\ handshake' = sent' \ Calls
    /\ sent' \cap Calls # {} => "initialized" \in sent'
    /\ "initialized" \in sent' => answers["initialize"] > 0
    /\ \A q \in Ids : q \in W <=> q \in pending \/ (q \in sent' /\ q \notin sent)

LEMMA HandedFacts ==
  ASSUME IInv, NEW W, NEW S, Handed(W, S), NEW q \in Ids
  PROVE  /\ Cardinality(Relays(q)) \in Nat /\ answers[q] \in Nat
         /\ q \in W => /\ q \in sent' /\ answers[q] = 0 /\ q \notin lost
                       /\ Cardinality(Relays(q)) = 0
         /\ q \notin W => /\ q \notin pending /\ (q \in sent' <=> q \in sent)
BY FateFacts DEF Handed

\* The lines that open a conversation, or as many as fit into the queue.
Opening(in, W) ==
    /\ in \in Seq(Lines \cup {"replay"})
    /\ Distinct(in)
    /\ \A i \in DOMAIN in :
          /\ in[i] \in W \cup {"replay", "initialized"}
          /\ in[i] = "replay" => Greeting(W) # <<>>
          /\ in[i] = "initialized" => /\ "initialized" \in handshake'
                                      /\ i = 2 /\ in[1] = "replay"
          /\ in[i] \in Calls => i > 2 /\ in[2] = "initialized"
    /\ "initialize" \in handshake' =>
          \E i \in DOMAIN in : in[i] \in {"initialize", "replay"}
    /\ "initialized" \in handshake' => \E i \in DOMAIN in : in[i] = "initialized"

\* With calls to resend the client has initialized; before that, what waits is
\* the initialize itself or nothing.
LEMMA WaitingFacts ==
  ASSUME IInv, NEW W, NEW S, Handed(W, S)
  PROVE  /\ IsFiniteSet(W) /\ Cardinality(W) \in Nat
         /\ "initialized" \in handshake' =>
               "initialize" \in handshake' /\ W \subseteq Calls
         /\ "initialized" \notin handshake' => W \subseteq {"initialize"}
         /\ "initialize" \notin handshake' => W = {}
<1>1. IsFiniteSet(W) /\ Cardinality(W) \in Nat
  BY FiniteIds, FS_Subset, FS_CardinalityType DEF Handed
<1>2. \A q \in W : q \in Ids /\ q \in sent' /\ answers[q] = 0
  BY HandedFacts DEF Handed
<1>3. handshake' = sent' \ Calls /\ (sent' \cap Calls # {} => "initialized" \in sent')
  BY DEF Handed
<1>4. "initialized" \in sent' => answers["initialize"] > 0
  BY DEF Handed
<1>5. "initialized" \in handshake' => "initialize" \notin W
  BY <1>2, <1>3, <1>4
<1>6. "initialized" \in sent' => "initialize" \in sent'
  <2>1. "initialize" \notin sent' => answers["initialize"] = 0
    BY FateFacts, NoSuchId DEF Handed
  <2> QED
    BY <1>4, <2>1
<1>7. W \subseteq Calls \cup {"initialize"}
  BY <1>2 DEF Ids
<1> QED
  BY <1>1, <1>2, <1>3, <1>5, <1>6, <1>7, Constants

LEMMA OpeningHolds ==
  ASSUME IInv, NEW W, NEW S, Handed(W, S), NEW lines \in Conversation(W)
  PROVE  /\ Opening(lines, W)
         /\ Overfull(lines) => Opening(SubSeq(lines, 1, QueueLimit), W)
<1> DEFINE n == Cardinality(W)
           Any == Lines \cup {"replay"}
<1>1. PICK s \in [1 .. n -> W] :
         lines = Greeting(W) \o s /\ \A i, j \in 1 .. n : s[i] = s[j] => i = j
  BY DEF Conversation, Orders
<1>2. n \in Nat
  BY WaitingFacts
<1>3. W \subseteq Any /\ "replay" \in Any
  BY NoSuchId DEF Handed
<1>a. W = {} => n = 0
  BY FS_EmptySet
<1> HIDE DEF n, Any
<1>4. s \in Seq(Any) /\ Len(s) = n /\ DOMAIN s = 1 .. n
  BY <1>1, <1>2, <1>3
<1>5. CASE "initialized" \in handshake'
  <2>1. "initialize" \in handshake' /\ W \subseteq Calls
    BY <1>5, WaitingFacts
  <2>2. Greeting(W) = <<"replay", "initialized">>
    BY <1>5, <2>1, Constants DEF Greeting
  <2>3. <<"replay", "initialized">> \in Seq(Any)
    BY DEF Lines, Any
  <2>4. /\ lines \in Seq(Any) /\ Len(lines) = n + 2
        /\ lines[1] = "replay" /\ lines[2] = "initialized"
    BY <1>1, <1>2, <1>4, <2>2, <2>3
  <2>5. \A i \in 1 .. n + 2 : i > 2 => /\ i - 2 \in 1 .. n /\ lines[i] = s[i - 2]
                                       /\ lines[i] \in W
    <3> SUFFICES ASSUME NEW i \in 1 .. n + 2, i > 2
                 PROVE  i - 2 \in 1 .. n /\ lines[i] = s[i - 2] /\ lines[i] \in W
      OBVIOUS
    <3>1. i - 2 \in 1 .. n
      BY <1>2
    <3>2. lines[i] = s[i - 2]
      BY <1>1, <1>2, <1>4, <2>2, <2>3, <3>1
    <3> QED
      BY <1>1, <3>1, <3>2
  <2>6. "replay" \notin Calls /\ "initialized" \notin Calls /\ "replay" # "initialized"
    BY Constants
  <2>7. ASSUME NEW y \in Seq(Any), Len(y) >= 2, Len(y) <= n + 2,
               \A i \in 1 .. Len(y) : y[i] = lines[i]
        PROVE  Opening(y, W)
    <3>1. /\ Len(y) \in Nat /\ DOMAIN y = 1 .. Len(y)
          /\ 1 \in DOMAIN y /\ 2 \in DOMAIN y
          /\ y[1] = "replay" /\ y[2] = "initialized"
      BY <2>4, <2>7
    <3>2. ASSUME NEW i \in DOMAIN y
          PROVE  /\ i \in Nat
                 /\ \/ i = 1 \/ i = 2
                    \/ i > 2 /\ i - 2 \in 1 .. n /\ y[i] = s[i - 2] /\ y[i] \in W
      <4>1. i \in Nat /\ i \in 1 .. n + 2 /\ i >= 1 /\ y[i] = lines[i]
        BY <1>2, <2>7, <3>1
      <4> QED
        BY <2>5, <4>1
    <3>3. Distinct(y)
      <4> SUFFICES ASSUME NEW i \in DOMAIN y, NEW j \in DOMAIN y, y[i] = y[j]
                   PROVE  i = j
        BY DEF Distinct
      <4>1. CASE i > 2 /\ j > 2
        <5>1. i - 2 \in 1 .. n /\ j - 2 \in 1 .. n /\ s[i - 2] = s[j - 2]
              /\ i \in Nat /\ j \in Nat
          BY <3>2, <4>1
        <5>2. i - 2 = j - 2
          BY <1>1, <5>1
        <5> QED
          BY <5>1, <5>2
      <4>2. CASE ~(i > 2) \/ ~(j > 2)
        BY <2>1, <2>6, <3>1, <3>2, <4>2
      <4> QED
        BY <4>1, <4>2
    <3>4. ASSUME NEW i \in DOMAIN y
          PROVE  /\ y[i] \in W \cup {"replay", "initialized"}
                 /\ y[i] = "initialized" => i = 2
                 /\ y[i] \in Calls => i > 2
      BY <2>1, <2>6, <3>1, <3>2
    <3> QED
      BY <1>5, <2>2, <3>1, <3>3, <3>4 DEF Opening, Any
  <2>8. Opening(lines, W)
    <3>1. Len(lines) >= 2 /\ Len(lines) <= n + 2
      BY <1>2, <2>4
    <3> QED
      BY <2>4, <2>7, <3>1
  <2>9. ASSUME Overfull(lines) PROVE Opening(SubSeq(lines, 1, QueueLimit), W)
    <3>1. QueueLimit \in Nat /\ QueueLimit >= 2 /\ QueueLimit < n + 2
      BY <1>2, <2>4, <2>9, Constants DEF Overfull
    <3> DEFINE y == SubSeq(lines, 1, QueueLimit)
    <3>2. /\ y \in Seq(Any) /\ Len(y) = QueueLimit
          /\ \A i \in 1 .. QueueLimit : y[i] = lines[i]
      BY <1>2, <2>4, <3>1
    <3> HIDE DEF y
    <3>3. Len(y) >= 2 /\ Len(y) <= n + 2 /\ \A i \in 1 .. Len(y) : y[i] = lines[i]
      BY <1>2, <3>1, <3>2
    <3>4. Opening(y, W)
      BY <2>7, <3>2, <3>3
    <3> QED
      BY <3>4 DEF y
  <2> QED
    BY <2>8, <2>9
<1>6. CASE "initialized" \notin handshake'
  <2>1. W \subseteq {"initialize"}
    BY <1>6, WaitingFacts
  <2>2. CASE "initialize" \in W
    <3>1. Greeting(W) = <<>> /\ lines = s
      BY <1>1, <1>4, <2>2 DEF Greeting
    <3>2. \A i \in DOMAIN lines : lines[i] = "initialize" /\ i \in 1 .. n
      BY <1>1, <1>4, <2>1, <3>1
    <3>3. n = 1
      <4>1. W = {"initialize"}
        BY <2>1, <2>2
      <4> QED
        BY <4>1, FS_Singleton DEF n
    <3>4. Len(lines) = 1 /\ 1 \in DOMAIN lines /\ lines \in Seq(Any)
      BY <1>4, <3>1, <3>3
    <3>5. Distinct(lines)
      BY <3>2, <3>3 DEF Distinct
    <3>6. ~Overfull(lines)
      BY <3>4, Constants DEF Overfull
    <3>7. Opening(lines, W)
      BY <1>6, <2>2, <3>2, <3>4, <3>5, Constants DEF Opening, Any
    <3> QED
      BY <3>6, <3>7
  <2>3. CASE W = {}
    <3>1. n = 0 /\ s = <<>>
      BY <1>4, <1>a, <2>3
    <3>2. CASE "initialize" \in handshake'
      <4>1. Greeting(W) = <<"replay">>
        BY <1>6, <2>3, <3>2 DEF Greeting
      <4>2. lines = <<"replay">>
        BY <1>1, <3>1, <4>1
      <4>3. lines \in Seq(Any) /\ Len(lines) = 1 /\ DOMAIN lines = {1}
            /\ lines[1] = "replay"
        BY <1>3, <4>2
      <4>4. ~Overfull(lines)
        BY <4>3, Constants DEF Overfull
      <4>5. Greeting(W) # <<>>
        BY <4>1
      <4>6. Opening(lines, W)
        BY <1>6, <4>3, <4>5, Constants DEF Opening, Any, Distinct
      <4> QED
        BY <4>4, <4>6
    <3>3. CASE "initialize" \notin handshake'
      <4>1. lines = <<>>
        BY <1>1, <3>1, <3>3 DEF Greeting
      <4>2. lines \in Seq(Any) /\ Len(lines) = 0 /\ DOMAIN lines = {}
        BY <4>1
      <4> QED
        BY <1>6, <3>3, <4>2, Constants DEF Opening, Any, Distinct, Overfull
    <3> QED
      BY <3>2, <3>3
  <2> QED
    BY <2>1, <2>2, <2>3
<1> QED
  BY <1>5, <1>6
-----------------------------------------------------------------------------
LEMMA Restarted ==
  ASSUME NEW r \in 0 .. MaxLocalRestarts, NEW g \in Gens
  PROVE  /\ r \in Nat
         /\ g <= 3 + 2 * r => g \in 1 .. 3 + 2 * r
         /\ g <= 4 + 2 * r => g \in 1 .. 4 + 2 * r
<1>1. r \in Nat /\ g \in Nat /\ g >= 1
  BY Constants, Generation
<1> QED
  BY <1>1

\* The conversation about W goes to a new server x, of a new generation g.
GoesTo(x, g, W, S) ==
    /\ g \in Gens /\ g > gen /\ S[g].relay = "nothing"
    /\ x \in ServerType /\ x.kind \in {"remote", "local"}
    /\ Opening(x.in, W) /\ x.out = <<>> /\ x.relay = "nothing" /\ x.shook = {}
    /\ server' = [S EXCEPT ![g] = x]
    /\ mode' = x.kind /\ current' = g /\ gen' = g /\ pending' = W
    /\ replaying' \in BOOLEAN /\ (Greeting(W) # <<>> => replaying')
    /\ restarts' \in 0 .. MaxLocalRestarts /\ UNCHANGED answers
    /\ x.kind = "remote" => g = 1 /\ restarts' = 0
    /\ x.kind = "local" => g <= 3 + 2 * restarts'

LEMMA NewServer ==
  ASSUME IInv, NEW W, NEW S, Handed(W, S), NEW g, NEW x, GoesTo(x, g, W, S)
  PROVE  IInv'
<1> DEFINE in == x.in
           k == x.kind
<1>0. /\ g \in Gens /\ g > gen /\ S[g].relay = "nothing"
      /\ x \in ServerType /\ k \in {"remote", "local"}
      /\ Opening(in, W) /\ x.out = <<>> /\ x.relay = "nothing" /\ x.shook = {}
      /\ server' = [S EXCEPT ![g] = x]
      /\ mode' = k /\ current' = g /\ gen' = g /\ pending' = W
      /\ replaying' \in BOOLEAN /\ (Greeting(W) # <<>> => replaying')
      /\ restarts' \in 0 .. MaxLocalRestarts /\ UNCHANGED answers
      /\ k = "remote" => g = 1 /\ restarts' = 0
      /\ k = "local" => g <= 3 + 2 * restarts'
      /\ x.in = in /\ x.kind = k
  BY DEF GoesTo
<1> HIDE DEF in, k
<1> USE <1>0
<1>1. /\ server' \in [Gens -> ServerType] /\ server'[g] = x
      /\ \A h \in Gens \ {g} : server'[h] = S[h]
  BY DEF Handed
<1>2. gen \in Nat /\ g \in Nat /\ g >= 1 /\ g # 0 /\ discard \in Nat /\ victim \in Nat
      /\ current \in Nat /\ current <= gen
  BY Generation DEF IInv, TypeOK, Counted
<1>3. handshake' \subseteq {"initialize", "initialized"}
  BY DEF Handed, Lines, Ids
<1>4. TypeOK'
  BY <1>1, <1>3 DEF Handed, IInv, TypeOK
<1>5. Counted'
  <2>1. discard' <= g /\ victim' <= g
    BY <1>2 DEF Handed, IInv, Counted
  <2>2. k \in {"remote", "local"} /\ k # "none" /\ k # "dead"
    OBVIOUS
  <2>3. g \in 1 .. 3 + 2 * restarts' \/ k # "local"
    BY Restarted
  <2> QED
    BY <2>1, <2>2, <2>3 DEF Counted
<1>6. Servers'
  <2>1. \A h \in Gens : h > g => h # g /\ h > gen
    BY <1>2, Generation
  <2>2. victim' # 0 => /\ victim \in Gens \ {g} /\ server[victim].kind = "remote"
                        /\ victim' = victim
    BY <1>2 DEF IInv, TypeOK, Counted, Servers, Handed
  <2>3. \A h \in Gens : S[h].kind = server[h].kind /\ (h > gen => S[h] = Absent)
    BY DEF Handed
  <2> QED
    BY <1>1, <2>1, <2>2, <2>3 DEF Servers
<1>7. Protocol'
  BY DEF Protocol, Handed
<1>8. /\ in \in Seq(Lines \cup {"replay"})
      /\ \A i \in DOMAIN in :
            /\ in[i] \in W \cup {"replay", "initialized"}
            /\ in[i] = "replay" => replaying'
            /\ in[i] = "initialized" => /\ "initialized" \in handshake'
                                        /\ i = 2 /\ in[1] = "replay"
            /\ in[i] \in Calls => i > 2 /\ in[2] = "initialized"
      /\ "initialize" \in handshake' =>
            \E i \in DOMAIN in : in[i] \in {"initialize", "replay"}
      /\ "initialized" \in handshake' => \E i \in DOMAIN in : in[i] = "initialized"
      /\ Distinct(in)
  BY DEF Opening
<1>9. server'[g].in = in /\ server'[g].out = <<>> /\ server'[g].shook = {}
      /\ server'[g].relay = "nothing"
  BY <1>1
<1>10. Speaking'
  <2>1. Unique(g)'
    BY <1>8, <1>9 DEF Unique, Distinct
  <2>2. On(g)' = {in[i] : i \in DOMAIN in}
    BY <1>9 DEF On
  <2>3. ToRead(g)' = {in[i] : i \in DOMAIN in}
    BY <1>9 DEF ToRead
  <2>4. Expected(g)'
    <3>1. On(g)' \cap Ids \subseteq pending'
      BY <1>8, <2>2, NoSuchId
    <3>2. "initialized" \in On(g)' => "initialized" \in sent'
      <4>1. "initialized" \in On(g)' => "initialized" \in handshake'
        BY <1>8, <2>2
      <4> QED
        BY <4>1 DEF Handed
    <3>3. "replay" \in On(g)' => replaying'
      BY <1>8, <2>2
    <3> QED
      BY <3>1, <3>2, <3>3 DEF Expected
  <2>5. Greeted(g)'
    BY <1>8, <2>3 DEF Greeted
  <2> QED
    BY <2>1, <2>4, <2>5 DEF Speaking
<1>11. ASSUME NEW q \in Ids PROVE Fate(q)'
  <2>1. \A h \in Gens : server'[h].relay = server[h].relay
    BY <1>1, <1>9 DEF Handed
  <2>2. Cardinality(Relays(q)') = Cardinality(Relays(q))
    BY <2>1, RelaysStay
  <2>3. lost' = lost
    BY DEF Handed
  <2>4. CASE q \in W
    BY <2>2, <2>3, <2>4, HandedFacts DEF Fate
  <2>5. CASE q \notin W
    BY <2>2, <2>3, <2>5, HandedFacts, FateStays DEF IInv
  <2> QED
    BY <2>4, <2>5
<1>12. ASSUME NEW h \in Gens PROVE First(h)'
  <2>1. CASE h = g
    <3> SUFFICES ASSUME NEW i \in DOMAIN in
                 PROVE  /\ in[i] \in Calls => "initialized" \in ReadBefore(g, i)'
                        /\ in[i] = "initialized" => "replay" \in ReadBefore(g, i)'
      BY <1>9, <2>1 DEF First
    <3>1. ReadBefore(g, i)' = {in[j] : j \in 1 .. i - 1}
      BY <1>9 DEF ReadBefore
    <3>2. i \in Nat /\ (i > 2 => 2 \in 1 .. i - 1) /\ (i = 2 => 1 \in 1 .. i - 1)
      BY <1>8
    <3> QED
      BY <1>8, <3>1, <3>2
  <2>2. CASE h # g
    <3>1. /\ server'[h].in = server[h].in /\ server'[h].shook = server[h].shook
          /\ server'[h].relay = server[h].relay
      BY <1>1, <2>2 DEF Handed
    <3>2. \A i : ReadBefore(h, i)' = ReadBefore(h, i)
      BY <3>1 DEF ReadBefore
    <3>3. First(h)
      BY DEF IInv
    <3> QED
      BY <3>1, <3>2, <3>3 DEF First
  <2> QED
    BY <2>1, <2>2
<1> QED
  BY <1>4, <1>5, <1>6, <1>7, <1>10, <1>11, <1>12 DEF IInv

\* There is no new server: the client gets an error for what waits.
LEMMA GivenUp ==
  ASSUME IInv, NEW W, NEW S, Handed(W, S), NEW g \in Gens, g >= gen,
         S[g].reader \in {"none", "done"}, GiveUp(g, W, S),
         restarts' \in 0 .. MaxLocalRestarts, g <= 4 + 2 * restarts'
  PROVE  IInv'
<1>1. /\ mode' = "dead" /\ current' = 0 /\ gen' = g /\ server' = S
      /\ pending' = {} /\ replaying' = replaying
      /\ answers' = [q \in Ids |-> IF q \in W THEN answers[q] + 1 ELSE answers[q]]
  BY DEF GiveUp, FailPending
<1>2. gen \in Nat /\ g \in Nat /\ g >= 1 /\ discard \in Nat /\ victim \in Nat
      /\ current \in Nat /\ current <= gen
  BY Generation DEF IInv, TypeOK, Counted
<1>3. handshake' \subseteq {"initialize", "initialized"}
  BY DEF Handed, Lines, Ids
<1>4. answers \in [Ids -> Nat]
  BY DEF IInv, TypeOK
<1>5. TypeOK'
  <2>1. answers' \in [Ids -> Nat]
    BY <1>1, <1>4
  <2> QED
    BY <1>1, <1>3, <2>1 DEF Handed, IInv, TypeOK
<1>6. Counted'
  <2>1. discard' <= g /\ victim' <= g
    BY <1>2 DEF Handed, IInv, Counted
  <2>2. g \in 1 .. 4 + 2 * restarts'
    BY Restarted
  <2> QED
    BY <1>1, <2>1, <2>2 DEF Counted
<1>7. Servers'
  <2>1. \A h \in Gens : h > g => h > gen
    BY <1>2, Generation
  <2>2. victim' # 0 => victim \in Gens /\ server[victim].kind = "remote" /\ victim' = victim
    BY DEF IInv, TypeOK, Servers, Handed
  <2>3. \A h \in Gens : S[h].kind = server[h].kind /\ (h > gen => S[h] = Absent)
    BY DEF Handed
  <2> QED
    BY <1>1, <2>1, <2>2, <2>3 DEF Servers
<1>8. Protocol'
  <2>1. answers'["initialize"] >= answers["initialize"]
        /\ answers["initialize"] \in Nat /\ answers'["initialize"] \in Nat
    BY <1>1, <1>4, NoSuchId
  <2> QED
    BY <2>1 DEF Protocol, Handed
<1>9. Speaking'
  BY <1>1 DEF Speaking
<1>10. ASSUME NEW q \in Ids PROVE Fate(q)'
  <2>1. Cardinality(Relays(q)') = Cardinality(Relays(q))
    BY <1>1, RelaysStay DEF Handed
  <2>2. lost' = lost
    BY DEF Handed
  <2>3. CASE q \in W
    BY <1>1, <2>1, <2>2, <2>3, HandedFacts DEF Fate
  <2>4. CASE q \notin W
    <3>1. answers'[q] = answers[q] /\ q \notin pending'
      BY <1>1, <1>4, <2>4
    <3> QED
      BY <2>1, <2>2, <2>4, <3>1, HandedFacts, FateStays DEF IInv
  <2> QED
    BY <2>3, <2>4
<1>11. ASSUME NEW h \in Gens PROVE First(h)'
  <2>1. /\ server'[h].in = server[h].in /\ server'[h].shook = server[h].shook
        /\ server'[h].relay = server[h].relay
    BY <1>1 DEF Handed
  <2>2. \A i : ReadBefore(h, i)' = ReadBefore(h, i)
    BY <2>1 DEF ReadBefore
  <2>3. First(h)
    BY DEF IInv
  <2> QED
    BY <2>1, <2>2, <2>3 DEF First
<1> QED
  BY <1>5, <1>6, <1>7, <1>8, <1>9, <1>10, <1>11 DEF IInv
-----------------------------------------------------------------------------
LEMMA NextGeneration ==
  ASSUME NEW r \in 0 .. MaxLocalRestarts, NEW g \in Nat, g >= 1, g + 1 <= 3 + 2 * r
  PROVE  g + 1 \in Gens /\ g + 1 <= 4 + 2 * r
<1>1. MaxLocalRestarts \in Nat /\ r \in Nat /\ r <= MaxLocalRestarts
  BY Constants
<1> QED
  BY <1>1 DEF Gens

LEMMA FailoverStep ==
  ASSUME IInv, NEW M \in {"remote", "local"}, NEW g \in Gens, NEW W, NEW S,
         Handed(W, S), ~closing, Failover(M, g, W, S),
         g >= gen, S[g].reader \in {"none", "done"},
         M = "remote" => restarts = 0 /\ g <= 2,
         M = "local" => g <= 4 + 2 * restarts
  PROVE  IInv'
<1>1. restarts \in 0 .. MaxLocalRestarts /\ g \in Nat /\ g >= 1 /\ gen \in Nat
  BY Generation DEF IInv, TypeOK
<1>2. CASE M = "local" /\ ~RestartsLeft
  <2>1. GiveUp(g, W, S) /\ restarts' = restarts
    BY <1>2 DEF Failover
  <2> QED
    BY <1>1, <1>2, <2>1, GivenUp
<1>3. CASE M = "remote" \/ RestartsLeft
  <2>1. /\ restarts' = IF M = "remote" THEN restarts ELSE restarts + 1
        /\ Respawn(g + 1, W, S) \/ GiveUp(g + 1, W, S)
    BY <1>3 DEF Failover
  <2>2. restarts' \in 0 .. MaxLocalRestarts /\ g + 1 <= 3 + 2 * restarts'
    <3>1. CASE M = "remote"
      BY <1>1, <2>1, <3>1
    <3>2. CASE M = "local"
      <4>1. restarts < MaxLocalRestarts /\ restarts' = restarts + 1
        BY <1>3, <2>1, <3>2 DEF RestartsLeft
      <4>2. restarts \in Nat /\ g <= 4 + 2 * restarts
        BY <1>1, <3>2, Constants
      <4> QED
        BY <1>1, <4>1, <4>2, Constants
    <3> QED
      BY <3>1, <3>2
  <2>3. PICK h \in Gens : h = g + 1
    BY <1>1, <2>2, NextGeneration
  <2>4. h > gen /\ h >= gen /\ h # 1 /\ S[h] = Absent
    <3>1. h > gen /\ h >= gen /\ h # 1
      BY <1>1, <2>3
    <3> QED
      BY <3>1 DEF Handed
  <2>5. h <= 3 + 2 * restarts' /\ h <= 4 + 2 * restarts'
    BY <1>1, <2>2, <2>3, NextGeneration
  <2>6. S[h].reader = "none" /\ S[h].relay = "nothing"
    BY <2>4 DEF Absent
  <2>7. CASE GiveUp(h, W, S)
    BY <2>2, <2>4, <2>5, <2>6, <2>7, GivenUp
  <2>8. CASE Respawn(h, W, S)
    <3>1. PICK lines \in Conversation(W) :
             \/ server' = [S EXCEPT ![h] = Started("local", lines)]
             \/ /\ Overfull(lines)
                /\ server' = [S EXCEPT ![h] =
                      [Started("local", SubSeq(lines, 1, QueueLimit))
                          EXCEPT !.up = FALSE]]
      BY <2>8 DEF Respawn
    <3>2. PICK in \in Seq(Lines \cup {"replay"}), up \in BOOLEAN :
             /\ server' = [S EXCEPT ![h] = [Started("local", in) EXCEPT !.up = up]]
             /\ Opening(in, W)
      <4>1. CASE server' = [S EXCEPT ![h] = Started("local", lines)]
        <5>1. [Started("local", lines) EXCEPT !.up = TRUE] = Started("local", lines)
          BY DEF Started, Absent
        <5>2. Opening(lines, W)
          BY OpeningHolds
        <5>3. lines \in Seq(Lines \cup {"replay"})
          BY <5>2 DEF Opening
        <5> QED
          BY <4>1, <5>1, <5>2, <5>3
      <4>2. CASE ~(server' = [S EXCEPT ![h] = Started("local", lines)])
        <5>1. Overfull(lines) /\ server' = [S EXCEPT ![h] =
                 [Started("local", SubSeq(lines, 1, QueueLimit)) EXCEPT !.up = FALSE]]
          BY <3>1, <4>2
        <5>2. Opening(SubSeq(lines, 1, QueueLimit), W)
          BY <5>1, OpeningHolds
        <5>3. SubSeq(lines, 1, QueueLimit) \in Seq(Lines \cup {"replay"})
          BY <5>2 DEF Opening
        <5> QED
          BY <5>1, <5>2, <5>3
      <4> QED
        BY <4>1, <4>2
    <3> DEFINE x == [Started("local", in) EXCEPT !.up = up]
    <3>3. x \in ServerType
      <4>1. "local" \in Kinds /\ "reading" \in Readers
            /\ <<>> \in Seq(Ids \cup {"replay"})
            /\ "nothing" \in Ids \cup {"nothing", "replay"}
            /\ {} \in SUBSET Greetings
        BY DEF Kinds, Readers
      <4> QED
        BY <4>1 DEF ServerType, Started, Absent
    <3>4. /\ x.kind = "local" /\ x.in = in /\ x.out = <<>>
          /\ x.relay = "nothing" /\ x.shook = {}
      BY DEF Started, Absent
    <3>5. server' = [S EXCEPT ![h] = x]
      BY <3>2
    <3> HIDE DEF x
    <3>6. /\ mode' = "local" /\ current' = h /\ gen' = h /\ pending' = W
          /\ replaying' = (replaying \/ Greeting(W) # <<>>) /\ UNCHANGED answers
      BY <2>8 DEF Respawn
    <3>7. replaying' \in BOOLEAN /\ (Greeting(W) # <<>> => replaying')
      BY <3>6 DEF IInv, TypeOK
    <3>8. GoesTo(x, h, W, S)
      BY <2>2, <2>4, <2>5, <2>6, <3>2, <3>3, <3>4, <3>5, <3>6, <3>7 DEF GoesTo
    <3> QED
      BY <3>8, NewServer
  <2> QED
    BY <2>1, <2>3, <2>7, <2>8
<1> QED
  BY <1>2, <1>3
\* start.
LEMMA StartStep ==
  ASSUME IInv, NEW kind \in {"remote", "local"}, Start(kind)
  PROVE  IInv'
<1>1. /\ mode = "none" /\ gen = 0 /\ restarts = 0 /\ sent = {} /\ ~closing /\ handshake = {}
      /\ UNCHANGED <<handshake, closing, discard, victim, faults, sent, lost>>
  BY DEF Start, IInv, Counted, Protocol
<1>2. pending = {}
  <2>1. \A q \in Ids : q \notin pending
    BY <1>1, FateFacts
  <2> QED
    BY <2>1 DEF IInv, TypeOK
<1>3. Handed({}, server)
  <2>1. \A h \in Gens : h > gen => server[h] = Absent
    BY DEF IInv, Servers
  <2> QED
    BY <1>1, <1>2, <2>1 DEF Handed, IInv, TypeOK
<1>4. 1 \in Gens /\ 1 > gen /\ 1 >= gen /\ server[1] = Absent
  <2>1. 1 \in Gens /\ 1 > gen /\ 1 >= gen
    BY <1>1, Constants, Generation
  <2> QED
    BY <2>1 DEF IInv, Servers
<1>5. CASE Failover(kind, 1, {}, server)
  <2>1. server[1].reader = "none"
    BY <1>4 DEF Absent
  <2>2. restarts = 0 /\ 1 <= 2 /\ 1 <= 4 + 2 * restarts
    BY <1>1
  <2> QED
    BY <1>1, <1>3, <1>4, <1>5, <2>1, <2>2, FailoverStep
<1>6. CASE ~Failover(kind, 1, {}, server)
  <2> DEFINE x == Started(kind, <<>>)
  <2>1. /\ mode' = kind /\ gen' = 1 /\ current' = 1 /\ server' = [server EXCEPT ![1] = x]
        /\ UNCHANGED <<restarts, pending, replaying, answers>>
    BY <1>6 DEF Start
  <2>2. /\ x.kind = kind /\ x.in = <<>> /\ x.out = <<>> /\ x.relay = "nothing"
        /\ x.shook = {}
    BY DEF Started, Absent
  <2>3. x \in ServerType
    <3>1. kind \in Kinds /\ "reading" \in Readers /\ {} \in SUBSET Greetings
          /\ <<>> \in Seq(Ids \cup {"replay"}) /\ <<>> \in Seq(Lines \cup {"replay"})
          /\ "nothing" \in Ids \cup {"nothing", "replay"}
      BY DEF Kinds, Readers
    <3> QED
      BY <3>1 DEF ServerType, Started, Absent
  <2> HIDE DEF x
  <2>4. Opening(x.in, {})
    <3>1. DOMAIN x.in = {} /\ x.in \in Seq(Lines \cup {"replay"})
      BY <2>2
    <3> QED
      BY <1>1, <3>1 DEF Opening, Distinct
  <2>5. Greeting({}) = <<>>
    BY <1>1 DEF Greeting
  <2>6. server[1].relay = "nothing"
    BY <1>4 DEF Absent
  <2>7. 1 <= 3 + 2 * restarts' /\ restarts' = 0 /\ restarts' \in 0 .. MaxLocalRestarts
    BY <1>1, <2>1 DEF IInv, TypeOK
  <2>8. replaying' \in BOOLEAN
    BY <2>1 DEF IInv, TypeOK
  <2>9. GoesTo(x, 1, {}, server)
    BY <1>2, <1>4, <2>1, <2>2, <2>3, <2>4, <2>5, <2>6, <2>7, <2>8 DEF GoesTo
  <2> QED
    BY <1>3, <2>9, NewServer
<1> QED
  BY <1>5, <1>6

\* on_client_line, when the current server refuses the line.
LEMMA RefusedStep ==
  ASSUME IInv, NEW line \in Lines, ClientLineRefused(line)
  PROVE  IInv'
<1>1. /\ Says(line) /\ current # 0 /\ handshake' = Remembered(line)
      /\ Failover(mode, gen + 1, Waiting(line), server)
      /\ discard' = current /\ sent' = sent \cup {line} /\ line \notin sent /\ ~closing
      /\ UNCHANGED <<closing, victim, faults, lost>>
  BY DEF ClientLineRefused, Says
<1>2. mode \in {"remote", "local"} /\ gen \in Gens
  BY <1>1 DEF IInv, TypeOK, Counted
<1>3. /\ mode = "remote" => restarts = 0 /\ gen + 1 <= 2
      /\ mode = "local" => gen + 1 <= 4 + 2 * restarts
  <2>1. gen \in Nat /\ restarts \in Nat
    BY <1>2, Constants, Generation DEF IInv, TypeOK
  <2>2. /\ mode = "remote" => restarts = 0 /\ gen = 1
        /\ mode = "local" => gen \in 1 .. 3 + 2 * restarts
    BY DEF IInv, Counted
  <2> QED
    BY <2>1, <2>2
<1>4. PICK g \in Gens : g = gen + 1 /\ g > gen /\ g >= gen
  <2>1. gen \in Nat /\ restarts \in 0 .. MaxLocalRestarts
    BY <1>2, Generation DEF IInv, TypeOK
  <2>2. gen + 1 <= 4 + 2 * restarts
    BY <1>2, <1>3, <2>1
  <2>3. gen + 1 >= 1 /\ gen + 1 <= 2 * MaxLocalRestarts + 4 /\ gen + 1 \in Nat
    BY <2>1, <2>2, Constants
  <2>4. gen + 1 \in Gens
    BY <2>3, Generation
  <2> QED
    BY <2>1, <2>4
<1>5. server[g] = Absent
  BY <1>4 DEF IInv, Servers
<1>6. Handed(Waiting(line), server)
  <2>1. \A h \in Gens : h > gen => server[h] = Absent
    BY DEF IInv, Servers
  <2>2. sent' \in SUBSET Lines /\ sent \subseteq sent' /\ Waiting(line) \in SUBSET Ids
    BY <1>1 DEF IInv, TypeOK, Waiting
  <2>3. handshake' = sent' \ Calls
    BY <1>1 DEF IInv, Protocol, Remembered
  <2>4. /\ sent' \cap Calls # {} => "initialized" \in sent'
        /\ "initialized" \in sent' => answers["initialize"] > 0
    BY <1>1 DEF IInv, Protocol, Says
  <2>5. \A q \in Ids :
           q \in Waiting(line) <=> q \in pending \/ (q \in sent' /\ q \notin sent)
    BY <1>1 DEF Waiting
  <2> QED
    BY <1>1, <2>1, <2>2, <2>3, <2>4, <2>5 DEF Handed, IInv, TypeOK
<1>7. server[g].reader = "none"
  BY <1>5 DEF Absent
<1> QED
  BY <1>1, <1>2, <1>3, <1>4, <1>6, <1>7, FailoverStep


\* on_backend_exit.
LEMMA ExitStep ==
  ASSUME IInv, NEW g \in Gens, BackendExit(g)
  PROVE  IInv'
<1> DEFINE x == [server[g] EXCEPT !.reader = "done"]
           S == [server EXCEPT ![g].reader = "done"]
<1>1. /\ server[g].reader = "stopped"
      /\ UNCHANGED <<handshake, closing, discard, victim, faults, sent, lost>>
      /\ server \in [Gens -> ServerType] /\ server[g] \in ServerType
  BY DEF BackendExit, IInv, TypeOK
<1>2. S = [server EXCEPT ![g] = x]
  BY <1>1
<1>3. /\ x \in ServerType /\ x.kind = server[g].kind /\ x.in = server[g].in
      /\ x.out = server[g].out /\ x.shook = server[g].shook
      /\ x.relay = server[g].relay /\ x.reader = "done"
  BY <1>1 DEF ServerType, Readers
<1>4. /\ ExitCounts(g) => Failover(mode, gen, pending, S)
      /\ ~ExitCounts(g) => /\ server' = S
                           /\ UNCHANGED <<mode, gen, current, restarts, pending,
                                          replaying, answers>>
  BY DEF BackendExit
<1> HIDE DEF x
<1>5. /\ S \in [Gens -> ServerType] /\ S[g] = x
      /\ \A h \in Gens \ {g} : S[h] = server[h]
  BY <1>1, <1>2, <1>3
<1> HIDE DEF S
<1>6. g <= gen
  <2>1. server[g] # Absent
    BY <1>1 DEF Absent
  <2>2. gen \in Nat /\ g \in Nat
    BY Generation DEF IInv, TypeOK
  <2> QED
    BY <2>1, <2>2 DEF IInv, Servers
<1>7. ASSUME server' = S,
             UNCHANGED <<mode, gen, current, restarts, pending, replaying, answers>>
      PROVE  IInv'
  <2>1. Alone(g)
    BY <1>1, <1>3, <1>5, <1>7 DEF Alone, IInv, TypeOK, Counted, client
  <2>2. mode = "dead" => server'[gen].reader \in {"none", "done"}
    BY <1>3, <1>5, <1>7 DEF IInv, TypeOK, Counted, Servers
  <2>3. /\ Unique(g) => Unique(g)'
        /\ Expected(g) => Expected(g)'
        /\ Greeted(g) => Greeted(g)'
    <3>1. /\ server'[g].in = server[g].in /\ server'[g].out = server[g].out
          /\ server'[g].shook = server[g].shook
      BY <1>3, <1>5, <1>7
    <3>2. Unique(g)' <=> Unique(g)
      BY <3>1 DEF Unique
    <3>3. On(g)' = On(g) /\ ToRead(g)' = ToRead(g)
      BY <3>1 DEF On, ToRead
    <3>4. UNCHANGED <<sent, pending, replaying, handshake>>
      BY <2>1 DEF Alone, client
    <3> QED
      BY <3>2, <3>3, <3>4 DEF Expected, Greeted
  <2>4. First(g)'
    <3>1. \A i : ReadBefore(g, i)' = ReadBefore(g, i)
      BY <1>3, <1>5, <1>7 DEF ReadBefore
    <3> QED
      BY <1>3, <1>5, <1>7, <3>1 DEF IInv, First
  <2> QED
    BY <1>6, <2>1, <2>2, <2>3, <2>4, AloneStep
<1>8. CASE ExitCounts(g) /\ ~closing
  <2>1. g = gen /\ Failover(mode, g, pending, S)
    BY <1>4, <1>8 DEF ExitCounts
  <2>2. mode \in {"remote", "local"}
    <3>1. server[gen].reader = "stopped" /\ gen # 0
      BY <1>1, <2>1, Generation
    <3> QED
      BY <3>1 DEF IInv, TypeOK, Counted, Servers
  <2>3. Handed(pending, S)
    <3>1. ASSUME NEW h \in Gens, h > gen PROVE S[h] = Absent
      <4>1. server[h] = Absent
        BY <3>1 DEF IInv, Servers
      <4>2. h # g
        BY <2>1, <3>1, Generation
      <4> QED
        BY <1>5, <4>1, <4>2
    <3>2. \A h \in Gens : /\ S[h].kind = server[h].kind /\ S[h].relay = server[h].relay
                          /\ S[h].in = server[h].in /\ S[h].shook = server[h].shook
      BY <1>3, <1>5
    <3> QED
      BY <1>1, <1>5, <3>1, <3>2 DEF Handed, IInv, TypeOK, Protocol
  <2>4. S[g].reader = "done" /\ g >= gen
    BY <1>3, <1>5, <2>1, Generation
  <2>5. /\ mode = "remote" => restarts = 0 /\ g <= 2
        /\ mode = "local" => g <= 4 + 2 * restarts
    <3>1. g \in Nat /\ restarts \in Nat
      BY Constants, Generation DEF IInv, TypeOK
    <3>2. /\ mode = "remote" => restarts = 0 /\ g = 1
          /\ mode = "local" => g \in 1 .. 3 + 2 * restarts
      BY <2>1 DEF IInv, Counted
    <3> QED
      BY <3>1, <3>2
  <2> QED
    BY <1>8, <2>1, <2>2, <2>3, <2>4, <2>5, FailoverStep
<1>9. CASE ExitCounts(g) /\ closing
  BY <1>4, <1>7, <1>9 DEF Failover
<1> QED
  BY <1>4, <1>7, <1>8, <1>9
-----------------------------------------------------------------------------
LEMMA IInvInit == Init => IInv
<1> SUFFICES ASSUME Init PROVE IInv
  OBVIOUS
<1>1. Absent \in ServerType
  <2>1. "none" \in Kinds /\ "none" \in Readers
        /\ "nothing" \in Ids \cup {"nothing", "replay"}
        /\ {} \in SUBSET Greetings
        /\ <<>> \in Seq(Ids \cup {"replay"}) /\ <<>> \in Seq(Lines \cup {"replay"})
    BY DEF Kinds, Readers
  <2> QED
    BY <2>1 DEF ServerType, Absent
<1>2. TypeOK
  <2>1. server \in [Gens -> ServerType] /\ answers \in [Ids -> Nat]
    BY <1>1 DEF Init
  <2>2. restarts \in 0 .. MaxLocalRestarts /\ faults \in 0 .. MaxFaults
    BY Constants DEF Init
  <2> QED
    BY <2>1, <2>2 DEF Init, TypeOK
<1>3. Counted /\ Servers /\ Protocol /\ Speaking
  BY DEF Init, Counted, Servers, Protocol, Speaking
<1>4. ASSUME NEW q \in Ids PROVE Fate(q)
  <2>1. Relays(q) = {}
    BY NoSuchId DEF Init, Relays, Absent
  <2>2. Cardinality(Relays(q)) = 0
    BY <2>1, FS_EmptySet
  <2> QED
    BY <2>2 DEF Init, Fate
<1>5. ASSUME NEW g \in Gens PROVE First(g)
  <2>1. server[g].relay = "nothing" /\ DOMAIN server[g].in = {}
    BY DEF Init, Absent
  <2> QED
    BY <2>1 DEF First
<1> QED
  BY <1>2, <1>3, <1>4, <1>5 DEF IInv

LEMMA IInvNext == IInv /\ [Next]_vars => IInv'
<1> SUFFICES ASSUME IInv, [Next]_vars PROVE IInv'
  OBVIOUS
<1>1. CASE \E kind \in {"remote", "local"} : Start(kind)
  BY <1>1, StartStep
<1>2. ASSUME NEW line \in Lines,
             ClientLine(line) \/ ClientLineRefused(line) \/ ClientLineDead(line)
      PROVE  IInv'
  BY <1>2, ClientLineStep, RefusedStep, ClientLineDeadStep
<1>3. CASE Discard \/ Close \/ Watchdog \/ Kill
  BY <1>3, DiscardStep, CloseStep, WatchdogStep, KillStep
<1>4. ASSUME NEW g \in Gens,
             Serve(g) \/ Dies(g) \/ Hangs(g) \/ Babbles(g) \/ Reader(g) \/ EmitFails(g)
      PROVE  IInv'
  BY <1>4, ServeStep, DiesStep, StopsStep, BackendLineStep, EmitStep, ExitStep,
     EmitFailsStep DEF Reader
<1>5. CASE UNCHANGED vars
  <2>1. UNCHANGED <<proxy, server, discard, victim, faults, client>>
    BY <1>5 DEF vars
  <2>2. TypeOK' /\ Counted' /\ Servers' /\ Protocol'
    BY <2>1 DEF IInv, TypeOK, Counted, Servers, Protocol, proxy, client
  <2>3. Speaking'
    BY <2>1 DEF IInv, Speaking, Unique, Expected, Greeted, On, ToRead, proxy, client
  <2>4. (\A q \in Ids : Fate(q)') /\ \A g \in Gens : First(g)'
    BY <2>1 DEF IInv, Fate, Relays, First, ReadBefore, proxy, client
  <2> QED
    BY <2>2, <2>3, <2>4 DEF IInv
<1> QED
  BY <1>1, <1>2, <1>3, <1>4, <1>5 DEF Next
-----------------------------------------------------------------------------
\* In every reachable state what waits, what is on its way and what the servers
\* have still to read fit together: the inductive invariant.
THEOREM ProxyInvariant == Spec => []IInv
BY IInvInit, IInvNext, PTL DEF Spec

\* Every variable has its shape and the generations of servers never run out,
\* for any number of restarts, faults and calls.
THEOREM ProxyTypeOK == Spec => []TypeOK
<1>1. IInv => TypeOK
  BY DEF IInv
<1> QED
  BY <1>1, ProxyInvariant, PTL

\* _failover and on_backend_line: each request that the client sent is in one
\* place, and has had at most one answer, whichever servers are lost and when.
THEOREM ProxyOneFate == Spec => []OneFate
<1>1. IInv => OneFate
  BY Parts DEF IInv
<1> QED
  BY <1>1, ProxyInvariant, PTL

\* The replayed handshake: a server reads initialize and initialized before any
\* call, and the client never sees the answer to the replay.
THEOREM ProxyHandshakeFirst == Spec => []HandshakeFirst
<1>1. IInv => HandshakeFirst
  BY Parts DEF IInv
<1> QED
  BY <1>1, ProxyInvariant, PTL

\* on_backend_exit and check_timeouts: a server is replaced only after it has
\* stopped or refused a line, and the watchdog kills a remote one only, however
\* late exits and kills come.
THEOREM ProxySparesHealthy == Spec => SparesHealthy
<1> DEFINE A == /\ current # 0 /\ current' # current => Refuses(current)
                /\ Kill => server[victim].kind = "remote"
<1>1. ASSUME IInv, [Next]_vars PROVE [A]_vars
  <2>1. CASE UNCHANGED vars
    BY <2>1
  <2>2. ASSUME Kill PROVE server[victim].kind = "remote"
    BY <1>1, <2>2 DEF IInv, Servers, Kill
  <2>3. ASSUME Next, current # 0, current' # current PROVE Refuses(current)
    <3>1. ASSUME NEW kind \in {"remote", "local"}, Start(kind) PROVE FALSE
      BY <1>1, <2>3, <3>1 DEF Start, IInv, Counted
    <3>2. ASSUME NEW line \in Lines,
                 ClientLine(line) \/ ClientLineRefused(line) \/ ClientLineDead(line)
          PROVE  Refuses(current)
      BY <2>3, <3>2 DEF ClientLine, ClientLineRefused, ClientLineDead
    <3>3. CASE Discard \/ Close \/ Watchdog \/ Kill
      BY <2>3, <3>3 DEF Discard, Close, Watchdog, Kill, proxy
    <3>4. ASSUME NEW g \in Gens,
                 Serve(g) \/ Dies(g) \/ Hangs(g) \/ Babbles(g) \/ Reader(g) \/ EmitFails(g)
          PROVE  Refuses(current)
      <4>1. CASE BackendExit(g)
        <5>1. ExitCounts(g) /\ server[g].reader = "stopped"
          BY <2>3, <4>1 DEF BackendExit
        <5>2. current = g
          BY <1>1, <2>3, <5>1 DEF IInv, Counted, ExitCounts
        <5> QED
          BY <5>1, <5>2 DEF Refuses
      <4> QED
        BY <2>3, <3>4, <4>1 DEF Serve, Dies, Hangs, Babbles, Reader, BackendLine,
           Emit, EndOfOutput, EmitFails, proxy
    <3> QED
      BY <2>3, <3>1, <3>2, <3>3, <3>4 DEF Next
  <2> QED
    BY <1>1, <2>1, <2>2, <2>3
<1> QED
  BY <1>1, ProxyInvariant, PTL DEF Spec, SparesHealthy
=============================================================================
