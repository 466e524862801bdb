---------------------------- MODULE FailoverProxy ---------------------------
(***************************************************************************)
(* napmem_mcp_failover.FailoverProxy: relays the requests of one MCP       *)
(* client to a remote server, and when that is lost to a local one, which  *)
(* it starts again a limited number of times.  A new server is given the   *)
(* client's handshake and every request that has no answer yet.            *)
(*                                                                         *)
(* Threads: the client's (on_client_line), one reader per server           *)
(* (on_backend_line, on_backend_exit) and the watchdog.  A step is what a  *)
(* thread does under the proxy's lock; what it does outside of the lock is *)
(* a step of its own.  A server reads its lines in order and answers them; *)
(* its writer thread and its pipe are one queue, in.  The client follows   *)
(* MCP: it initializes, waits, notifies, and then calls.  The rewriting of *)
(* answers (budgets, the note of a fallback) is left out.                  *)
(***************************************************************************)
EXTENDS Naturals, Sequences, FiniteSets

CONSTANTS Calls,             \* the requests after the handshake
          MaxLocalRestarts,  \* how often a local server is started again
          QueueLimit,        \* lines a server's queue takes
          MaxFaults          \* bound on what goes wrong

Ids == Calls \cup {"initialize"}

ASSUME ProxyConstants ==
    /\ {"initialize", "initialized", "replay", "nothing"} \cap Calls = {}
    /\ IsFiniteSet(Calls)
    /\ MaxLocalRestarts \in Nat /\ MaxFaults \in Nat
    /\ QueueLimit \in Nat /\ QueueLimit >= 2   \* the code's is 64: a handshake fits

\* A failed send counts the generation up twice, an exit once; the first server
\* may be a remote one.
Gens == 1 .. 2 * MaxLocalRestarts + 4

VARIABLES
    mode,       \* "none", "remote", "local" or "dead"
    gen,        \* the generation of the current server
    current,    \* self.backend: its generation, or 0 for None
    restarts,   \* local_restarts
    pending,    \* requests without an answer
    replaying,  \* the id of the replayed handshake is in replay_ids
    handshake,  \* what the client has sent of it: init_line, initialized_seen
    closing,    \* the client is gone
    server,     \* the servers by generation
    discard,    \* a server the client thread still has to close, or 0
    victim,     \* a server the watchdog is about to kill, or 0
    faults      \* faults so far

\* Bookkeeping for the properties: what the client has sent and received.
VARIABLES sent, answers, lost

proxy == <<mode, gen, current, restarts, pending, replaying, handshake, closing>>
client == <<sent, answers, lost>>
vars == <<proxy, server, discard, victim, faults, client>>

Absent == [kind |-> "none", up |-> FALSE, hung |-> FALSE, reader |-> "none",
           in |-> <<>>, out |-> <<>>, relay |-> "nothing", shook |-> {}]

\* A new server with these lines in its queue.
Started(kind, lines) ==
    [Absent EXCEPT !.kind = kind, !.up = TRUE, !.reader = "reading",
                   !.in = lines]

Init ==
    /\ mode = "none" /\ gen = 0 /\ current = 0 /\ restarts = 0
    /\ pending = {} /\ replaying = FALSE /\ handshake = {} /\ closing = FALSE
    /\ server = [g \in Gens |-> Absent]
    /\ discard = 0 /\ victim = 0 /\ faults = 0
    /\ sent = {} /\ answers = [q \in Ids |-> 0] /\ lost = {}

Fault == faults < MaxFaults /\ faults' = faults + 1
-----------------------------------------------------------------------------
\* _fail_pending: the client gets an error for each of these requests.
FailPending(waiting) ==
    /\ pending' = {}
    /\ answers' = [q \in Ids |-> IF q \in waiting THEN answers[q] + 1
                                 ELSE answers[q]]

\* The lines that open a conversation with a new server: the handshake, unless
\* the client's own is among the requests to resend, ...
Greeting(waiting) ==
    IF "initialize" \notin handshake' \/ "initialize" \in waiting THEN <<>>
    ELSE IF "initialized" \in handshake' THEN <<"replay", "initialized">>
    ELSE <<"replay">>

\* ... and the requests, in the order in which they came.  Mutant: before it.
Orders(waiting) ==
    {s \in [1 .. Cardinality(waiting) -> waiting] :
        \A i, j \in DOMAIN s : s[i] = s[j] => i = j}

CallsFirst(waiting) == {s \o Greeting(waiting) : s \in Orders(waiting)}

Conversation(waiting) == {Greeting(waiting) \o s : s \in Orders(waiting)}

\* A queue that is full refuses a line: what fits is sent, and the server is
\* killed so that its reader reports one exit.
Overfull(lines) == Len(lines) > QueueLimit

GiveUp(g, waiting, servers) ==
    /\ mode' = "dead" /\ current' = 0 /\ gen' = g
    /\ FailPending(waiting)
    /\ server' = servers
    /\ UNCHANGED replaying

\* _spawn("local") and what _failover sends to the new server.
Respawn(g, waiting, servers) ==
    /\ mode' = "local" /\ current' = g /\ gen' = g
    /\ pending' = waiting
    /\ replaying' = (replaying \/ Greeting(waiting) # <<>>)
    /\ \E lines \in Conversation(waiting) :
          \/ server' = [servers EXCEPT ![g] = Started("local", lines)]
          \/ /\ Overfull(lines)
             /\ server' = [servers EXCEPT ![g] =
                   [Started("local", SubSeq(lines, 1, QueueLimit))
                       EXCEPT !.up = FALSE]]
    /\ UNCHANGED answers

\* Mutant: one restart too many.
RestartsLeftLate == restarts <= MaxLocalRestarts

RestartsLeft == restarts < MaxLocalRestarts

\* _failover, under the lock: the server of generation g, which was a remote
\* or a local one, is lost, and these requests wait for an answer.
Failover(lost_mode, g, waiting, servers) ==
    IF closing
    THEN /\ gen' = g /\ pending' = waiting /\ server' = servers
         /\ UNCHANGED <<mode, current, restarts, replaying, answers>>
    ELSE IF lost_mode # "remote" /\ ~RestartsLeft
    THEN GiveUp(g, waiting, servers) /\ UNCHANGED restarts
    ELSE /\ restarts' = IF lost_mode = "remote" THEN restarts ELSE restarts + 1
         /\ Respawn(g + 1, waiting, servers) \/ GiveUp(g + 1, waiting, servers)

\* start: the remote server if the probe reached it, else the local one; a
\* server that cannot be started is lost at once.
Start(kind) ==
    /\ mode = "none"
    /\ UNCHANGED <<handshake, closing, discard, victim, faults, sent, lost>>
    /\ \/ /\ mode' = kind /\ gen' = 1 /\ current' = 1
          /\ server' = [server EXCEPT ![1] = Started(kind, <<>>)]
          /\ UNCHANGED <<restarts, pending, replaying, answers>>
       \/ Failover(kind, 1, {}, server)
-----------------------------------------------------------------------------
\* What the client says next: a line of the handshake, or a call.
Says(line) ==
    /\ mode # "none" /\ ~closing /\ discard = 0
    /\ line \notin sent
    /\ line = "initialized" => answers["initialize"] > 0
    /\ line \in Calls => "initialized" \in sent
    /\ sent' = sent \cup {line}

\* on_client_line remembers requests before it sends them, and the handshake
\* to replay it later.  Mutant: a request is remembered when it is answered.
Remembered(line) == handshake \cup ({line} \ Calls)
WaitingLate(line) == pending
Waiting(line) == pending \cup ({line} \cap Ids)

\* The current server takes the line.
ClientLine(line) ==
    /\ Says(line)
    /\ current # 0
    /\ server[current].reader = "reading"
    /\ handshake' = Remembered(line)
    /\ pending' = Waiting(line)
    /\ server' = [server EXCEPT ![current].in = Append(@, line)]
    /\ UNCHANGED <<mode, gen, current, restarts, replaying, closing, discard,
                   victim, faults, answers, lost>>

\* It refuses it: its reader has stopped, or its queue is full.  The client's
\* thread fails over itself, and closes the server afterwards.
Refuses(g) == server[g].reader # "reading" \/ Len(server[g].in) >= QueueLimit

ClientLineRefused(line) ==
    /\ Says(line)
    /\ current # 0
    /\ Refuses(current)
    /\ handshake' = Remembered(line)
    /\ Failover(mode, gen + 1, Waiting(line), server)
    /\ discard' = current
    /\ UNCHANGED <<closing, victim, faults, lost>>

\* There is no server any more.
ClientLineDead(line) ==
    /\ Says(line)
    /\ current = 0
    /\ handshake' = Remembered(line)
    /\ FailPending(Waiting(line))
    /\ UNCHANGED <<mode, gen, current, restarts, replaying, closing, server,
                   discard, victim, faults, lost>>

\* Backend._shutdown: the reader stops where it is and the process is reaped.
Shut(g) ==
    [server EXCEPT ![g].up = FALSE,
                   ![g].reader = IF @ = "reading" THEN "stopped" ELSE @]

Discard ==
    /\ discard # 0
    /\ server' = Shut(discard)
    /\ discard' = 0
    /\ UNCHANGED <<proxy, victim, faults, client>>

\* The client closes its end: close() ends the current server.
Close ==
    /\ mode # "none" /\ ~closing /\ discard = 0
    /\ closing' = TRUE
    /\ server' = IF current = 0 THEN server ELSE Shut(current)
    /\ UNCHANGED <<mode, gen, current, restarts, pending, replaying, handshake,
                   discard, victim, faults, client>>
-----------------------------------------------------------------------------
\* What NapMemMCPServer writes for a line: one answer to a request, whether it
\* fails or not, and none to a notification.
Replies(line) == IF line = "initialized" THEN <<>> ELSE <<line>>

\* The server's loop reads the next line and answers it before the one after it.
Serve(g) ==
    /\ server[g].up /\ ~server[g].hung
    /\ server[g].in # <<>>
    /\ LET line == Head(server[g].in) IN
       server' = [server EXCEPT
          ![g].in = Tail(@),
          ![g].shook = IF line \in Calls THEN @ ELSE @ \cup {line},
          ![g].out = @ \o Replies(line)]
    /\ UNCHANGED <<proxy, discard, victim, faults, client>>

\* A server dies, or its pipe breaks and its writer kills it; it stops
\* answering; it writes a line that is not JSON, which stops the reader.
Dies(g) ==
    /\ server[g].up
    /\ server' = [server EXCEPT ![g].up = FALSE]
    /\ Fault
    /\ UNCHANGED <<proxy, discard, victim, client>>

Hangs(g) ==
    /\ server[g].up /\ ~server[g].hung
    /\ server' = [server EXCEPT ![g].hung = TRUE]
    /\ Fault
    /\ UNCHANGED <<proxy, discard, victim, client>>

Babbles(g) ==
    /\ server[g].up /\ server[g].reader = "reading"
    /\ server[g].relay = "nothing"
    /\ server' = Shut(g)
    /\ Fault
    /\ UNCHANGED <<proxy, discard, victim, client>>

\* on_backend_line, under the lock: the line of a server that was replaced is
\* dropped, and so is the answer to the replayed handshake; a request that is
\* answered is not pending any more.  Mutant: old servers are listened to.
HeardAnyway(g) == TRUE

Heard(g) == g = gen

BackendLine(g) ==
    /\ server[g].reader = "reading"
    /\ server[g].relay = "nothing"
    /\ server[g].out # <<>>
    /\ LET line == Head(server[g].out)
           swallowed == line = "replay" /\ replaying
       IN
       /\ server' = [server EXCEPT
             ![g].out = Tail(@),
             ![g].relay = IF Heard(g) /\ ~swallowed THEN line ELSE @]
       /\ replaying' = (replaying /\ ~(Heard(g) /\ swallowed))
       /\ pending' = IF Heard(g) THEN pending \ {line} ELSE pending
    /\ UNCHANGED <<mode, gen, current, restarts, handshake, closing, discard,
                   victim, faults, client>>

\* _emit: the answer reaches the client, under the proxy's lock if it is one to
\* a tools/call and after it otherwise (a step of its own covers both) ...
Emit(g) ==
    /\ server[g].relay # "nothing"
    /\ answers' = [q \in Ids |-> IF q = server[g].relay THEN answers[q] + 1
                                 ELSE answers[q]]
    /\ server' = [server EXCEPT ![g].relay = "nothing"]
    /\ UNCHANGED <<proxy, discard, victim, faults, sent, lost>>

\* ... or cannot be written as a line of JSON: the exception ends the reader.
EmitFails(g) ==
    /\ server[g].relay # "nothing"
    /\ lost' = lost \cup {server[g].relay}
    /\ server' = [Shut(g) EXCEPT ![g].relay = "nothing"]
    /\ Fault
    /\ UNCHANGED <<proxy, discard, victim, sent, answers>>

\* The reader sees the end of a dead server's output.
EndOfOutput(g) ==
    /\ server[g].reader = "reading"
    /\ ~server[g].up
    /\ server[g].out = <<>> /\ server[g].relay = "nothing"
    /\ server' = Shut(g)
    /\ UNCHANGED <<proxy, discard, victim, faults, client>>

\* on_backend_exit, once per server: only the current one's exit counts.
\* Mutant: any exit does.
AnyExitCounts(g) == TRUE

ExitCounts(g) == g = gen

BackendExit(g) ==
    /\ server[g].reader = "stopped"
    /\ server[g].relay = "nothing"
    /\ UNCHANGED <<handshake, closing, discard, victim, faults, sent, lost>>
    /\ LET servers == [server EXCEPT ![g].reader = "done"] IN
       IF ExitCounts(g)
       THEN Failover(mode, gen, pending, servers)
       ELSE /\ server' = servers
            /\ UNCHANGED <<mode, gen, current, restarts, pending, replaying,
                           answers>>

\* The watchdog sees a request that is overdue at a remote server, and kills
\* that server after it has let go of the lock.
Watchdog ==
    /\ ~closing
    /\ victim = 0
    /\ mode = "remote" /\ pending # {} /\ current # 0
    /\ victim' = current
    /\ UNCHANGED <<proxy, server, discard, faults, client>>

Kill ==
    /\ victim # 0
    /\ server' = [server EXCEPT ![victim].up = FALSE]
    /\ victim' = 0
    /\ UNCHANGED <<proxy, discard, faults, client>>
-----------------------------------------------------------------------------
Lines == Ids \cup {"initialized"}

Reader(g) ==
    BackendLine(g) \/ Emit(g) \/ EndOfOutput(g) \/ BackendExit(g)

Next ==
    \/ \E kind \in {"remote", "local"} : Start(kind)
    \/ \E line \in Lines :
          ClientLine(line) \/ ClientLineRefused(line) \/ ClientLineDead(line)
    \/ Discard \/ Close
    \/ \E g \in Gens :
          \/ Serve(g) \/ Dies(g) \/ Hangs(g) \/ Babbles(g)
          \/ Reader(g) \/ EmitFails(g)
    \/ Watchdog \/ Kill

Spec == Init /\ [][Next]_vars

\* The proxy's threads run, and a server that has not hung reads its lines.
Fairness ==
    /\ WF_vars(Discard)
    /\ WF_vars(Watchdog) /\ WF_vars(Kill)
    /\ \A g \in Gens : WF_vars(Serve(g)) /\ WF_vars(Reader(g))

FairSpec == Spec /\ Fairness
-----------------------------------------------------------------------------
Kinds == {"none", "remote", "local"}
Readers == {"none", "reading", "stopped", "done"}
Greetings == {"initialize", "initialized", "replay"}

ServerType ==
    [kind : Kinds, up : BOOLEAN, hung : BOOLEAN, reader : Readers,
     in : Seq(Lines \cup {"replay"}), out : Seq(Ids \cup {"replay"}),
     relay : Ids \cup {"nothing", "replay"}, shook : SUBSET Greetings]

\* Every variable has its shape, and generations never run out.
TypeOK ==
    /\ mode \in {"none", "remote", "local", "dead"}
    /\ gen \in Gens \cup {0}
    /\ current \in Gens \cup {0}
    /\ restarts \in 0 .. MaxLocalRestarts
    /\ pending \subseteq Ids
    /\ replaying \in BOOLEAN
    /\ handshake \subseteq {"initialize", "initialized"}
    /\ closing \in BOOLEAN
    /\ server \in [Gens -> ServerType]
    /\ discard \in Gens \cup {0} /\ victim \in Gens \cup {0}
    /\ faults \in 0 .. MaxFaults
    /\ sent \subseteq Lines /\ lost \subseteq Ids
    /\ answers \in [Ids -> Nat]

\* Each request of the client is in one place: it waits, or its answer is on
\* the way through one reader, or it was answered once, or that answer could
\* not be written.  No failover loses a request or has it answered twice.
OneFate == \A q \in Ids :
    LET count(P) == IF P THEN 1 ELSE 0 IN
    count(q \in pending) + Cardinality({g \in Gens : server[g].relay = q})
        + answers[q] + count(q \in lost) = count(q \in sent)

\* What a server has read, or will have, when it reads its i-th line.
ReadBefore(g, i) == server[g].shook \cup {server[g].in[j] : j \in 1 .. i - 1}

\* A server reads the handshake before any call, whether it got the handshake
\* from the client, by a replay, or half by either; the client never sees the
\* answer to a replay.
HandshakeFirst ==
    \A g \in Gens :
       /\ server[g].relay # "replay"
       /\ \A i \in DOMAIN server[g].in :
             /\ server[g].in[i] \in Calls => "initialized" \in ReadBefore(g, i)
             /\ server[g].in[i] = "initialized" =>
                   ReadBefore(g, i) \cap {"initialize", "replay"} # {}

\* The proxy leaves a server that works alone: it replaces one that stopped or
\* refuses lines, and the watchdog kills none but a remote one, however late
\* the exits of earlier servers and the watchdog's kill come.
SparesHealthy ==
    [][/\ current # 0 /\ current' # current => Refuses(current)
       /\ Kill => server[victim].kind = "remote"]_vars

LocalHangs == current # 0 /\ server[current].kind = "local"
              /\ server[current].hung

\* The client gets an answer or an error to every request, whichever servers
\* die, babble, hang or cannot be started - unless the local one hangs, which
\* no timeout covers, or the answer cannot be written.
EveryRequestAnswered == \A q \in Ids :
    q \in sent ~> answers[q] > 0 \/ q \in lost \/ closing \/ LocalHangs

\* "Resend every in-flight request": one that has no answer is still pending
\* or on its way to the client.
NoRequestForgotten == \A q \in Ids \cap sent :
    \/ answers[q] > 0 \/ q \in pending \/ closing
    \/ \E g \in Gens : server[g].relay = q
=============================================================================
