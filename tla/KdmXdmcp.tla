------------------------------ MODULE KdmXdmcp ------------------------------
(***************************************************************************)
(* XDMCP as kdm speaks it: xdmcp.c's answers to the packets of X           *)
(* terminals, the proto-displays of protodpy.c, and the chooser of         *)
(* choose.c and access.c.  Packets overtake each other and may be lost;    *)
(* terminals send them again, give up, and are rebooted (and then use      *)
(* another port); the host of kdm may crash.                               *)
(*                                                                         *)
(* The display of a terminal, its session and the session's end are those  *)
(* of KdmMaster, here without anything that concerns local displays.       *)
(***************************************************************************)
EXTENDS Naturals, FiniteSets

CONSTANTS
    Terminal,    \* X terminals; a display's name is its terminal
    MaxPort,     \* bound: a terminal is rebooted MaxPort - 1 times
    MaxId,       \* bound: session ids that kdm hands out
    MaxNet,      \* bound: a terminal does not send again while it has so many packets under way
    Queries,     \* the kinds of query that terminals send
    Env          \* what may go wrong

Port == 1 .. MaxPort
Id   == 1 .. MaxId
NoId == 0
Addr == Terminal \X Port

EnvActions == {"lose", "giveUp", "reboot", "decline", "age",
               "forkFails", "openFails", "crash"}

ASSUME BoundsAssumption == MaxPort \in Nat \ {0} /\ MaxId \in Nat /\ MaxNet \in Nat
ASSUME KindsAssumption  == Queries \subseteq {"query", "indirect"} /\ Env \subseteq EnvActions

ToMaster   == {"query", "indirect", "request", "manage", "keepAlive"}
ToTerminal == {"willing", "forwarded", "accept", "decline", "refuse", "failed", "alive"}
Packet     == [op : ToMaster \cup ToTerminal, addr : Addr, id : Id \cup {NoId}]

VARIABLES
    terminal,   \* what each X server is doing, at which port, with which id
    net,        \* the packets that are under way
    proto,      \* protoDisplays: the session id offered to an address
    aged,       \* addresses whose proto-display is older than PROTO_TIMEOUT
    lastId,     \* globalSessionID
    display,    \* the transient displays on the master's list
    session,    \* the session processes, by their session id
    indirect,   \* indirectUsers
    choice,     \* choices: the host the user of a terminal has chosen
    chosen,     \* choices on their way to the chooser socket
    chooserNext,\* WaitForSomething has read the XDMCP socket, and is to read the chooser's
    crashed     \* the host has crashed (bound: once)

kdmVars  == <<proto, aged, lastId, display, indirect, choice, chooserNext>>
vars     == <<terminal, net, kdmVars, session, chosen, crashed>>

Hosts     == {"local", "other"}
NoDisplay == [id |-> NoId, port |-> 1, running |-> FALSE]
NoSession == [st |-> "none", chooser |-> FALSE, term |-> FALSE, failed |-> FALSE]

AddrOf(t)  == <<t, terminal[t].port>>
Listed(t)  == display[t].id # NoId
Alive(i)   == i \in Id /\ session[i].st \in {"opening", "open"}
InUse(t)   == terminal[t].st = "run" /\ session[terminal[t].id].st = "open"
-----------------------------------------------------------------------------
(* Packets *)

Pkt(op, a, i) == [op |-> op, addr |-> a, id |-> i]

\* m is received, and answered by the packets of reply
Reply(m, reply) == m \in net /\ net' = (net \ {m}) \cup reply

Send(ms) == net' = net \cup ms

Lose(m) ==
    /\ "lose" \in Env /\ m \in net
    /\ net' = net \ {m}
    /\ UNCHANGED <<terminal, kdmVars, session, chosen, crashed>>
-----------------------------------------------------------------------------
(* kdm: queries *)

\* all_query_respond for a QUERY: a WILLING, and the client is a direct one
RespondQuery(m) ==
    /\ m.op = "query"
    /\ Reply(m, {Pkt("willing", m.addr, NoId)})
    /\ indirect' = indirect \ {m.addr[1]}
    /\ UNCHANGED <<terminal, proto, aged, lastId, display, choice, session>>

\* indirect_respond, for a client with a CHOOSER entry: it is forwarded to the
\* host that was chosen, or answered here.
RespondIndirect(m) ==
    /\ m.op = "indirect"
    /\ \/ /\ choice[m.addr[1]] = "other"
          /\ Reply(m, {Pkt("forwarded", m.addr, NoId)})
          /\ UNCHANGED indirect
       \/ /\ choice[m.addr[1]] # "other"
          /\ Reply(m, {Pkt("willing", m.addr, NoId)})
          /\ indirect' = indirect \cup {m.addr[1]}
    /\ UNCHANGED <<terminal, proto, aged, lastId, display, choice, session>>
-----------------------------------------------------------------------------
(* kdm: requests *)

\* NewProtoDisplay, with TimeoutProtoDisplays
NewProtoDisplay(a, i) ==
    /\ proto' = [b \in Addr |-> IF b = a THEN i ELSE IF b \in aged THEN NoId ELSE proto[b]]
    /\ aged' = {}

\* request_respond, of an address that has a proto-display already
AcceptAgain(m) ==
    /\ m.op = "request" /\ proto[m.addr] # NoId
    /\ Reply(m, {Pkt("accept", m.addr, proto[m.addr])})
    /\ UNCHANGED <<terminal, proto, aged, lastId, display, indirect, choice, session>>

\* request_respond: the manager considers this a new session
AcceptNew(m) ==
    /\ m.op = "request" /\ proto[m.addr] = NoId /\ lastId < MaxId
    /\ lastId' = lastId + 1
    /\ NewProtoDisplay(m.addr, lastId')
    /\ Reply(m, {Pkt("accept", m.addr, lastId')})
    /\ UNCHANGED <<terminal, display, indirect, choice, session>>

\* request_respond, of a terminal that is not welcome, or has no valid
\* address, authorization or authentication: the proto-display, be it new, is
\* disposed of.  (Bound: MaxId ids are given out.)
Decline(m) ==
    /\ m.op = "request" /\ ("decline" \in Env \/ lastId = MaxId)
    /\ Reply(m, {Pkt("decline", m.addr, NoId)})
    /\ \/ /\ proto[m.addr] # NoId
          /\ proto' = [proto EXCEPT ![m.addr] = NoId] /\ aged' = aged \ {m.addr}
          /\ UNCHANGED lastId
       \/ UNCHANGED <<proto, aged, lastId>>
       \/ /\ proto[m.addr] = NoId /\ lastId < MaxId
          /\ lastId' = lastId + 1
          /\ NewProtoDisplay(m.addr, NoId)
    /\ UNCHANGED <<terminal, display, indirect, choice, session>>

ProtoAges(a) ==
    /\ "age" \in Env /\ proto[a] # NoId /\ a \notin aged
    /\ aged' = aged \cup {a}
    /\ UNCHANGED <<terminal, net, proto, lastId, display, session, indirect, choice, chosen, chooserNext, crashed>>
-----------------------------------------------------------------------------
(* kdm: manage *)

\* UseChooser: the client sent an IndirectQuery, and has not chosen a host
UseChooser(t) == t \in indirect /\ choice[t] = "none"

\* FindDisplayByAddress finds a display with the session id of m
Duplicate(m) ==
    LET t == m.addr[1]
    IN  proto[m.addr] = NoId /\ Listed(t) /\ display[t].port = m.addr[2] /\ display[t].id = m.id

\* Mutants: the session id of the packet is not compared; a proto-display is
\* not asked for; it is kept; the old display is not stopped.
MatchesAny(m) == proto[m.addr] # NoId
MatchesUnoffered(m) == proto[m.addr] \in {m.id, NoId}
DisposeNot(m) == proto

Matches(m) == proto[m.addr] = m.id /\ m.id # NoId
Disposed(m) == [proto EXCEPT ![m.addr] = NoId]

\* StopDisplay of the terminal's display: SIGTERM to its session
StoppedNot(t) == session
Stopped(t) ==
    LET old == display[t].id
    IN  [i \in Id |-> IF i = old /\ display[t].running /\ Alive(i)
                     THEN [session[i] EXCEPT !.term = TRUE] ELSE session[i]]

\* The display of that name is stopped, a new one replaces it and
\* StartDisplay forks its session.
Manage(m) ==
    LET t == m.addr[1]
        i == proto[m.addr]
    IN  /\ m.op = "manage" /\ Matches(m)
        /\ Reply(m, {})
        /\ \E forked \in IF "forkFails" \in Env THEN BOOLEAN ELSE {TRUE} :
              /\ display' = [display EXCEPT ![t] = [id |-> i, port |-> m.addr[2], running |-> forked]]
              /\ session' = IF forked
                            THEN [Stopped(t) EXCEPT
                                     ![i] = [NoSession EXCEPT !.st = "opening", !.chooser = UseChooser(t)]]
                            ELSE Stopped(t)
        /\ indirect' = indirect \ {t}
        /\ proto' = Disposed(m) /\ aged' = aged \ {m.addr}
        /\ UNCHANGED <<terminal, lastId, choice>>

ManageDuplicate(m) ==
    /\ m.op = "manage" /\ Duplicate(m)
    /\ Reply(m, {})
    /\ UNCHANGED <<terminal, proto, aged, lastId, display, indirect, choice, session>>

ManageRefused(m) ==
    /\ m.op = "manage" /\ ~Matches(m) /\ ~Duplicate(m)
    /\ Reply(m, {Pkt("refuse", m.addr, m.id)})
    /\ UNCHANGED <<terminal, proto, aged, lastId, display, indirect, choice, session>>

\* Mutant: the terminal is told the session id that it asked about.
AliveEchoed(m) == m.id

\* sendSessionID: of the display with that session id, else of the display at
\* that address, if it is running.
AliveId(m) ==
    LET byId  == {t \in Terminal : display[t].id = m.id}
        found == IF byId # {} THEN byId ELSE {t \in Terminal : <<t, display[t].port>> = m.addr}
    IN  IF \E t \in found : display[t].running
        THEN display[CHOOSE t \in found : display[t].running].id ELSE NoId

SendAlive(m) ==
    /\ m.op = "keepAlive"
    /\ Reply(m, {Pkt("alive", m.addr, AliveId(m))})
    /\ UNCHANGED <<terminal, proto, aged, lastId, display, indirect, choice, session>>
-----------------------------------------------------------------------------
(* kdm: the chooser, and children that end *)

\* ProcessChooserSocket
RegisterIndirectChoice(t, host) ==
    /\ <<t, host>> \in chosen
    /\ chosen' = chosen \ {<<t, host>>} /\ chooserNext' = FALSE
    /\ choice' = [choice EXCEPT ![t] = host]
    /\ UNCHANGED <<terminal, net, proto, aged, lastId, display, session, indirect, crashed>>

\* choiceTimeout seconds have passed
ChoiceTimeout(t) ==
    /\ choice[t] # "none"
    /\ choice' = [choice EXCEPT ![t] = "none"]
    /\ UNCHANGED <<terminal, net, proto, aged, lastId, display, session, indirect, chosen, chooserNext, crashed>>

\* Mutant: the display is to be restarted, as those of the file are.
RemovedRetried(i) ==
    [t \in Terminal |-> IF display[t].id = i THEN [display[t] EXCEPT !.running = FALSE] ELSE display[t]]

\* FindDisplayByPid, and StopDisplay of a transient display
Removed(i) ==
    [t \in Terminal |-> IF display[t].id = i /\ display[t].running THEN NoDisplay ELSE display[t]]

\* WaitForChild: a display whose session could not be opened is told so.
WaitForChild(i) ==
    /\ session[i].st = "dead" /\ ~chooserNext
    /\ session' = [session EXCEPT ![i].st = "gone"]
    /\ display' = Removed(i)
    /\ Send({Pkt("failed", <<t, display[t].port>>, i) :
               t \in {u \in Terminal : session[i].failed /\ display[u].id = i}})
    /\ UNCHANGED <<terminal, proto, aged, lastId, indirect, choice, chosen, chooserNext, crashed>>
-----------------------------------------------------------------------------
(* Sessions *)

\* WaitForServer: the terminal that waits for session i lets it connect.
Open(i, t) ==
    /\ session[i].st = "opening"
    /\ terminal[t].st = "manage" /\ terminal[t].id = i
    /\ session' = [session EXCEPT ![i].st = "open"]
    /\ terminal' = [terminal EXCEPT ![t].st = "run"]
    /\ UNCHANGED <<net, kdmVars, chosen, crashed>>

\* WaitForServer gives up (OPENFAILED_DISPLAY), or SIGTERM ends the process.
OpenFails(i) ==
    /\ session[i].st = "opening"
    /\ \/ session[i].term \/ "openFails" \in Env
       \/ \A t \in Terminal : ~(terminal[t].st = "manage" /\ terminal[t].id = i)
    /\ session' = [session EXCEPT ![i].st = "dead", ![i].failed = ~session[i].term]
    /\ UNCHANGED <<terminal, net, kdmVars, chosen, crashed>>

Resets(i) ==
    [t \in Terminal |-> IF terminal[t].st = "run" /\ terminal[t].id = i
                       THEN [terminal[t] EXCEPT !.st = "query", !.id = NoId] ELSE terminal[t]]

\* The session ends, and closes its connection: the X server resets.
SessionEnds(i) ==
    /\ session[i].st = "open"
    /\ session' = [session EXCEPT ![i].st = "dead"]
    /\ terminal' = Resets(i)
    /\ UNCHANGED <<net, kdmVars, chosen, crashed>>

\* RunChooser: the user chooses a host; the chooser program sends the choice to
\* kdm's socket and ends (chooser.cpp:1044-1083).
Choose(i, t, host) ==
    /\ session[i].st = "open" /\ session[i].chooser
    /\ terminal[t].st = "run" /\ terminal[t].id = i
    /\ session' = [session EXCEPT ![i].st = "dead"]
    /\ terminal' = Resets(i)
    /\ chosen' = chosen \cup {<<t, host>>}
    /\ UNCHANGED <<net, kdmVars, crashed>>

\* The host of kdm fails and is booted again: terminals are not told.
Crash ==
    /\ "crash" \in Env /\ ~crashed
    /\ crashed' = TRUE
    /\ proto' = [a \in Addr |-> NoId] /\ aged' = {}
    /\ display' = [t \in Terminal |-> NoDisplay]
    /\ session' = [i \in Id |-> IF session[i].st = "none" THEN NoSession
                                 ELSE [session[i] EXCEPT !.st = "gone"]]
    /\ indirect' = {} /\ choice' = [t \in Terminal |-> "none"] /\ chosen' = {}
    /\ chooserNext' = FALSE
    /\ UNCHANGED <<terminal, net, lastId>>
-----------------------------------------------------------------------------
(* Terminals: not in the repository, as xdmcp.c expects them to be *)

Becomes(t, st, i) == terminal' = [terminal EXCEPT ![t].st = st, ![t].id = i]

\* A query, and the packets it sends again until they are answered
Ask(t) ==
    LET m == CASE terminal[t].st = "request" -> Pkt("request", AddrOf(t), NoId)
               [] terminal[t].st = "manage"  -> Pkt("manage", AddrOf(t), terminal[t].id)
               [] OTHER -> Pkt("keepAlive", AddrOf(t), terminal[t].id)
    IN  /\ \/ terminal[t].st = "query" /\ \E q \in Queries : Send({Pkt(q, AddrOf(t), NoId)})
           \/ terminal[t].st \in {"request", "manage", "run"} /\ Send({m})
        /\ net' # net /\ Cardinality({p \in net : p.addr[1] = t}) < MaxNet
        /\ UNCHANGED <<terminal, kdmVars, session, chosen, crashed>>

GetWilling(t, m) ==
    /\ m.op = "willing" /\ terminal[t].st = "query" /\ m.addr = AddrOf(t)
    /\ Becomes(t, "request", NoId)
    /\ Reply(m, {Pkt("request", AddrOf(t), NoId)})
    /\ UNCHANGED <<kdmVars, session, chosen, crashed>>

\* The chosen host manages the terminal, for a while.
GetForwarded(t, m) ==
    /\ m.op = "forwarded" /\ terminal[t].st = "query" /\ m.addr = AddrOf(t)
    /\ Becomes(t, "elsewhere", NoId)
    /\ Reply(m, {})
    /\ UNCHANGED <<kdmVars, session, chosen, crashed>>

ReturnsFrom(t) ==
    /\ terminal[t].st = "elsewhere"
    /\ Becomes(t, "query", NoId)
    /\ UNCHANGED <<net, kdmVars, session, chosen, crashed>>

GetAccept(t, m) ==
    /\ m.op = "accept" /\ terminal[t].st = "request" /\ m.addr = AddrOf(t)
    /\ Becomes(t, "manage", m.id)
    /\ Reply(m, {Pkt("manage", AddrOf(t), m.id)})
    /\ UNCHANGED <<kdmVars, session, chosen, crashed>>

\* DECLINE, and REFUSE or FAILED of the session it waits for: from the start
GetNo(t, m) ==
    /\ m.addr = AddrOf(t)
    /\ \/ m.op = "decline" /\ terminal[t].st = "request"
       \/ m.op \in {"refuse", "failed"} /\ terminal[t].st = "manage" /\ m.id = terminal[t].id
    /\ Becomes(t, "query", NoId)
    /\ Reply(m, {})
    /\ UNCHANGED <<kdmVars, session, chosen, crashed>>

\* Packets that a terminal does not expect are thrown away.
Discard(t, m) ==
    /\ m.addr[1] = t /\ m.op \in ToTerminal
    /\ \/ m.addr # AddrOf(t)
       \/ m.op \in {"willing", "forwarded"} /\ terminal[t].st # "query"
       \/ m.op \in {"accept", "decline"} /\ terminal[t].st # "request"
       \/ m.op \in {"refuse", "failed"} /\ (terminal[t].st # "manage" \/ m.id # terminal[t].id)
       \/ m.op = "alive" /\ (terminal[t].st # "run" \/ m.id = terminal[t].id)
    /\ Reply(m, {})
    /\ UNCHANGED <<terminal, kdmVars, session, chosen, crashed>>

\* ALIVE of no session, or of another one: the X server resets, which ends
\* the connections it has.
GetAlive(t, m) ==
    /\ m.op = "alive" /\ terminal[t].st = "run" /\ m.addr = AddrOf(t) /\ m.id # terminal[t].id
    /\ Becomes(t, "query", NoId)
    /\ Reply(m, {})
    /\ UNCHANGED <<kdmVars, session, chosen, crashed>>

GiveUp(t) ==
    /\ "giveUp" \in Env /\ terminal[t].st \in {"request", "manage"}
    /\ Becomes(t, "query", NoId)
    /\ UNCHANGED <<net, kdmVars, session, chosen, crashed>>

Reboot(t) ==
    /\ "reboot" \in Env /\ terminal[t].port < MaxPort
    /\ terminal' = [terminal EXCEPT ![t] = [st |-> "query", port |-> @.port + 1, id |-> NoId]]
    /\ UNCHANGED <<net, kdmVars, session, chosen, crashed>>
-----------------------------------------------------------------------------
Init ==
    /\ terminal = [t \in Terminal |-> [st |-> "query", port |-> 1, id |-> NoId]]
    /\ net = {}
    /\ proto = [a \in Addr |-> NoId] /\ aged = {} /\ lastId = 0
    /\ display = [t \in Terminal |-> NoDisplay]
    /\ session = [i \in Id |-> NoSession]
    /\ indirect = {} /\ choice = [t \in Terminal |-> "none"] /\ chosen = {}
    /\ chooserNext = FALSE /\ crashed = FALSE

\* One packet of the XDMCP socket.  select has found the chooser socket ready
\* too when a choice was under way: that one is read after the packet.
ProcessRequestSocket(m) ==
    /\ ~chooserNext /\ chooserNext' = (chosen # {})
    /\ UNCHANGED <<chosen, crashed>>
    /\ \/ RespondQuery(m) \/ RespondIndirect(m)
       \/ AcceptAgain(m) \/ AcceptNew(m) \/ Decline(m)
       \/ Manage(m) \/ ManageDuplicate(m) \/ ManageRefused(m)
       \/ SendAlive(m)

Receive(t, m) ==
    \/ GetWilling(t, m) \/ GetForwarded(t, m) \/ GetAccept(t, m) \/ GetNo(t, m)
    \/ GetAlive(t, m) \/ Discard(t, m)

Next ==
    \/ \E m \in net : ProcessRequestSocket(m) \/ Lose(m)
    \/ \E t \in Terminal, m \in net : Receive(t, m)
    \/ \E t \in Terminal : Ask(t) \/ ReturnsFrom(t) \/ GiveUp(t) \/ Reboot(t) \/ ChoiceTimeout(t)
    \/ \E t \in Terminal, host \in Hosts : RegisterIndirectChoice(t, host)
    \/ \E a \in Addr : ProtoAges(a)
    \/ \E i \in Id : WaitForChild(i) \/ OpenFails(i) \/ SessionEnds(i)
    \/ \E i \in Id, t \in Terminal : Open(i, t)
    \/ \E i \in Id, t \in Terminal, host \in Hosts : Choose(i, t, host)
    \/ Crash

Spec == Init /\ [][Next]_vars
-----------------------------------------------------------------------------
(* Types *)

\* Every variable has its type.
TypeOK ==
    /\ terminal \in [Terminal -> [st : {"query", "request", "manage", "run", "elsewhere"},
                                  port : Port, id : Id \cup {NoId}]]
    /\ net \subseteq Packet
    /\ proto \in [Addr -> Id \cup {NoId}] /\ aged \subseteq Addr
    /\ lastId \in 0 .. MaxId
    /\ display \in [Terminal -> {NoDisplay} \cup [id : Id, port : Port, running : BOOLEAN]]
    /\ session \in [Id -> [st : {"none", "opening", "open", "dead", "gone"}, chooser : BOOLEAN,
                           term : BOOLEAN, failed : BOOLEAN]]
    /\ indirect \subseteq Terminal
    /\ choice \in [Terminal -> {"none", "local", "other"}]
    /\ chosen \subseteq Terminal \X {"local", "other"}
    /\ chooserNext \in BOOLEAN /\ crashed \in BOOLEAN
-----------------------------------------------------------------------------
(* Safety *)

\* A session id stands for one session: it is offered to one address, or it
\* has been managed, and then it is nobody's offer (xdmcp.c:825, 1107).
IdsManagedOnce ==
    \A a \in Addr : proto[a] # NoId =>
        /\ session[proto[a]].st = "none" /\ proto[a] <= lastId
        /\ \A b \in Addr : proto[b] = proto[a] => b = a
        /\ \A t \in Terminal : display[t].id # proto[a]

\* A terminal has one session: every other one that is alive has been told to
\* end, whatever MANAGE is repeated or comes late (xdmcp.c:1032-1041).
OneSession ==
    \A i \in Id : Alive(i) /\ ~session[i].term =>
        \E t \in Terminal : display[t].id = i /\ display[t].running

\* No late or repeated packet ends the session that its terminal is using: a
\* duplicate MANAGE is ignored, one of an earlier offer is refused
\* (xdmcp.c:1004-1041).  Not so for a terminal that was rebooted and has an
\* offer at another port, which a late MANAGE can still take; nor for one that
\* gives up a handshake and later gets both answers (no GiveUp in this run).
SessionInUseKept ==
    [][\A t \in Terminal :
          InUse(t) /\ (\A p \in Port \ {terminal[t].port} : proto[<<t, p>>] = NoId)
          => (session'[terminal[t].id].term => session[terminal[t].id].term)]_vars
-----------------------------------------------------------------------------
(* Liveness *)

\* The network does not lose every copy of a packet that is sent for ever, X
\* servers send theirs until they are answered, and processes run.
Fairness ==
    /\ WF_vars(\E t \in Terminal, host \in Hosts : RegisterIndirectChoice(t, host))
    /\ WF_vars(\E i \in Id : WaitForChild(i))
    /\ WF_vars(\E i \in Id : OpenFails(i))
    /\ WF_vars(\E i \in Id, t \in Terminal : Open(i, t))
    /\ \A t \in Terminal : /\ SF_vars(\E m \in net : m.addr[1] = t /\ ProcessRequestSocket(m))
                           /\ SF_vars(\E m \in net : Receive(t, m))
                           /\ WF_vars(Ask(t))

FairSpec == Spec /\ Fairness

\* A terminal that asks to be managed gets its session, or is told that it
\* does not: it never waits for ever (xdmcp.c:1014-1024, 1115, dm.c:488-493).
\* Nothing is said of which host it comes to, nor of a fork that fails.
ManageAnswered == \A t \in Terminal : terminal[t].st = "manage" ~> terminal[t].st # "manage"

\* A terminal whose session died with the host finds out by KEEPALIVE
\* (xdmcp.c:1164-1204).
DeadSessionNoticed ==
    \A t \in Terminal : terminal[t].st = "run" /\ ~InUse(t) ~> terminal[t].st # "run"
=============================================================================
