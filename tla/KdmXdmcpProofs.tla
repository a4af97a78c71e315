--------------------------- MODULE KdmXdmcpProofs ---------------------------
(***************************************************************************)
(* What kdm keeps in its dealings with X terminals, for every set of       *)
(* terminals, every number of ids, ports and packets, and everything that  *)
(* may go wrong: packets in any order and any number of times, terminals   *)
(* that give up or are rebooted, and a crash of the host.  That the        *)
(* session in use is kept is shown for terminals that do not give up.      *)
(***************************************************************************)
EXTENDS KdmXdmcp, TLAPS

State == {"query", "request", "manage", "run", "elsewhere"}

LEMMA PktType ==
  ASSUME NEW op \in ToMaster \cup ToTerminal, NEW a \in Addr, NEW i \in Id \cup {NoId}
  PROVE  Pkt(op, a, i) \in Packet
  BY DEF Pkt, Packet

LEMMA PacketParts ==
  ASSUME NEW m \in Packet
  PROVE  /\ m.op \in ToMaster \cup ToTerminal /\ m.addr \in Addr /\ m.id \in Id \cup {NoId}
         /\ m.addr[1] \in Terminal /\ m.addr[2] \in Port /\ m.addr = <<m.addr[1], m.addr[2]>>
  BY DEF Packet, Addr

LEMMA IdFacts == /\ Id \subseteq Nat /\ NoId \notin Id /\ 1 \in Port /\ Port \subseteq Nat
                 /\ 0 \in 0 .. MaxId
                 /\ \A i \in 0 .. MaxId : i < MaxId => i + 1 \in Id /\ i + 1 \in 0 .. MaxId
  BY BoundsAssumption DEF Id, NoId, Port

\* The types of what the network and the terminals hold, and of the rest.
NetOK      == net \subseteq Packet
TerminalOK == terminal \in [Terminal -> [st : State, port : Port, id : Id \cup {NoId}]]
SessionOK  == session \in [Id -> [st : {"none", "opening", "open", "dead", "gone"},
                                  chooser : BOOLEAN, term : BOOLEAN, failed : BOOLEAN]]
DisplayOK  == display \in [Terminal -> {NoDisplay} \cup [id : Id, port : Port, running : BOOLEAN]]
OfferOK    == proto \in [Addr -> Id \cup {NoId}] /\ aged \subseteq Addr /\ lastId \in 0 .. MaxId
ChooserOK  == /\ indirect \subseteq Terminal
              /\ choice \in [Terminal -> {"none", "local", "other"}]
              /\ chosen \subseteq Terminal \X {"local", "other"}
              /\ chooserNext \in BOOLEAN /\ crashed \in BOOLEAN

LEMMA TypeParts == TypeOK <=> NetOK /\ TerminalOK /\ SessionOK /\ DisplayOK /\ OfferOK /\ ChooserOK
  BY DEF TypeOK, NetOK, TerminalOK, State, SessionOK, DisplayOK, OfferOK, ChooserOK

LEMMA ReplyType ==
  ASSUME NetOK, NEW m, NEW reply \in SUBSET Packet, Reply(m, reply)
  PROVE  NetOK'
  BY DEF NetOK, Reply

LEMMA DisplayParts ==
  ASSUME DisplayOK, NEW t \in Terminal
  PROVE  /\ display[t].id \in Id \cup {NoId} /\ display[t].port \in Port
         /\ display[t].running \in BOOLEAN
         /\ display[t].running => display[t].id \in Id
  <1>1. CASE display[t] = NoDisplay
    <2>1. NoDisplay.id = NoId /\ NoDisplay.port = 1 /\ NoDisplay.running = FALSE
      BY DEF NoDisplay
    <2> QED
      BY <1>1, <2>1, IdFacts
  <1>2. CASE display[t] \in [id : Id, port : Port, running : BOOLEAN]
    BY <1>2
  <1> QED
    BY <1>1, <1>2 DEF DisplayOK

LEMMA TypeInit == Init => TypeOK
  <1> SUFFICES ASSUME Init PROVE TypeOK
    OBVIOUS
  <1>1. TerminalOK
    BY IdFacts DEF Init, TerminalOK, State
  <1>2. SessionOK
    BY DEF Init, SessionOK, NoSession
  <1>3. DisplayOK
    BY DEF Init, DisplayOK
  <1>4. OfferOK
    BY IdFacts DEF Init, OfferOK
  <1>5. NetOK /\ ChooserOK
    BY DEF Init, NetOK, ChooserOK
  <1> QED
    BY <1>1, <1>2, <1>3, <1>4, <1>5, TypeParts
-----------------------------------------------------------------------------
(* The master's handlers *)

LEMMA QueryType ==
  ASSUME TypeOK, NEW m \in net, ProcessRequestSocket(m),
         \/ RespondQuery(m) \/ RespondIndirect(m) \/ AcceptAgain(m)
         \/ ManageDuplicate(m) \/ ManageRefused(m) \/ SendAlive(m)
  PROVE  TypeOK'
  <1>1. m \in Packet /\ m.addr \in Addr /\ m.addr[1] \in Terminal /\ m.id \in Id \cup {NoId}
    BY PacketParts DEF TypeOK
  <1>2. chooserNext' \in BOOLEAN /\ chosen' = chosen /\ crashed' = crashed
    BY DEF ProcessRequestSocket
  <1>3. AliveId(m) \in Id \cup {NoId}
    <2>1. CASE \E t \in Terminal : /\ t \in IF {u \in Terminal : display[u].id = m.id} # {}
                                            THEN {u \in Terminal : display[u].id = m.id}
                                            ELSE {u \in Terminal : <<u, display[u].port>> = m.addr}
                                   /\ display[t].running
      BY <2>1, DisplayParts, TypeParts DEF AliveId
    <2>2. CASE ~\E t \in Terminal : /\ t \in IF {u \in Terminal : display[u].id = m.id} # {}
                                             THEN {u \in Terminal : display[u].id = m.id}
                                             ELSE {u \in Terminal : <<u, display[u].port>> = m.addr}
                                    /\ display[t].running
      BY <2>2 DEF AliveId
    <2> QED
      BY <2>1, <2>2
  <1>4. \A op \in ToTerminal, i \in Id \cup {NoId} : {Pkt(op, m.addr, i)} \subseteq Packet
    BY <1>1, PktType
  <1>5. proto[m.addr] \in Id \cup {NoId}
    BY <1>1 DEF TypeOK
  <1>6. NetOK'
    <2>1. NetOK
      BY TypeParts
    <2>2. CASE RespondQuery(m) \/ RespondIndirect(m)
      BY <1>4, <2>1, <2>2, ReplyType DEF RespondQuery, RespondIndirect, ToTerminal
    <2>3. CASE AcceptAgain(m) \/ ManageRefused(m) \/ SendAlive(m)
      BY <1>1, <1>3, <1>4, <1>5, <2>1, <2>3, ReplyType DEF AcceptAgain, ManageRefused, SendAlive, ToTerminal
    <2>4. CASE ManageDuplicate(m)
      BY <2>1, <2>4, ReplyType DEF ManageDuplicate
    <2> QED
      BY <2>2, <2>3, <2>4
  <1>7. /\ UNCHANGED <<terminal, proto, aged, lastId, display, choice, session>>
        /\ indirect' \subseteq Terminal
    BY <1>1 DEF RespondQuery, RespondIndirect, AcceptAgain, ManageDuplicate, ManageRefused, SendAlive, TypeOK
  <1> QED
    BY <1>2, <1>6, <1>7 DEF TypeOK, NetOK

LEMMA RequestType ==
  ASSUME TypeOK, NEW m \in net, ProcessRequestSocket(m), AcceptNew(m) \/ Decline(m)
  PROVE  TypeOK'
  <1>1. m \in Packet /\ m.addr \in Addr
    BY PacketParts DEF TypeOK
  <1>2. chooserNext' \in BOOLEAN /\ chosen' = chosen /\ crashed' = crashed
    BY DEF ProcessRequestSocket
  <1>3. lastId < MaxId => lastId + 1 \in Id /\ lastId + 1 \in 0 .. MaxId
    BY IdFacts DEF TypeOK
  <1>4. OfferOK'
    BY <1>1, <1>3, IdFacts DEF AcceptNew, Decline, NewProtoDisplay, TypeOK, OfferOK
  <1>5. NetOK'
    <2>1. {Pkt("decline", m.addr, NoId)} \subseteq Packet
      BY <1>1, PktType DEF ToTerminal
    <2>2. lastId + 1 \in Id => {Pkt("accept", m.addr, lastId + 1)} \subseteq Packet
      BY <1>1, PktType DEF ToTerminal
    <2> QED
      BY <1>3, <2>1, <2>2, ReplyType, TypeParts DEF AcceptNew, Decline
  <1>6. UNCHANGED <<terminal, display, indirect, choice, session>>
    BY DEF AcceptNew, Decline
  <1> QED
    BY <1>2, <1>4, <1>5, <1>6 DEF TypeOK, NetOK, OfferOK

\* What manage() does to the sessions: they keep their states.
LEMMA StoppedType ==
  ASSUME SessionOK, NEW t \in Terminal
  PROVE  /\ Stopped(t) \in [Id -> [st : {"none", "opening", "open", "dead", "gone"},
                                   chooser : BOOLEAN, term : BOOLEAN, failed : BOOLEAN]]
         /\ \A i \in Id : Stopped(t)[i].st = session[i].st
         /\ \A i \in Id : ~Stopped(t)[i].term => Stopped(t)[i] = session[i]
         /\ \A i \in Id : i = display[t].id /\ display[t].running /\ Alive(i) => Stopped(t)[i].term
  BY DEF Stopped, SessionOK

LEMMA ManageType ==
  ASSUME TypeOK, NEW m \in net, ProcessRequestSocket(m), Manage(m)
  PROVE  TypeOK'
  <1>1. m.addr \in Addr /\ m.addr[1] \in Terminal /\ m.addr[2] \in Port /\ m.id \in Id \cup {NoId}
    BY PacketParts DEF TypeOK
  <1>2. chooserNext' \in BOOLEAN /\ chosen' = chosen /\ crashed' = crashed
    BY DEF ProcessRequestSocket
  <1>3. proto[m.addr] \in Id
    BY <1>1 DEF Manage, Matches, TypeOK
  <1>4. DisplayOK'
    <2>1. PICK forked \in BOOLEAN :
            display' = [display EXCEPT ![m.addr[1]] = [id |-> proto[m.addr], port |-> m.addr[2],
                                                       running |-> forked]]
      BY DEF Manage
    <2>2. [id |-> proto[m.addr], port |-> m.addr[2], running |-> forked]
            \in [id : Id, port : Port, running : BOOLEAN]
      BY <1>1, <1>3
    <2> QED
      BY <2>1, <2>2 DEF TypeOK, DisplayOK
  <1>5. SessionOK'
    <2>1. Stopped(m.addr[1]) \in [Id -> [st : {"none", "opening", "open", "dead", "gone"},
                                         chooser : BOOLEAN, term : BOOLEAN, failed : BOOLEAN]]
      BY <1>1, StoppedType, TypeParts
    <2>2. [NoSession EXCEPT !.st = "opening", !.chooser = UseChooser(m.addr[1])]
            \in [st : {"none", "opening", "open", "dead", "gone"},
                 chooser : BOOLEAN, term : BOOLEAN, failed : BOOLEAN]
      BY DEF NoSession, UseChooser
    <2>3. \/ session' = Stopped(m.addr[1])
          \/ session' = [Stopped(m.addr[1]) EXCEPT
               ![proto[m.addr]] = [NoSession EXCEPT !.st = "opening", !.chooser = UseChooser(m.addr[1])]]
      BY DEF Manage
    <2> QED
      BY <2>1, <2>2, <2>3, <1>3 DEF SessionOK
  <1>6. NetOK'
    BY ReplyType, TypeParts DEF Manage
  <1>7. OfferOK'
    BY <1>1 DEF Manage, Disposed, OfferOK, TypeOK
  <1>8. indirect' \subseteq Terminal /\ UNCHANGED <<terminal, choice>>
    BY DEF Manage, TypeOK
  <1> QED
    BY <1>2, <1>4, <1>5, <1>6, <1>7, <1>8 DEF TypeOK, DisplayOK, SessionOK, NetOK, OfferOK
-----------------------------------------------------------------------------
(* The chooser's socket, children, sessions, terminals and the network *)

LEMMA MasterType ==
  ASSUME TypeOK,
         \/ \E a \in Addr : ProtoAges(a)
         \/ \E t \in Terminal : ChoiceTimeout(t)
         \/ \E t \in Terminal, host \in Hosts : RegisterIndirectChoice(t, host)
         \/ \E i \in Id : WaitForChild(i)
         \/ Crash
  PROVE  TypeOK'
  <1>1. ASSUME NEW a \in Addr, ProtoAges(a) PROVE TypeOK'
    BY <1>1 DEF ProtoAges, TypeOK
  <1>2. ASSUME NEW t \in Terminal, ChoiceTimeout(t) PROVE TypeOK'
    BY <1>2 DEF ChoiceTimeout, TypeOK
  <1>3. ASSUME NEW t \in Terminal, NEW host \in Hosts, RegisterIndirectChoice(t, host) PROVE TypeOK'
    BY <1>3 DEF RegisterIndirectChoice, Hosts, TypeOK
  <1>4. ASSUME NEW i \in Id, WaitForChild(i) PROVE TypeOK'
    <2>1. SessionOK'
      BY <1>4 DEF WaitForChild, TypeOK, SessionOK
    <2>2. DisplayOK'
      BY <1>4 DEF WaitForChild, Removed, TypeOK, DisplayOK
    <2>3. \A t \in Terminal : Pkt("failed", <<t, display[t].port>>, i) \in Packet
      BY PktType, DisplayParts, TypeParts DEF Addr, ToTerminal
    <2>4. NetOK'
      <3>1. PICK T \in SUBSET Terminal :
              net' = net \cup {Pkt("failed", <<t, display[t].port>>, i) : t \in T}
        BY <1>4 DEF WaitForChild, Send
      <3> QED
        BY ZenonT(60), <2>3, <3>1 DEF TypeOK, NetOK
    <2> QED
      BY <1>4, <2>1, <2>2, <2>4 DEF WaitForChild, TypeOK, SessionOK, DisplayOK, NetOK
  <1>5. CASE Crash
    <2>1. SessionOK'
      BY <1>5 DEF Crash, NoSession, TypeOK, SessionOK
    <2> QED
      BY <1>5, <2>1 DEF Crash, TypeOK, SessionOK
  <1> QED
    BY <1>1, <1>2, <1>3, <1>4, <1>5

LEMMA SessionType ==
  ASSUME TypeOK, NEW i \in Id,
         \/ OpenFails(i) \/ SessionEnds(i)
         \/ \E t \in Terminal : Open(i, t)
         \/ \E t \in Terminal, host \in Hosts : Choose(i, t, host)
  PROVE  TypeOK'
  <1>1. Resets(i) \in [Terminal -> [st : State, port : Port, id : Id \cup {NoId}]]
    <2>1. ASSUME NEW t \in Terminal
          PROVE  [terminal[t] EXCEPT !.st = "query", !.id = NoId]
                   \in [st : State, port : Port, id : Id \cup {NoId}]
      <3>1. terminal[t] \in [st : State, port : Port, id : Id \cup {NoId}]
        BY TypeParts DEF TerminalOK
      <3> QED
        BY <3>1 DEF State
    <2> QED
      BY <2>1, TypeParts DEF Resets, TerminalOK
  <1>2. CASE OpenFails(i)
    BY ZenonT(60), <1>2 DEF OpenFails, kdmVars, TypeOK
  <1>3. CASE SessionEnds(i)
    BY <1>1, <1>3 DEF SessionEnds, kdmVars, State, TypeOK
  <1>4. ASSUME NEW t \in Terminal, Open(i, t) PROVE TypeOK'
    BY SMTT(40), <1>4 DEF Open, kdmVars, TypeOK
  <1>5. ASSUME NEW t \in Terminal, NEW host \in Hosts, Choose(i, t, host) PROVE TypeOK'
    BY SMTT(40), <1>1, <1>5 DEF Choose, Hosts, kdmVars, State, TypeOK
  <1> QED
    BY <1>2, <1>3, <1>4, <1>5

LEMMA BecomesType ==
  ASSUME TerminalOK, NEW t \in Terminal, NEW st \in State, NEW i \in Id \cup {NoId}, Becomes(t, st, i)
  PROVE  TerminalOK'
  BY DEF TerminalOK, Becomes

LEMMA TerminalType ==
  ASSUME TypeOK, NEW t \in Terminal,
         \/ Ask(t) \/ ReturnsFrom(t) \/ GiveUp(t) \/ Reboot(t)
         \/ \E m \in net : Receive(t, m)
  PROVE  TypeOK'
  <1>1. AddrOf(t) \in Addr /\ terminal[t].id \in Id \cup {NoId} /\ TerminalOK /\ NetOK
    BY TypeParts DEF AddrOf, Addr, TerminalOK
  <1>2. \A op \in ToMaster, i \in Id \cup {NoId} : Pkt(op, AddrOf(t), i) \in Packet
    BY <1>1, PktType
  <1>3. NoId \in Id \cup {NoId}
    OBVIOUS
  <1>4. CASE Ask(t)
    <2>1. \A q \in Queries : Pkt(q, AddrOf(t), NoId) \in Packet
      BY <1>2, KindsAssumption DEF ToMaster
    <2>2. /\ Pkt("request", AddrOf(t), NoId) \in Packet
          /\ Pkt("manage", AddrOf(t), terminal[t].id) \in Packet
          /\ Pkt("keepAlive", AddrOf(t), terminal[t].id) \in Packet
      BY <1>1, <1>2, <1>3 DEF ToMaster
    <2>3. PICK p \in Packet : net' = net \cup {p}
      BY <1>4, <2>1, <2>2 DEF Ask, Send
    <2>4. net' \subseteq Packet
      BY <1>1, <2>3 DEF NetOK
    <2> QED
      BY <1>4, <2>4 DEF Ask, kdmVars, TypeOK
  <1>5. CASE ReturnsFrom(t) \/ GiveUp(t)
    <2>1. TerminalOK'
      BY <1>1, <1>5, BecomesType DEF ReturnsFrom, GiveUp, State
    <2> QED
      BY <1>5, <2>1 DEF ReturnsFrom, GiveUp, kdmVars, TypeOK, TerminalOK, State
  <1>6. CASE Reboot(t)
    <2>1. terminal[t].port + 1 \in Port
      BY <1>1, <1>6, BoundsAssumption DEF Reboot, TerminalOK, Port
    <2>2. TerminalOK'
      <3>1. [st |-> "query", port |-> terminal[t].port + 1, id |-> NoId]
              \in [st : State, port : Port, id : Id \cup {NoId}]
        BY <2>1 DEF State
      <3>2. terminal' = [terminal EXCEPT ![t] = [st |-> "query", port |-> terminal[t].port + 1,
                                                 id |-> NoId]]
        BY <1>1, <1>6 DEF Reboot, TerminalOK
      <3> QED
        BY <1>1, <3>1, <3>2 DEF TerminalOK
    <2> QED
      BY <1>6, <2>2 DEF Reboot, kdmVars, TypeOK, TerminalOK, State
  <1>7. ASSUME NEW m \in net, Receive(t, m) PROVE TypeOK'
    <2>1. m.id \in Id \cup {NoId}
      BY PacketParts, TypeParts DEF NetOK
    <2>2. UNCHANGED <<kdmVars, session, chosen, crashed>>
      BY <1>7 DEF Receive, GetWilling, GetForwarded, GetAccept, GetNo, GetAlive, Discard
    <2>3. TerminalOK'
      <3>1. CASE Discard(t, m)
        BY <1>1, <3>1 DEF Discard, TerminalOK
      <3>2. CASE GetWilling(t, m) \/ GetForwarded(t, m) \/ GetAccept(t, m) \/ GetNo(t, m) \/ GetAlive(t, m)
        BY <1>1, <2>1, <3>2, BecomesType
        DEF GetWilling, GetForwarded, GetAccept, GetNo, GetAlive, State
      <3> QED
        BY <1>7, <3>1, <3>2 DEF Receive
    <2>4. NetOK'
      <3>1. \/ Reply(m, {})
            \/ Reply(m, {Pkt("request", AddrOf(t), NoId)})
            \/ Reply(m, {Pkt("manage", AddrOf(t), m.id)})
        BY <1>7 DEF Receive, GetWilling, GetForwarded, GetAccept, GetNo, GetAlive, Discard
      <3>2. /\ {Pkt("request", AddrOf(t), NoId)} \subseteq Packet
            /\ {Pkt("manage", AddrOf(t), m.id)} \subseteq Packet
        BY <1>2, <1>3, <2>1 DEF ToMaster
      <3> QED
        BY <1>1, <3>1, <3>2, ReplyType
    <2> QED
      BY <2>2, <2>3, <2>4 DEF kdmVars, TypeOK, TerminalOK, NetOK, State
  <1> QED
    BY <1>4, <1>5, <1>6, <1>7

LEMMA TypeStep == TypeOK /\ [Next]_vars => TypeOK'
  <1> SUFFICES ASSUME TypeOK, [Next]_vars PROVE TypeOK'
    OBVIOUS
  <1>1. ASSUME NEW m \in net, ProcessRequestSocket(m) PROVE TypeOK'
    BY <1>1, QueryType, RequestType, ManageType DEF ProcessRequestSocket
  <1>2. ASSUME NEW m \in net, Lose(m) PROVE TypeOK'
    BY <1>2 DEF Lose, kdmVars, TypeOK
  <1>3. CASE UNCHANGED vars
    BY <1>3 DEF vars, kdmVars, TypeOK
  <1>4. CASE Next
    BY <1>1, <1>2, <1>4, MasterType, SessionType, TerminalType DEF Next
  <1> QED
    BY <1>3, <1>4

\* Every packet, record and id has its type, for any terminals and bounds: in
\* particular, no handler makes an id that was not handed out.
THEOREM XdmcpTypeCorrect == Spec => []TypeOK
  BY TypeInit, TypeStep, PTL DEF Spec
-----------------------------------------------------------------------------
(* Session ids *)

\* Ids that have not been handed out have no session and no display.
FreshInv == /\ \A i \in Id : i > lastId => session[i].st = "none"
            /\ \A t \in Terminal : display[t].id <= lastId

IdInv == IdsManagedOnce /\ FreshInv

\* A step that hands out no id keeps IdInv when it makes no session of an
\* offered or a fresh id, and no display of one.
LEMMA IdKept ==
  ASSUME TypeOK, IdInv, lastId' = lastId,
         \A a \in Addr : proto'[a] \in {proto[a], NoId},
         \A i \in Id : session[i].st = "none" => session'[i].st = "none",
         \A t \in Terminal : display'[t].id \in {display[t].id, NoId}
  PROVE  IdInv'
  <1>1. \A a \in Addr : proto'[a] # NoId =>
          /\ proto'[a] = proto[a] /\ proto[a] \in Id
          /\ session'[proto'[a]].st = "none" /\ proto'[a] <= lastId'
          /\ \A b \in Addr : proto'[b] = proto'[a] => b = a
          /\ \A t \in Terminal : display'[t].id # proto'[a]
    <2> SUFFICES ASSUME NEW a \in Addr, proto'[a] # NoId
                 PROVE  /\ proto'[a] = proto[a] /\ proto[a] \in Id
                        /\ session'[proto'[a]].st = "none" /\ proto'[a] <= lastId'
                        /\ \A b \in Addr : proto'[b] = proto'[a] => b = a
                        /\ \A t \in Terminal : display'[t].id # proto'[a]
      OBVIOUS
    <2>1. proto'[a] = proto[a] /\ proto[a] # NoId /\ proto[a] \in Id
      BY DEF TypeOK
    <2>2. /\ session[proto[a]].st = "none" /\ proto[a] <= lastId
          /\ \A b \in Addr : proto[b] = proto[a] => b = a
          /\ \A t \in Terminal : display[t].id # proto[a]
      BY <2>1 DEF IdInv, IdsManagedOnce
    <2> QED
      BY <2>1, <2>2
  <1>2. NoId <= lastId
    BY IdFacts DEF TypeOK, NoId
  <1> QED
    BY <1>1, <1>2 DEF IdInv, IdsManagedOnce, FreshInv

LEMMA OfferKept ==
  ASSUME TypeOK, IdInv, NEW m \in net, AcceptNew(m) \/ Decline(m)
  PROVE  IdInv'
  <1>1. m.addr \in Addr
    BY PacketParts DEF TypeOK
  <1>2. UNCHANGED <<display, session>>
    BY DEF AcceptNew, Decline
  <1>3. CASE lastId' = lastId /\ \A a \in Addr : proto'[a] \in {proto[a], NoId}
    BY <1>2, <1>3, IdKept
  <1>4. CASE /\ lastId < MaxId /\ lastId' = lastId + 1
             /\ \A a \in Addr \ {m.addr} : proto'[a] \in {proto[a], NoId}
             /\ proto'[m.addr] \in {lastId', NoId}
    <2>1. lastId \in Nat /\ lastId' \in Id /\ NoId < lastId'
      BY <1>4, IdFacts DEF TypeOK, NoId
    <2>2. \A a \in Addr : proto[a] # NoId => proto[a] \in Id /\ proto[a] <= lastId /\ proto[a] # lastId'
      BY <1>4, <2>1, IdFacts DEF IdInv, IdsManagedOnce, TypeOK
    <2>3. session[lastId'].st = "none" /\ \A t \in Terminal : display[t].id # lastId'
      BY <1>4, <2>1, DisplayParts, TypeParts, IdFacts DEF IdInv, FreshInv
    <2>4. IdsManagedOnce'
      <3> SUFFICES ASSUME NEW a \in Addr, proto'[a] # NoId
                   PROVE  /\ session[proto'[a]].st = "none" /\ proto'[a] <= lastId'
                          /\ \A b \in Addr : proto'[b] = proto'[a] => b = a
                          /\ \A t \in Terminal : display[t].id # proto'[a]
        BY <1>2 DEF IdsManagedOnce
      <3>1. CASE a = m.addr
        BY <1>4, <2>1, <2>2, <2>3, <3>1
      <3>2. CASE a # m.addr
        <4>1. proto'[a] = proto[a] /\ proto[a] \in Id /\ proto[a] <= lastId /\ proto[a] # lastId'
          BY <1>4, <2>2, <3>2
        <4>2. /\ session[proto[a]].st = "none"
              /\ \A b \in Addr : proto[b] = proto[a] => b = a
              /\ \A t \in Terminal : display[t].id # proto[a]
          BY <4>1 DEF IdInv, IdsManagedOnce
        <4>3. proto[a] \in Nat
          BY <4>1, IdFacts
        <4>4. proto[a] <= lastId'
          BY <1>4, <2>1, <4>1, <4>3
        <4> QED
          BY <1>4, <4>1, <4>2, <4>4
      <3> QED
        BY <3>1, <3>2
    <2>5. FreshInv'
      <3>1. \A i \in Id : i \in Nat /\ (i > lastId' => i > lastId)
        BY <1>4, <2>1, IdFacts
      <3>2. ASSUME NEW t \in Terminal PROVE display[t].id <= lastId'
        <4>1. display[t].id \in Nat
          <5>1. display[t].id \in Id \cup {NoId}
            BY DisplayParts, TypeParts
          <5>2. Id \cup {NoId} \subseteq Nat
            BY IdFacts DEF NoId
          <5> QED
            BY <5>1, <5>2
        <4>2. display[t].id <= lastId
          BY DEF IdInv, FreshInv
        <4> QED
          BY <1>4, <2>1, <4>1, <4>2
      <3> QED
        BY <1>2, <3>1, <3>2 DEF IdInv, FreshInv
    <2> QED
      BY <2>4, <2>5 DEF IdInv
  <1> QED
    BY <1>1, <1>3, <1>4 DEF AcceptNew, Decline, NewProtoDisplay, TypeOK

LEMMA ManageKept ==
  ASSUME TypeOK, IdInv, NEW m \in net, Manage(m)
  PROVE  IdInv'
  <1> DEFINE i == proto[m.addr]
             t == m.addr[1]
  <1>1. m.addr \in Addr /\ t \in Terminal /\ i \in Id
    BY PacketParts DEF Manage, Matches, TypeOK
  <1>2. /\ lastId' = lastId
        /\ proto' = [proto EXCEPT ![m.addr] = NoId]
    BY DEF Manage, Disposed
  <1>3. \A u \in Terminal : display'[u].id = IF u = t THEN i ELSE display[u].id
    BY <1>1 DEF Manage, TypeOK
  <1>4. \A j \in Id \ {i} : session'[j].st = session[j].st
    BY <1>1, StoppedType, TypeParts DEF Manage
  <1>5. /\ i <= lastId /\ i # NoId
        /\ \A b \in Addr : proto[b] = i => b = m.addr
    BY <1>1, IdFacts DEF IdInv, IdsManagedOnce
  <1>6. IdsManagedOnce'
    <2> SUFFICES ASSUME NEW a \in Addr, proto'[a] # NoId
                 PROVE  /\ session'[proto'[a]].st = "none" /\ proto'[a] <= lastId'
                        /\ \A b \in Addr : proto'[b] = proto'[a] => b = a
                        /\ \A u \in Terminal : display'[u].id # proto'[a]
      BY DEF IdsManagedOnce
    <2>1. a # m.addr /\ proto'[a] = proto[a] /\ proto[a] \in Id \ {i}
      BY <1>1, <1>2, <1>5 DEF TypeOK
    <2>2. /\ session[proto[a]].st = "none" /\ proto[a] <= lastId
          /\ \A b \in Addr : proto[b] = proto[a] => b = a
          /\ \A u \in Terminal : display[u].id # proto[a]
      BY <2>1 DEF IdInv, IdsManagedOnce
    <2>3. \A b \in Addr : proto'[b] = proto[a] => b = a
      BY <1>1, <1>2, <2>1, <2>2, IdFacts DEF TypeOK
    <2> QED
      BY <1>2, <1>3, <1>4, <2>1, <2>2, <2>3
  <1>7. FreshInv'
    <2>1. \A j \in Id : j > lastId => j # i
      BY <1>5, IdFacts DEF TypeOK
    <2> QED
      BY <1>2, <1>3, <1>4, <1>5, <2>1 DEF IdInv, FreshInv
  <1> QED
    BY <1>6, <1>7 DEF IdInv

\* The steps that hand out no id and take up no offer
LEMMA QuietKept ==
  ASSUME TypeOK, IdInv,
         \/ UNCHANGED <<proto, lastId, display, session>>
         \/ Crash
         \/ \E i \in Id : \/ WaitForChild(i) \/ OpenFails(i) \/ SessionEnds(i)
                          \/ \E t \in Terminal : Open(i, t)
                          \/ \E t \in Terminal, host \in Hosts : Choose(i, t, host)
  PROVE  IdInv'
  <1>1. CASE UNCHANGED <<proto, lastId, display, session>>
    BY <1>1 DEF IdInv, IdsManagedOnce, FreshInv
  <1>2. CASE Crash
    <2>1. /\ lastId' = lastId /\ proto' = [a \in Addr |-> NoId]
          /\ display' = [t \in Terminal |-> NoDisplay] /\ NoDisplay.id = NoId
          /\ \A i \in Id : session[i].st = "none" => session'[i].st = "none"
      BY <1>2 DEF Crash, NoDisplay, NoSession
    <2> QED
      BY <2>1, IdKept
  <1>3. ASSUME NEW i \in Id, WaitForChild(i) PROVE IdInv'
    <2>1. lastId' = lastId /\ proto' = proto
      BY <1>3 DEF WaitForChild
    <2>2. \A j \in Id : session[j].st = "none" => session'[j].st = "none"
      BY <1>3 DEF WaitForChild, TypeOK
    <2>3. \A t \in Terminal : display'[t].id \in {display[t].id, NoId}
      BY <1>3 DEF WaitForChild, Removed, NoDisplay
    <2> QED
      BY <2>1, <2>2, <2>3, IdKept
  <1>4. ASSUME NEW i \in Id, \/ OpenFails(i) \/ SessionEnds(i)
                             \/ \E t \in Terminal : Open(i, t)
                             \/ \E t \in Terminal, host \in Hosts : Choose(i, t, host)
        PROVE  IdInv'
    <2>1. lastId' = lastId /\ proto' = proto /\ display' = display
      BY <1>4 DEF OpenFails, SessionEnds, Open, Choose, kdmVars
    <2>2. \A j \in Id : session[j].st = "none" => session'[j].st = "none"
      BY <1>4 DEF OpenFails, SessionEnds, Open, Choose, TypeOK
    <2> QED
      BY <2>1, <2>2, IdKept
  <1> QED
    BY <1>1, <1>2, <1>3, <1>4

LEMMA IdInit == Init => IdInv
  <1> SUFFICES ASSUME Init PROVE IdInv
    OBVIOUS
  <1>1. \A a \in Addr : proto[a] = NoId
    BY DEF Init
  <1>2. \A i \in Id : session[i].st = "none"
    BY DEF Init, NoSession
  <1>3. \A t \in Terminal : display[t].id <= lastId
    BY DEF Init, NoDisplay, NoId
  <1> QED
    BY <1>1, <1>2, <1>3 DEF IdInv, IdsManagedOnce, FreshInv

LEMMA IdStep == TypeOK /\ IdInv /\ [Next]_vars => IdInv'
  <1> SUFFICES ASSUME TypeOK, IdInv, [Next]_vars PROVE IdInv'
    OBVIOUS
  <1>1. ASSUME NEW m \in net, ProcessRequestSocket(m) PROVE IdInv'
    <2>1. CASE AcceptNew(m) \/ Decline(m)
      BY <2>1, OfferKept
    <2>2. CASE Manage(m)
      BY <2>2, ManageKept
    <2>3. CASE \/ RespondQuery(m) \/ RespondIndirect(m) \/ AcceptAgain(m)
               \/ ManageDuplicate(m) \/ ManageRefused(m) \/ SendAlive(m)
      BY <2>3, QuietKept
      DEF RespondQuery, RespondIndirect, AcceptAgain, ManageDuplicate, ManageRefused, SendAlive
    <2> QED
      BY <1>1, <2>1, <2>2, <2>3 DEF ProcessRequestSocket
  <1>2. ASSUME NEW m \in net, Lose(m) PROVE IdInv'
    BY <1>2, QuietKept DEF Lose, kdmVars
  <1>3. ASSUME NEW t \in Terminal, NEW m \in net, Receive(t, m) PROVE IdInv'
    BY <1>3, QuietKept
    DEF Receive, GetWilling, GetForwarded, GetAccept, GetNo, GetAlive, Discard, kdmVars
  <1>4. ASSUME NEW t \in Terminal, \/ Ask(t) \/ ReturnsFrom(t) \/ GiveUp(t) \/ Reboot(t)
                                   \/ ChoiceTimeout(t)
                                   \/ \E host \in Hosts : RegisterIndirectChoice(t, host)
        PROVE  IdInv'
    BY <1>4, QuietKept
    DEF Ask, ReturnsFrom, GiveUp, Reboot, ChoiceTimeout, RegisterIndirectChoice, kdmVars
  <1>5. ASSUME NEW a \in Addr, ProtoAges(a) PROVE IdInv'
    BY <1>5, QuietKept DEF ProtoAges
  <1>6. CASE UNCHANGED vars
    BY <1>6, QuietKept DEF vars, kdmVars
  <1>7. CASE Crash \/ \E i \in Id : \/ WaitForChild(i) \/ OpenFails(i) \/ SessionEnds(i)
                                    \/ \E t \in Terminal : Open(i, t)
                                    \/ \E t \in Terminal, host \in Hosts : Choose(i, t, host)
    BY <1>7, QuietKept
  <1>8. CASE Next
    BY <1>1, <1>2, <1>3, <1>4, <1>5, <1>7, <1>8 DEF Next
  <1> QED
    BY <1>6, <1>8

\* A session id that is offered to a terminal is offered to no other, has
\* never had a session and is no display's, whatever packets are repeated
\* (xdmcp.c:825, 1107).
THEOREM IdsOnce == Spec => []IdsManagedOnce
  <1>1. Init => TypeOK /\ IdInv
    BY TypeInit, IdInit
  <1>2. TypeOK /\ IdInv /\ [Next]_vars => (TypeOK /\ IdInv)'
    BY TypeStep, IdStep
  <1>3. TypeOK /\ IdInv => IdsManagedOnce
    BY DEF IdInv
  <1> QED
    BY <1>1, <1>2, <1>3, PTL DEF Spec
-----------------------------------------------------------------------------
(* Sessions *)

\* A step keeps OneSession when no session comes to life or forgets that it
\* was told to end, and the displays of the living are left alone.
LEMMA SessionsKept ==
  ASSUME TypeOK, OneSession,
         \A i \in Id : session'[i].st \in {"opening", "open"} =>
            /\ session[i].st \in {"opening", "open"} /\ session'[i].term = session[i].term
            /\ \A t \in Terminal : display[t].id = i => display'[t] = display[t]
  PROVE  OneSession'
  <1> SUFFICES ASSUME NEW i \in Id, Alive(i)', ~session'[i].term
               PROVE  \E t \in Terminal : display'[t].id = i /\ display'[t].running
    BY DEF OneSession
  <1>1. Alive(i) /\ ~session[i].term
    BY DEF Alive
  <1>2. PICK t \in Terminal : display[t].id = i /\ display[t].running
    BY <1>1 DEF OneSession
  <1>3. display'[t] = display[t]
    BY <1>2 DEF Alive
  <1> QED
    BY <1>2, <1>3

LEMMA SessionsManaged ==
  ASSUME TypeOK, IdInv, OneSession, NEW m \in net, Manage(m)
  PROVE  OneSession'
  <1> DEFINE i == proto[m.addr]
             t == m.addr[1]
  <1>1. m.addr \in Addr /\ t \in Terminal /\ i \in Id
    BY PacketParts DEF Manage, Matches, TypeOK
  <1>2. session[i].st = "none"
    BY <1>1, IdFacts DEF IdInv, IdsManagedOnce
  <1>3. /\ \A j \in Id : Stopped(t)[j].st = session[j].st
        /\ \A j \in Id : ~Stopped(t)[j].term => Stopped(t)[j] = session[j]
        /\ \A j \in Id : j = display[t].id /\ display[t].running /\ Alive(j) => Stopped(t)[j].term
        /\ DOMAIN Stopped(t) = Id
    BY <1>1, StoppedType, TypeParts
  <1>4. PICK forked \in BOOLEAN :
          /\ display' = [display EXCEPT ![t] = [id |-> i, port |-> m.addr[2], running |-> forked]]
          /\ session' = IF forked
                        THEN [Stopped(t) EXCEPT
                                ![i] = [NoSession EXCEPT !.st = "opening", !.chooser = UseChooser(t)]]
                        ELSE Stopped(t)
    BY DEF Manage
  <1> SUFFICES ASSUME NEW j \in Id, Alive(j)', ~session'[j].term
               PROVE  \E u \in Terminal : display'[u].id = j /\ display'[u].running
    BY DEF OneSession
  <1>5. display'[t] = [id |-> i, port |-> m.addr[2], running |-> forked]
    BY <1>1, <1>4 DEF TypeOK
  <1>6. CASE j = i
    <2>1. forked
      BY <1>1, <1>2, <1>3, <1>4, <1>6 DEF Alive
    <2> QED
      BY <1>1, <1>5, <1>6, <2>1
  <1>7. CASE j # i
    <2>1. session'[j] = Stopped(t)[j]
      BY <1>3, <1>4, <1>7
    <2>2. session[j] = Stopped(t)[j] /\ Alive(j) /\ ~session[j].term
      BY <1>3, <2>1 DEF Alive
    <2>3. PICK u \in Terminal : display[u].id = j /\ display[u].running
      BY <2>2 DEF OneSession
    <2>4. u # t
      BY <1>3, <2>2, <2>3
    <2> QED
      BY <1>4, <2>3, <2>4 DEF TypeOK
  <1> QED
    BY <1>6, <1>7

\* All other steps
LEMMA SessionsQuiet ==
  ASSUME TypeOK, OneSession,
         \/ UNCHANGED <<display, session>>
         \/ Crash
         \/ \E i \in Id : \/ WaitForChild(i) \/ OpenFails(i) \/ SessionEnds(i)
                          \/ \E t \in Terminal : Open(i, t)
                          \/ \E t \in Terminal, host \in Hosts : Choose(i, t, host)
  PROVE  OneSession'
  <1>1. CASE UNCHANGED <<display, session>>
    BY <1>1, SessionsKept
  <1>2. CASE Crash
    <2>1. \A i \in Id : session'[i].st \in {"none", "gone"}
      BY <1>2 DEF Crash, NoSession, TypeOK
    <2> QED
      BY <2>1, SessionsKept
  <1>3. ASSUME NEW i \in Id, WaitForChild(i) PROVE OneSession'
    <2>1. \A j \in Id \ {i} : session'[j] = session[j]
      BY <1>3 DEF WaitForChild, TypeOK
    <2>2. session'[i].st = "gone"
      BY <1>3 DEF WaitForChild, TypeOK
    <2>3. \A t \in Terminal : display[t].id # i => display'[t] = display[t]
      BY <1>3 DEF WaitForChild, Removed
    <2> QED
      BY <2>1, <2>2, <2>3, SessionsKept
  <1>4. ASSUME NEW i \in Id, \/ OpenFails(i) \/ SessionEnds(i)
                             \/ \E t \in Terminal : Open(i, t)
                             \/ \E t \in Terminal, host \in Hosts : Choose(i, t, host)
        PROVE  OneSession'
    <2>1. display' = display
      BY <1>4 DEF OpenFails, SessionEnds, Open, Choose, kdmVars
    <2>2. \A j \in Id \ {i} : session'[j] = session[j]
      BY <1>4 DEF OpenFails, SessionEnds, Open, Choose, TypeOK
    <2>3. session'[i].st \in {"opening", "open"} =>
            session[i].st \in {"opening", "open"} /\ session'[i].term = session[i].term
      BY <1>4 DEF OpenFails, SessionEnds, Open, Choose, TypeOK
    <2> QED
      BY <2>1, <2>2, <2>3, SessionsKept
  <1> QED
    BY <1>1, <1>2, <1>3, <1>4

LEMMA SessionsStep == TypeOK /\ IdInv /\ OneSession /\ [Next]_vars => OneSession'
  <1> SUFFICES ASSUME TypeOK, IdInv, OneSession, [Next]_vars PROVE OneSession'
    OBVIOUS
  <1>1. ASSUME NEW m \in net, ProcessRequestSocket(m) PROVE OneSession'
    <2>1. CASE Manage(m)
      BY <2>1, SessionsManaged
    <2>2. CASE \/ RespondQuery(m) \/ RespondIndirect(m) \/ AcceptAgain(m) \/ AcceptNew(m) \/ Decline(m)
               \/ ManageDuplicate(m) \/ ManageRefused(m) \/ SendAlive(m)
      BY <2>2, SessionsQuiet DEF RespondQuery, RespondIndirect, AcceptAgain, AcceptNew, Decline,
         ManageDuplicate, ManageRefused, SendAlive
    <2> QED
      BY <1>1, <2>1, <2>2 DEF ProcessRequestSocket
  <1>2. ASSUME NEW m \in net, Lose(m) \/ \E t \in Terminal : Receive(t, m) PROVE OneSession'
    BY <1>2, SessionsQuiet
    DEF Lose, Receive, GetWilling, GetForwarded, GetAccept, GetNo, GetAlive, Discard, kdmVars
  <1>3. ASSUME NEW t \in Terminal, \/ Ask(t) \/ ReturnsFrom(t) \/ GiveUp(t) \/ Reboot(t)
                                   \/ ChoiceTimeout(t)
                                   \/ \E host \in Hosts : RegisterIndirectChoice(t, host)
        PROVE  OneSession'
    BY <1>3, SessionsQuiet
    DEF Ask, ReturnsFrom, GiveUp, Reboot, ChoiceTimeout, RegisterIndirectChoice, kdmVars
  <1>4. ASSUME NEW a \in Addr, ProtoAges(a) PROVE OneSession'
    BY <1>4, SessionsQuiet DEF ProtoAges
  <1>5. CASE UNCHANGED vars
    BY <1>5, SessionsQuiet DEF vars, kdmVars
  <1>6. CASE Crash \/ \E i \in Id : \/ WaitForChild(i) \/ OpenFails(i) \/ SessionEnds(i)
                                    \/ \E t \in Terminal : Open(i, t)
                                    \/ \E t \in Terminal, host \in Hosts : Choose(i, t, host)
    BY <1>6, SessionsQuiet
  <1>7. CASE Next
    BY <1>1, <1>2, <1>3, <1>4, <1>6, <1>7 DEF Next
  <1> QED
    BY <1>5, <1>7

\* Every session that is alive and was not told to end is that of a listed
\* display: a terminal has one session, whatever MANAGE comes when
\* (xdmcp.c:1032-1041).
THEOREM OneSessionEach == Spec => []OneSession
  <1>1. Init => TypeOK /\ IdInv /\ OneSession
    <2>1. Init => OneSession
      BY DEF Init, OneSession, Alive, NoSession
    <2> QED
      BY <2>1, TypeInit, IdInit
  <1>2. TypeOK /\ IdInv /\ OneSession /\ [Next]_vars => (TypeOK /\ IdInv /\ OneSession)'
    BY TypeStep, IdStep, SessionsStep
  <1> QED
    BY <1>1, <1>2, PTL DEF Spec
-----------------------------------------------------------------------------
(* The session a terminal uses *)

\* Session id i is terminal t's: in an offer, a display, an X server or a packet.
Cites(i, t) ==
    \/ \E p \in Port : proto[<<t, p>>] = i
    \/ display[t].id = i
    \/ terminal[t].st \in {"manage", "run"} /\ terminal[t].id = i
    \/ \E n \in net : n.op \in {"accept", "manage"} /\ n.addr[1] = t /\ n.id = i

\* Nothing gets mixed up between two terminals.
OneOwner == \A i \in Id : \A t, u \in Terminal : Cites(i, t) /\ Cites(i, u) => t = u

\* Nobody knows an id that was not handed out.
GivenOut ==
    /\ \A n \in net : n.op \in {"accept", "manage", "refuse", "failed"} => n.id <= lastId
    /\ \A t \in Terminal : terminal[t].id <= lastId

RunsSome == \A t \in Terminal : terminal[t].st = "run" => terminal[t].id \in Id

\* What was refused or has failed is no offer any more.
Passed == \A n \in net : n.op \in {"refuse", "failed"} /\ n.id # NoId => proto[n.addr] # n.id

\* No MANAGE comes from a port that is still to be used.
Boots == \A n \in net : n.op = "manage" => n.addr[2] <= terminal[n.addr[1]].port

\* A MANAGE from where terminal t is now that takes up an offer
Takes(n, t) == n.op = "manage" /\ n.addr = AddrOf(t) /\ n.id # NoId /\ proto[n.addr] = n.id

\* Only a terminal that still waits for that session has sent one.
Awaited == \A t \in Terminal, n \in net :
              Takes(n, t) => terminal[t].st = "manage" /\ terminal[t].id = n.id

TalkInv == OneOwner /\ GivenOut /\ RunsSome /\ Passed /\ Boots /\ Awaited

\* What a step that hands out no id makes of terminal t
Leaves(t)  == /\ terminal'[t].st \in {"query", "request", "elsewhere"} /\ terminal'[t].id = NoId
              /\ terminal'[t].port = terminal[t].port
              /\ terminal[t].st = "manage" =>
                    terminal[t].id = NoId \/ proto[AddrOf(t)] # terminal[t].id
Boot(t)    == /\ terminal'[t].st = "query" /\ terminal'[t].id = NoId
              /\ terminal'[t].port = terminal[t].port + 1
Answers(t) == /\ terminal'[t].st = "manage" /\ terminal'[t].port = terminal[t].port
              /\ terminal[t].st = "request"
              /\ \E n \in net : n.op = "accept" /\ n.addr = AddrOf(t) /\ n.id = terminal'[t].id
Opens(t)   == /\ terminal'[t].st = "run" /\ terminal'[t].port = terminal[t].port
              /\ terminal[t].st = "manage" /\ terminal'[t].id = terminal[t].id
              /\ terminal[t].id \in Id /\ session[terminal[t].id].st # "none"
Moves(t)   == terminal'[t] = terminal[t] \/ Leaves(t) \/ Boot(t) \/ Answers(t) \/ Opens(t)

\* and of a packet that was not under way
Says(n) ==
    \/ n.op \notin {"accept", "manage", "refuse", "failed"}
    \/ n.op = "accept" /\ n.id = proto[n.addr]
    \/ /\ n.op = "manage" /\ terminal'[n.addr[1]].st = "manage"
       /\ n.addr[2] = terminal'[n.addr[1]].port /\ n.id = terminal'[n.addr[1]].id
    \/ n.op \in {"refuse", "failed"} /\ n.id <= lastId /\ (n.id # NoId => proto[n.addr] # n.id)

Quiet == /\ lastId' = lastId
         /\ \A a \in Addr : proto'[a] \in {proto[a], NoId}
         /\ \A t \in Terminal : \/ display'[t].id \in {display[t].id, NoId}
                                \/ \E p \in Port : display'[t].id = proto[<<t, p>>]
         /\ \A t \in Terminal : Moves(t)
         /\ \A n \in net' \ net : Says(n)

\* Terminals have the types that the steps below need.
LEMMA TerminalParts ==
  ASSUME TypeOK, NEW t \in Terminal
  PROVE  /\ terminal[t].id \in Id \cup {NoId} /\ terminal[t].port \in Port
         /\ terminal[t].port \in Nat /\ terminal[t].id \in Nat
         /\ AddrOf(t) \in Addr /\ AddrOf(t)[1] = t /\ AddrOf(t)[2] = terminal[t].port
  <1>1. terminal[t].id \in Id \cup {NoId} /\ terminal[t].port \in Port
    BY DEF TypeOK
  <1>2. terminal[t].port \in Nat /\ terminal[t].id \in Nat
    <2>1. Id \cup {NoId} \subseteq Nat
      BY IdFacts DEF NoId
    <2>2. Port \subseteq Nat
      BY IdFacts
    <2> QED
      BY <1>1, <2>1, <2>2
  <1> QED
    BY <1>1, <1>2 DEF AddrOf, Addr

\* Nobody comes to know an id that he did not know.
LEMMA CitesKept ==
  ASSUME TypeOK, TypeOK', Quiet, NEW i \in Id, NEW t \in Terminal, Cites(i, t)'
  PROVE  Cites(i, t)
  <1>0. i # NoId
    BY IdFacts
  <1>1. CASE \E p \in Port : proto'[<<t, p>>] = i
    <2>1. PICK p \in Port : proto'[<<t, p>>] = i
      BY <1>1
    <2>2. <<t, p>> \in Addr
      BY DEF Addr
    <2> QED
      BY <1>0, <2>1, <2>2 DEF Quiet, Cites
  <1>2. CASE display'[t].id = i
    BY <1>0, <1>2 DEF Quiet, Cites
  <1>3. ASSUME terminal'[t].st \in {"manage", "run"}, terminal'[t].id = i
        PROVE  Cites(i, t)
    <2>1. CASE terminal'[t] = terminal[t]
      BY <1>3, <2>1 DEF Cites
    <2>2. CASE Leaves(t) \/ Boot(t)
      BY <1>3, <2>2 DEF Leaves, Boot
    <2>3. CASE Answers(t)
      BY <1>3, <2>3, TerminalParts DEF Answers, Cites
    <2>4. CASE Opens(t)
      BY <1>3, <2>4 DEF Opens, Cites
    <2>5. Moves(t)
      BY DEF Quiet
    <2> QED
      BY <2>1, <2>2, <2>3, <2>4, <2>5 DEF Moves
  <1>4. CASE \E n \in net' : n.op \in {"accept", "manage"} /\ n.addr[1] = t /\ n.id = i
    <2>1. PICK n \in net' : n.op \in {"accept", "manage"} /\ n.addr[1] = t /\ n.id = i
      BY <1>4
    <2>2. CASE n \in net
      BY <2>1, <2>2 DEF Cites
    <2>3. CASE n \notin net
      <3>1. Says(n)
        BY <2>3 DEF Quiet
      <3>2. n.addr[2] \in Port /\ n.addr = <<t, n.addr[2]>>
        BY <2>1, PacketParts DEF TypeOK
      <3>3. CASE n.op = "accept"
        BY <2>1, <3>1, <3>2, <3>3 DEF Says, Cites
      <3>4. CASE n.op = "manage"
        BY <1>3, <2>1, <3>1, <3>4 DEF Says
      <3> QED
        BY <2>1, <3>3, <3>4
    <2> QED
      BY <2>2, <2>3
  <1> QED
    BY <1>1, <1>2, <1>3, <1>4 DEF Cites

LEMMA TalkKept ==
  ASSUME TypeOK, TypeOK', IdInv, TalkInv, Quiet
  PROVE  TalkInv'
  <1>0. NoId \in Nat /\ lastId \in Nat /\ NoId <= lastId /\ lastId' = lastId
    BY IdFacts DEF TypeOK, Quiet, NoId
  <1>1. OneOwner'
    BY CitesKept DEF OneOwner, TalkInv
  <1>2. \A a \in Addr : proto[a] <= lastId
    BY <1>0 DEF IdInv, IdsManagedOnce
  <1>3. \A t \in Terminal : terminal'[t].id <= lastId'
    <2> SUFFICES ASSUME NEW t \in Terminal PROVE terminal'[t].id <= lastId
      BY <1>0
    <2>1. Moves(t)
      BY DEF Quiet
    <2>2. terminal[t].id <= lastId
      BY DEF TalkInv, GivenOut
    <2>3. Answers(t) => terminal'[t].id <= lastId
      BY DEF Answers, TalkInv, GivenOut
    <2> QED
      BY <1>0, <2>1, <2>2, <2>3 DEF Moves, Leaves, Boot, Opens
  <1>4. GivenOut'
    <2> SUFFICES ASSUME NEW n \in net', n.op \in {"accept", "manage", "refuse", "failed"}
                 PROVE  n.id <= lastId
      BY <1>0, <1>3 DEF GivenOut
    <2>1. n.addr \in Addr /\ n.addr[1] \in Terminal
      BY PacketParts DEF TypeOK
    <2>2. CASE n \in net
      BY <2>2 DEF TalkInv, GivenOut
    <2>3. CASE n \notin net
      <3>1. Says(n)
        BY <2>3 DEF Quiet
      <3> QED
        BY <1>0, <1>2, <1>3, <2>1, <3>1 DEF Says
    <2> QED
      BY <2>2, <2>3
  <1>5. RunsSome'
    <2> SUFFICES ASSUME NEW t \in Terminal, terminal'[t].st = "run"
                 PROVE  terminal'[t].id \in Id
      BY DEF RunsSome
    <2>1. Moves(t)
      BY DEF Quiet
    <2> QED
      BY <2>1 DEF Moves, Leaves, Boot, Answers, Opens, TalkInv, RunsSome
  <1>6. Passed'
    <2> SUFFICES ASSUME NEW n \in net', n.op \in {"refuse", "failed"}, n.id # NoId
                 PROVE  proto'[n.addr] # n.id
      BY DEF Passed
    <2>1. n.addr \in Addr
      BY PacketParts DEF TypeOK
    <2>2. proto[n.addr] # n.id
      <3>1. CASE n \in net
        BY <3>1 DEF TalkInv, Passed
      <3>2. CASE n \notin net
        BY <3>2 DEF Quiet, Says
      <3> QED
        BY <3>1, <3>2
    <2> QED
      BY <2>1, <2>2 DEF Quiet
  <1>7. \A t \in Terminal : terminal'[t].port >= terminal[t].port
    <2> SUFFICES ASSUME NEW t \in Terminal PROVE terminal'[t].port >= terminal[t].port
      OBVIOUS
    <2>1. Moves(t)
      BY DEF Quiet
    <2>2. terminal[t].port \in Nat
      BY TerminalParts
    <2> QED
      BY <2>1, <2>2 DEF Moves, Leaves, Boot, Answers, Opens
  <1>8. Boots'
    <2> SUFFICES ASSUME NEW n \in net', n.op = "manage"
                 PROVE  n.addr[2] <= terminal'[n.addr[1]].port
      BY DEF Boots
    <2>1. n.addr[1] \in Terminal /\ n.addr[2] \in Port
      BY PacketParts DEF TypeOK
    <2>2. /\ n.addr[2] \in Nat /\ terminal[n.addr[1]].port \in Nat
          /\ terminal'[n.addr[1]].port \in Nat
      <3>1. terminal'[n.addr[1]].port \in Port
        BY <2>1 DEF TypeOK
      <3> QED
        BY <2>1, <3>1, TerminalParts, IdFacts
    <2>3. CASE n \in net
      <3>1. n.addr[2] <= terminal[n.addr[1]].port
        BY <2>3 DEF TalkInv, Boots
      <3> QED
        BY <1>7, <2>1, <2>2, <3>1
    <2>4. CASE n \notin net
      BY <2>2, <2>4 DEF Quiet, Says
    <2> QED
      BY <2>3, <2>4
  <1>9. Awaited'
    <2> SUFFICES ASSUME NEW t \in Terminal, NEW n \in net', Takes(n, t)'
                 PROVE  terminal'[t].st = "manage" /\ terminal'[t].id = n.id
      BY DEF Awaited
    <2>0. n \in Packet
      BY DEF TypeOK
    <2>a. n.addr \in Addr /\ n.id \in Id \cup {NoId}
      BY <2>0, PacketParts
    <2>b. /\ n.op = "manage" /\ n.id # NoId /\ proto'[n.addr] = n.id
          /\ n.addr = <<t, terminal'[t].port>>
      BY DEF Takes, AddrOf
    <2>1. /\ n.op = "manage" /\ n.id # NoId /\ proto'[n.addr] = n.id
          /\ n.addr = <<t, terminal'[t].port>> /\ n.addr \in Addr /\ n.id \in Id \cup {NoId}
          /\ n.addr[1] = t /\ n.addr[2] = terminal'[t].port
      BY <2>a, <2>b
    <2>2. proto[n.addr] = n.id
      BY <2>1 DEF Quiet
    <2>3. CASE n \notin net
      BY <2>1, <2>3 DEF Quiet, Says
    <2>4. CASE n \in net
      <3>0. Moves(t)
        BY DEF Quiet
      <3>1. ASSUME terminal'[t].port = terminal[t].port
            PROVE  terminal[t].st = "manage" /\ terminal[t].id = n.id /\ n.addr = AddrOf(t)
        <4>1. n.addr = AddrOf(t)
          BY <2>1, <3>1 DEF AddrOf
        <4>2. Takes(n, t)
          BY <2>1, <2>2, <4>1 DEF Takes
        <4> QED
          BY <2>4, <4>1, <4>2 DEF TalkInv, Awaited
      <3>2. ~Boot(t)
        <4>1. n.addr[2] <= terminal[t].port
          BY <2>1, <2>4 DEF TalkInv, Boots
        <4>2. terminal[t].port \in Nat
          BY TerminalParts
        <4> QED
          BY <2>1, <4>1, <4>2 DEF Boot
      <3>3. ~Leaves(t)
        BY <2>1, <2>2, <3>1 DEF Leaves
      <3>4. ~Opens(t)
        <4> SUFFICES ASSUME Opens(t) PROVE FALSE
          OBVIOUS
        <4>1. terminal[t].id = n.id /\ n.id \in Id /\ session[n.id].st # "none"
          BY <3>1 DEF Opens
        <4>2. session[n.id].st = "none"
          BY <2>1, <2>2 DEF IdInv, IdsManagedOnce
        <4> QED
          BY <4>1, <4>2
      <3>5. ~Answers(t)
        BY <3>1 DEF Answers
      <3> QED
        BY <3>0, <3>1, <3>2, <3>3, <3>4, <3>5 DEF Moves
    <2> QED
      BY <2>3, <2>4
  <1> QED
    BY <1>1, <1>4, <1>5, <1>6, <1>8, <1>9 DEF TalkInv

\* An offer of an id that nobody knows
LEMMA TalkOffered ==
  ASSUME TypeOK, TypeOK', IdInv, TalkInv, NEW m \in net,
         lastId' = lastId + 1, UNCHANGED <<terminal, display>>,
         \A a \in Addr \ {m.addr} : proto'[a] \in {proto[a], NoId},
         proto'[m.addr] \in {lastId', NoId},
         \A n \in net' \ net : \/ n.op = "decline"
                               \/ n.op = "accept" /\ n.addr = m.addr /\ n.id = lastId'
  PROVE  TalkInv'
  <1>0. m.addr \in Addr /\ m.addr[1] \in Terminal
    BY PacketParts DEF TypeOK
  <1>1. lastId \in Nat /\ lastId' \in Nat /\ lastId < lastId' /\ lastId' # NoId
    BY IdFacts DEF TypeOK, NoId
  <1>2. /\ \A n \in Packet : n.id \in Nat
        /\ \A t \in Terminal : terminal[t].id \in Nat /\ display[t].id \in Nat
        /\ \A a \in Addr : proto[a] \in Nat
    <2>1. Id \cup {NoId} \subseteq Nat
      BY IdFacts DEF NoId
    <2>2. \A n \in Packet : n.id \in Nat
      BY <2>1, PacketParts
    <2>3. \A t \in Terminal : terminal[t].id \in Nat
      BY TerminalParts
    <2>4. \A t \in Terminal : display[t].id \in Nat
      BY <2>1, DisplayParts, TypeParts
    <2>5. \A a \in Addr : proto[a] \in Nat
      BY <2>1 DEF TypeOK
    <2> QED
      BY <2>2, <2>3, <2>4, <2>5
  <1>3. /\ \A t \in Terminal : terminal[t].id # lastId' /\ display[t].id # lastId'
        /\ \A n \in net : n.op \in {"accept", "manage", "refuse", "failed"} => n.id # lastId'
        /\ \A a \in Addr : proto[a] # lastId'
    <2>1. \A t \in Terminal : terminal[t].id <= lastId /\ display[t].id <= lastId
      BY DEF TalkInv, GivenOut, IdInv, FreshInv
    <2>2. \A n \in net : n.op \in {"accept", "manage", "refuse", "failed"} => n.id <= lastId
      BY DEF TalkInv, GivenOut
    <2>3. \A a \in Addr : proto[a] # NoId => proto[a] <= lastId
      BY DEF IdInv, IdsManagedOnce
    <2>4. net \subseteq Packet
      BY DEF TypeOK
    <2> QED
      BY <1>1, <1>2, <2>1, <2>2, <2>3, <2>4
  <1>4. OneOwner'
    <2>1. ASSUME NEW i \in Id, NEW t \in Terminal, Cites(i, t)'
          PROVE  IF i = lastId' THEN t = m.addr[1] ELSE Cites(i, t)
      <3>0. i # NoId
        BY IdFacts
      <3>1. ASSUME NEW p \in Port, proto'[<<t, p>>] = i
            PROVE  IF i = lastId' THEN t = m.addr[1] ELSE Cites(i, t)
        <4>1. <<t, p>> \in Addr
          BY DEF Addr
        <4>2. CASE <<t, p>> = m.addr
          <5>1. t = m.addr[1]
            BY <4>2
          <5> QED
            BY <3>0, <3>1, <4>2, <5>1
        <4>3. CASE <<t, p>> # m.addr
          <5>1. proto[<<t, p>>] = i
            BY <3>0, <3>1, <4>1, <4>3
          <5> QED
            BY <1>3, <4>1, <5>1 DEF Cites
        <4> QED
          BY <4>2, <4>3
      <3>2. CASE display'[t].id = i \/ (terminal'[t].st \in {"manage", "run"} /\ terminal'[t].id = i)
        BY <1>3, <3>2 DEF Cites
      <3>3. ASSUME NEW n \in net', n.op \in {"accept", "manage"}, n.addr[1] = t, n.id = i
            PROVE  IF i = lastId' THEN t = m.addr[1] ELSE Cites(i, t)
        <4>1. CASE n \in net
          BY <1>3, <3>3, <4>1 DEF Cites
        <4>2. CASE n \notin net
          BY <3>3, <4>2
        <4> QED
          BY <4>1, <4>2
      <3> QED
        BY <2>1, <3>1, <3>2, <3>3 DEF Cites
    <2> QED
      BY <2>1 DEF OneOwner, TalkInv
  <1>5. GivenOut'
    <2>1. ASSUME NEW n \in net', n.op \in {"accept", "manage", "refuse", "failed"}
          PROVE  n.id <= lastId'
      <3>1. CASE n \in net
        <4>1. n.id <= lastId /\ n.id \in Nat
          BY <1>2, <2>1, <3>1 DEF TalkInv, GivenOut, TypeOK
        <4> QED
          BY <1>1, <4>1
      <3>2. CASE n \notin net
        BY <1>1, <2>1, <3>2
      <3> QED
        BY <3>1, <3>2
    <2>2. \A t \in Terminal : terminal[t].id <= lastId'
      BY <1>1, <1>2 DEF TalkInv, GivenOut
    <2> QED
      BY <2>1, <2>2 DEF GivenOut
  <1>6. RunsSome'
    BY DEF TalkInv, RunsSome
  <1>7. Passed'
    <2> SUFFICES ASSUME NEW n \in net', n.op \in {"refuse", "failed"}, n.id # NoId
                 PROVE  proto'[n.addr] # n.id
      BY DEF Passed
    <2>1. n \in net /\ n.id # lastId' /\ proto[n.addr] # n.id
      BY <1>3 DEF TalkInv, Passed
    <2>2. n.addr \in Addr
      BY <2>1, PacketParts DEF TypeOK
    <2> QED
      BY <2>1, <2>2
  <1>8. Boots'
    BY DEF TalkInv, Boots
  <1>9. Awaited'
    <2> SUFFICES ASSUME NEW t \in Terminal, NEW n \in net', Takes(n, t)'
                 PROVE  terminal[t].st = "manage" /\ terminal[t].id = n.id
      BY DEF Awaited
    <2>1. n.op = "manage" /\ n.addr = AddrOf(t) /\ n.id # NoId /\ proto'[n.addr] = n.id
      BY DEF Takes, AddrOf
    <2>2. n \in net /\ n.id # lastId' /\ n.addr \in Addr
      BY <1>3, <2>1, PacketParts DEF TypeOK
    <2>3. proto[n.addr] = n.id
      BY <2>1, <2>2
    <2> QED
      BY <2>1, <2>2, <2>3 DEF TalkInv, Awaited, Takes
  <1> QED
    BY <1>4, <1>5, <1>6, <1>7, <1>8, <1>9 DEF TalkInv
-----------------------------------------------------------------------------
(* All steps *)

LEMMA StillMoves == ASSUME UNCHANGED terminal PROVE \A t \in Terminal : Moves(t)
  BY DEF Moves

LEMMA RequestTalk ==
  ASSUME TypeOK, TypeOK', IdInv, TalkInv, NEW m \in net, AcceptNew(m) \/ Decline(m)
  PROVE  TalkInv'
  <1>1. m.addr \in Addr
    BY PacketParts DEF TypeOK
  <1>2. UNCHANGED <<terminal, display>>
    BY DEF AcceptNew, Decline
  <1>3. CASE AcceptNew(m)
    <2>1. \A n \in net' \ net : n.op = "accept" /\ n.addr = m.addr /\ n.id = lastId'
      BY <1>3 DEF AcceptNew, Reply, Pkt
    <2>2. /\ lastId' = lastId + 1 /\ proto'[m.addr] = lastId'
          /\ \A a \in Addr \ {m.addr} : proto'[a] \in {proto[a], NoId}
      BY <1>1, <1>3 DEF AcceptNew, NewProtoDisplay
    <2> QED
      BY <1>2, <2>1, <2>2, TalkOffered
  <1>4. CASE Decline(m)
    <2>1. \A n \in net' \ net : n.op = "decline"
      BY <1>4 DEF Decline, Reply, Pkt
    <2>2. CASE lastId' = lastId + 1 /\ NewProtoDisplay(m.addr, NoId)
      <3>1. /\ proto'[m.addr] = NoId
            /\ \A a \in Addr \ {m.addr} : proto'[a] \in {proto[a], NoId}
        BY <1>1, <2>2 DEF NewProtoDisplay
      <3> QED
        BY <1>2, <2>1, <2>2, <3>1, TalkOffered
    <2>3. CASE lastId' = lastId /\ \A a \in Addr : proto'[a] \in {proto[a], NoId}
      <3>1. Quiet
        BY <1>2, <2>1, <2>3, StillMoves DEF Quiet, Says
      <3> QED
        BY <3>1, TalkKept
    <2>4. (lastId' = lastId + 1 /\ NewProtoDisplay(m.addr, NoId))
            \/ (lastId' = lastId /\ \A a \in Addr : proto'[a] \in {proto[a], NoId})
      BY <1>1, <1>4 DEF Decline, TypeOK
    <2> QED
      BY <2>2, <2>3, <2>4
  <1> QED
    BY <1>3, <1>4

LEMMA AnswerTalk ==
  ASSUME TypeOK, TypeOK', IdInv, TalkInv, NEW m \in net,
         \/ RespondQuery(m) \/ RespondIndirect(m) \/ AcceptAgain(m)
         \/ ManageDuplicate(m) \/ ManageRefused(m) \/ SendAlive(m)
  PROVE  TalkInv'
  <1>1. UNCHANGED <<terminal, proto, lastId, display>>
    BY DEF RespondQuery, RespondIndirect, AcceptAgain, ManageDuplicate, ManageRefused, SendAlive
  <1>2. m.addr \in Addr /\ m.id \in Id \cup {NoId}
    BY PacketParts DEF TypeOK
  <1>3. \A n \in net' \ net : Says(n)
    <2>1. CASE RespondQuery(m) \/ RespondIndirect(m) \/ SendAlive(m) \/ ManageDuplicate(m)
      BY <2>1 DEF RespondQuery, RespondIndirect, SendAlive, ManageDuplicate, Reply, Pkt, Says
    <2>2. CASE AcceptAgain(m)
      BY <2>2 DEF AcceptAgain, Reply, Pkt, Says
    <2>3. CASE ManageRefused(m)
      <3>1. m.id <= lastId /\ (m.id # NoId => proto[m.addr] # m.id)
        BY <2>3 DEF ManageRefused, Matches, TalkInv, GivenOut
      <3> QED
        BY <2>3, <3>1 DEF ManageRefused, Reply, Pkt, Says
    <2> QED
      BY <2>1, <2>2, <2>3
  <1>4. Quiet
    BY <1>1, <1>3, StillMoves DEF Quiet
  <1> QED
    BY <1>4, TalkKept

LEMMA ManageTalk ==
  ASSUME TypeOK, TypeOK', IdInv, TalkInv, NEW m \in net, Manage(m)
  PROVE  TalkInv'
  <1>1. /\ m.addr \in Addr /\ m.addr[1] \in Terminal /\ m.addr[2] \in Port
        /\ m.addr = <<m.addr[1], m.addr[2]>>
    BY PacketParts DEF TypeOK
  <1>2. UNCHANGED <<terminal, lastId>> /\ net' \subseteq net
    BY DEF Manage, Reply
  <1>3. \A a \in Addr : proto'[a] \in {proto[a], NoId}
    BY <1>1 DEF Manage, Disposed, TypeOK
  <1>4. ASSUME NEW t \in Terminal
        PROVE  display'[t].id = display[t].id \/ \E p \in Port : display'[t].id = proto[<<t, p>>]
    <2>1. display'[t].id = IF t = m.addr[1] THEN proto[m.addr] ELSE display[t].id
      BY <1>1 DEF Manage, TypeOK
    <2> QED
      BY <1>1, <2>1
  <1>5. Quiet
    BY <1>2, <1>3, <1>4, StillMoves DEF Quiet
  <1> QED
    BY <1>5, TalkKept

LEMMA MasterTalk ==
  ASSUME TypeOK, TypeOK', IdInv, TalkInv,
         \/ \E a \in Addr : ProtoAges(a)
         \/ \E t \in Terminal : ChoiceTimeout(t)
         \/ \E t \in Terminal, host \in Hosts : RegisterIndirectChoice(t, host)
         \/ \E i \in Id : WaitForChild(i)
         \/ Crash
         \/ \E m \in net : Lose(m)
  PROVE  TalkInv'
  <1>1. UNCHANGED <<terminal, lastId>>
    BY DEF ProtoAges, ChoiceTimeout, RegisterIndirectChoice, WaitForChild, Crash, Lose, kdmVars
  <1>2. \A a \in Addr : proto'[a] \in {proto[a], NoId}
    BY DEF ProtoAges, ChoiceTimeout, RegisterIndirectChoice, WaitForChild, Crash, Lose, kdmVars
  <1>3. \A t \in Terminal : display'[t].id \in {display[t].id, NoId}
    <2>1. ASSUME NEW i \in Id, WaitForChild(i)
          PROVE  \A t \in Terminal : display'[t].id \in {display[t].id, NoId}
      BY <2>1 DEF WaitForChild, Removed, NoDisplay
    <2>2. CASE Crash
      BY <2>2 DEF Crash, NoDisplay
    <2>3. (\E i \in Id : WaitForChild(i)) \/ Crash \/ display' = display
      BY DEF ProtoAges, ChoiceTimeout, RegisterIndirectChoice, Lose, kdmVars
    <2> QED
      BY <2>1, <2>2, <2>3
  <1>4. \A n \in net' \ net : Says(n)
    <2>1. ASSUME NEW i \in Id, WaitForChild(i), NEW n \in net' \ net PROVE Says(n)
      <3>1. PICK t \in Terminal : display[t].id = i /\ n = Pkt("failed", <<t, display[t].port>>, i)
        BY <2>1 DEF WaitForChild, Send
      <3>2. n.op = "failed" /\ n.id = i /\ n.addr = <<t, display[t].port>>
        BY <3>1 DEF Pkt
      <3>3. <<t, display[t].port>> \in Addr
        BY DisplayParts, TypeParts DEF Addr
      <3>4. proto[<<t, display[t].port>>] # i
        BY <3>1, <3>3, IdFacts DEF IdInv, IdsManagedOnce
      <3>5. i <= lastId
        BY <3>1 DEF IdInv, FreshInv
      <3> QED
        BY <3>2, <3>4, <3>5 DEF Says
    <2>2. (\E i \in Id : WaitForChild(i)) \/ net' \subseteq net
      BY DEF ProtoAges, ChoiceTimeout, RegisterIndirectChoice, Crash, Lose
    <2> QED
      BY <2>1, <2>2
  <1>5. Quiet
    BY <1>1, <1>2, <1>3, <1>4, StillMoves DEF Quiet
  <1> QED
    BY <1>5, TalkKept

LEMMA SessionTalk ==
  ASSUME TypeOK, TypeOK', IdInv, TalkInv, NEW i \in Id,
         \/ OpenFails(i) \/ SessionEnds(i)
         \/ \E t \in Terminal : Open(i, t)
         \/ \E t \in Terminal, host \in Hosts : Choose(i, t, host)
  PROVE  TalkInv'
  <1>1. UNCHANGED <<net, proto, lastId, display>>
    BY DEF OpenFails, SessionEnds, Open, Choose, kdmVars
  <1>2. ASSUME terminal' = Resets(i), NEW u \in Terminal PROVE Moves(u)
    <2>1. terminal'[u] = IF terminal[u].st = "run" /\ terminal[u].id = i
                         THEN [terminal[u] EXCEPT !.st = "query", !.id = NoId] ELSE terminal[u]
      BY <1>2 DEF Resets
    <2>2. terminal[u] \in [st : State, port : Port, id : Id \cup {NoId}]
      BY TypeParts DEF TerminalOK
    <2> QED
      BY <2>1, <2>2 DEF Moves, Leaves
  <1>3. ASSUME NEW t \in Terminal, Open(i, t), NEW u \in Terminal PROVE Moves(u)
    <2>1. CASE u # t
      BY <1>3, <2>1 DEF Open, Moves, TypeOK
    <2>2. CASE u = t
      <3>1. terminal[t] \in [st : State, port : Port, id : Id \cup {NoId}]
        BY TypeParts DEF TerminalOK
      <3>2. terminal'[t] = [terminal[t] EXCEPT !.st = "run"]
        BY <1>3 DEF Open, TypeOK
      <3>3. terminal[t].st = "manage" /\ terminal[t].id = i /\ session[i].st # "none"
        BY <1>3 DEF Open
      <3> QED
        BY <2>2, <3>1, <3>2, <3>3 DEF Moves, Opens
    <2> QED
      BY <2>1, <2>2
  <1>4. \A u \in Terminal : Moves(u)
    <2>1. terminal' = terminal \/ terminal' = Resets(i) \/ \E t \in Terminal : Open(i, t)
      BY DEF OpenFails, SessionEnds, Choose
    <2> QED
      BY <1>2, <1>3, <2>1, StillMoves
  <1>5. Quiet
    BY <1>1, <1>4 DEF Quiet
  <1> QED
    BY <1>5, TalkKept

\* A terminal that is told something moves by itself.
LEMMA BecomesParts ==
  ASSUME TypeOK, NEW t \in Terminal, NEW st, NEW i, Becomes(t, st, i)
  PROVE  /\ terminal'[t].st = st /\ terminal'[t].id = i /\ terminal'[t].port = terminal[t].port
         /\ \A u \in Terminal \ {t} : terminal'[u] = terminal[u]
  <1>1. terminal[t] \in [st : State, port : Port, id : Id \cup {NoId}]
    BY TypeParts DEF TerminalOK
  <1>2. terminal'[t] = [terminal[t] EXCEPT !.st = st, !.id = i]
    BY DEF Becomes, TypeOK
  <1>3. \A u \in Terminal \ {t} : terminal'[u] = terminal[u]
    BY DEF Becomes, TypeOK
  <1> QED
    BY <1>1, <1>2, <1>3

LEMMA TerminalTalk ==
  ASSUME "giveUp" \notin Env, TypeOK, TypeOK', IdInv, TalkInv, NEW t \in Terminal,
         \/ Ask(t) \/ ReturnsFrom(t) \/ GiveUp(t) \/ Reboot(t)
         \/ \E m \in net : Receive(t, m)
  PROVE  TalkInv'
  <1>0. AddrOf(t)[1] = t /\ AddrOf(t)[2] = terminal[t].port
    BY DEF AddrOf
  <1>1. UNCHANGED <<proto, lastId, display>>
    BY DEF Ask, ReturnsFrom, GiveUp, Reboot, Receive, GetWilling, GetForwarded, GetAccept, GetNo,
           GetAlive, Discard, kdmVars
  <1>2. CASE Ask(t)
    <2>1. terminal' = terminal
      BY <1>2 DEF Ask
    <2>2. ASSUME NEW n \in net' \ net PROVE Says(n)
      <3>1. \/ \E q \in Queries : n = Pkt(q, AddrOf(t), NoId)
            \/ n = Pkt("request", AddrOf(t), NoId)
            \/ terminal[t].st = "manage" /\ n = Pkt("manage", AddrOf(t), terminal[t].id)
            \/ n = Pkt("keepAlive", AddrOf(t), terminal[t].id)
        BY <1>2, <2>2 DEF Ask, Send
      <3> QED
        BY <1>0, <2>1, <3>1, KindsAssumption DEF Says, Pkt
    <2>3. Quiet
      BY <1>1, <2>1, <2>2, StillMoves DEF Quiet
    <2> QED
      BY <2>3, TalkKept
  <1>3. CASE ReturnsFrom(t)
    <2>1. Leaves(t) /\ \A u \in Terminal \ {t} : terminal'[u] = terminal[u]
      BY <1>3, BecomesParts DEF ReturnsFrom, Leaves
    <2>2. Quiet
      BY <1>1, <1>3, <2>1 DEF ReturnsFrom, Quiet, Moves
    <2> QED
      BY <2>2, TalkKept
  <1>4. CASE Reboot(t)
    <2>1. /\ terminal'[t] = [st |-> "query", port |-> terminal[t].port + 1, id |-> NoId]
          /\ \A u \in Terminal \ {t} : terminal'[u] = terminal[u]
      BY <1>4 DEF Reboot, TypeOK
    <2>2. \A u \in Terminal : Moves(u)
      BY <2>1 DEF Moves, Boot
    <2>3. Quiet
      BY <1>1, <1>4, <2>2 DEF Reboot, Quiet
    <2> QED
      BY <2>3, TalkKept
  <1>5. ASSUME NEW m \in net, Receive(t, m) PROVE TalkInv'
    <2>1. CASE Discard(t, m)
      <3>1. terminal' = terminal /\ net' \subseteq net
        BY <2>1 DEF Discard, Reply
      <3>2. Quiet
        BY <1>1, <3>1, StillMoves DEF Quiet
      <3> QED
        BY <3>2, TalkKept
    <2>2. CASE GetWilling(t, m)
      <3>1. Leaves(t) /\ \A u \in Terminal \ {t} : terminal'[u] = terminal[u]
        BY <2>2, BecomesParts DEF GetWilling, Leaves
      <3>2. \A n \in net' \ net : n.op = "request"
        BY <2>2 DEF GetWilling, Reply, Pkt
      <3>3. Quiet
        BY <1>1, <3>1, <3>2 DEF Quiet, Moves, Says
      <3> QED
        BY <3>3, TalkKept
    <2>3. CASE GetForwarded(t, m) \/ GetAlive(t, m)
      <3>1. Leaves(t) /\ \A u \in Terminal \ {t} : terminal'[u] = terminal[u]
        BY <2>3, BecomesParts DEF GetForwarded, GetAlive, Leaves
      <3>2. net' \subseteq net
        BY <2>3 DEF GetForwarded, GetAlive, Reply
      <3>3. Quiet
        BY <1>1, <3>1, <3>2 DEF Quiet, Moves
      <3> QED
        BY <3>3, TalkKept
    <2>4. CASE GetNo(t, m)
      <3>1. terminal[t].st = "manage" => terminal[t].id = NoId \/ proto[AddrOf(t)] # terminal[t].id
        BY <2>4 DEF GetNo, TalkInv, Passed
      <3>2. Leaves(t) /\ \A u \in Terminal \ {t} : terminal'[u] = terminal[u]
        BY <2>4, <3>1, BecomesParts DEF GetNo, Leaves
      <3>3. net' \subseteq net
        BY <2>4 DEF GetNo, Reply
      <3>4. Quiet
        BY <1>1, <3>2, <3>3 DEF Quiet, Moves
      <3> QED
        BY <3>4, TalkKept
    <2>5. CASE GetAccept(t, m)
      <3>1. /\ terminal'[t].st = "manage" /\ terminal'[t].id = m.id
            /\ terminal'[t].port = terminal[t].port
            /\ \A u \in Terminal \ {t} : terminal'[u] = terminal[u]
        BY <2>5, BecomesParts DEF GetAccept
      <3>2. Answers(t)
        BY <2>5, <3>1 DEF GetAccept, Answers
      <3>3. ASSUME NEW n \in net' \ net PROVE Says(n)
        <4>1. n = Pkt("manage", AddrOf(t), m.id)
          BY <2>5, <3>3 DEF GetAccept, Reply
        <4>2. n.op = "manage" /\ n.addr[1] = t /\ n.addr[2] = terminal[t].port /\ n.id = m.id
          BY <1>0, <4>1 DEF Pkt
        <4> QED
          BY <3>1, <4>2 DEF Says
      <3>4. Quiet
        BY <1>1, <3>1, <3>2, <3>3 DEF Quiet, Moves
      <3> QED
        BY <3>4, TalkKept
    <2> QED
      BY <1>5, <2>1, <2>2, <2>3, <2>4, <2>5 DEF Receive
  <1> QED
    BY <1>2, <1>3, <1>4, <1>5 DEF GiveUp

LEMMA TalkInit == Init => TalkInv
  <1> SUFFICES ASSUME Init PROVE TalkInv
    OBVIOUS
  <1>1. \A t \in Terminal : terminal[t] = [st |-> "query", port |-> 1, id |-> NoId] /\ display[t].id = NoId
    BY DEF Init, NoDisplay
  <1>2. net = {} /\ lastId = 0 /\ \A t \in Terminal, p \in Port : proto[<<t, p>>] = NoId
    BY DEF Init, Addr
  <1>3. ASSUME NEW i \in Id, NEW t \in Terminal PROVE ~Cites(i, t)
    <2>1. i # NoId
      BY IdFacts
    <2>2. terminal[t].st = "query" /\ display[t].id = NoId
      BY <1>1
    <2>3. \A p \in Port : proto[<<t, p>>] # i
      BY <1>2, <2>1
    <2> QED
      BY <1>2, <2>1, <2>2, <2>3 DEF Cites
  <1> QED
    BY <1>1, <1>2, <1>3
    DEF TalkInv, OneOwner, GivenOut, RunsSome, Passed, Boots, Awaited, NoId

LEMMA TalkStep ==
  ASSUME "giveUp" \notin Env
  PROVE  TypeOK /\ IdInv /\ TalkInv /\ [Next]_vars => TalkInv'
  <1> SUFFICES ASSUME TypeOK, IdInv, TalkInv, [Next]_vars PROVE TalkInv'
    OBVIOUS
  <1>0. TypeOK'
    BY TypeStep
  <1>1. ASSUME NEW m \in net, ProcessRequestSocket(m) PROVE TalkInv'
    BY <1>0, <1>1, RequestTalk, AnswerTalk, ManageTalk DEF ProcessRequestSocket
  <1>2. CASE UNCHANGED vars
    <2>1. Quiet
      BY <1>2, StillMoves DEF vars, kdmVars, Quiet
    <2> QED
      BY <1>0, <2>1, TalkKept
  <1>3. CASE Next
    BY <1>0, <1>1, <1>3, MasterTalk, SessionTalk, TerminalTalk DEF Next
  <1> QED
    BY <1>2, <1>3
-----------------------------------------------------------------------------
\* Only a MANAGE tells a session to end, and only that of the display that it
\* replaces.
LEMMA ToldBy ==
  ASSUME TypeOK, [Next]_vars, NEW i \in Id, session'[i].term, ~session[i].term
  PROVE  \E m \in net : Manage(m) /\ display[m.addr[1]].id = i
  <1>1. ASSUME NEW m \in net, Manage(m) PROVE display[m.addr[1]].id = i
    <2>1. SUFFICES ASSUME display[m.addr[1]].id # i PROVE FALSE
      OBVIOUS
    <2>2. Stopped(m.addr[1])[i] = session[i] /\ DOMAIN Stopped(m.addr[1]) = Id
      BY <2>1 DEF Stopped
    <2>3. \/ session' = Stopped(m.addr[1])
          \/ session' = [Stopped(m.addr[1]) EXCEPT
               ![proto[m.addr]] = [NoSession EXCEPT !.st = "opening", !.chooser = UseChooser(m.addr[1])]]
      BY <1>1 DEF Manage
    <2>4. session'[i] = session[i] \/ ~session'[i].term
      BY <2>2, <2>3 DEF NoSession
    <2> QED
      BY <2>4
  <1>2. SUFFICES ASSUME \A m \in net : ~Manage(m) PROVE FALSE
    BY <1>1
  <1>3. session # session'
    OBVIOUS
  <1>4. \/ Crash
        \/ \E j \in Id : \/ WaitForChild(j) \/ OpenFails(j) \/ SessionEnds(j)
                         \/ \E t \in Terminal : Open(j, t)
                         \/ \E t \in Terminal, host \in Hosts : Choose(j, t, host)
    <2>1. Next
      BY <1>3 DEF vars
    <2>2. ASSUME NEW m \in net, ProcessRequestSocket(m) PROVE session' = session
      BY <1>2, <2>2 DEF ProcessRequestSocket, RespondQuery, RespondIndirect, AcceptAgain, AcceptNew,
         Decline, ManageDuplicate, ManageRefused, SendAlive
    <2>3. ASSUME NEW m \in net, Lose(m) \/ \E t \in Terminal : Receive(t, m) PROVE session' = session
      BY <2>3 DEF Lose, Receive, GetWilling, GetForwarded, GetAccept, GetNo, GetAlive, Discard
    <2>4. ASSUME NEW t \in Terminal, \/ Ask(t) \/ ReturnsFrom(t) \/ GiveUp(t) \/ Reboot(t)
                                     \/ ChoiceTimeout(t)
                                     \/ \E host \in Hosts : RegisterIndirectChoice(t, host)
          PROVE  session' = session
      BY <2>4 DEF Ask, ReturnsFrom, GiveUp, Reboot, ChoiceTimeout, RegisterIndirectChoice
    <2>5. ASSUME NEW a \in Addr, ProtoAges(a) PROVE session' = session
      BY <2>5 DEF ProtoAges
    <2> QED
      BY <1>3, <2>1, <2>2, <2>3, <2>4, <2>5 DEF Next
  <1>5. session[i] \in [st : {"none", "opening", "open", "dead", "gone"},
                        chooser : BOOLEAN, term : BOOLEAN, failed : BOOLEAN]
    BY DEF TypeOK
  <1>6. CASE Crash
    BY <1>5, <1>6 DEF Crash, NoSession
  <1>7. ASSUME NEW j \in Id, \/ WaitForChild(j) \/ OpenFails(j) \/ SessionEnds(j)
                             \/ \E t \in Terminal : Open(j, t)
                             \/ \E t \in Terminal, host \in Hosts : Choose(j, t, host)
        PROVE  session'[i].term = session[i].term
    BY <1>5, <1>7 DEF WaitForChild, OpenFails, SessionEnds, Open, Choose, TypeOK
  <1> QED
    BY <1>4, <1>6, <1>7

\* No late or repeated packet ends the session that its terminal is using,
\* when no terminal gives up a handshake: not of any number of terminals, with
\* packets lost, sent twice or overtaking each other, reboots and a crash of
\* the host; only an offer made at another port may (xdmcp.c:1004-1041).
THEOREM SessionInUse == ASSUME "giveUp" \notin Env PROVE Spec => SessionInUseKept
  <1>1. TypeOK /\ IdInv /\ TalkInv /\ [Next]_vars =>
          [\A t \in Terminal :
              InUse(t) /\ (\A p \in Port \ {terminal[t].port} : proto[<<t, p>>] = NoId)
              => (session'[terminal[t].id].term => session[terminal[t].id].term)]_vars
    <2> SUFFICES ASSUME TypeOK, IdInv, TalkInv, [Next]_vars, NEW t \in Terminal, InUse(t),
                        \A p \in Port \ {terminal[t].port} : proto[<<t, p>>] = NoId,
                        session'[terminal[t].id].term, ~session[terminal[t].id].term
                 PROVE  FALSE
      OBVIOUS
    <2>1. terminal[t].st = "run" /\ terminal[t].id \in Id
      BY DEF InUse, TalkInv, RunsSome
    <2>2. PICK m \in net : Manage(m) /\ display[m.addr[1]].id = terminal[t].id
      BY <2>1, ToldBy
    <2>3. /\ m.addr \in Addr /\ m.addr[1] \in Terminal /\ m.addr[2] \in Port
          /\ m.addr = <<m.addr[1], m.addr[2]>>
      BY PacketParts DEF TypeOK
    <2>4. m.op = "manage" /\ proto[m.addr] = m.id /\ m.id # NoId
      BY <2>2 DEF Manage, Matches
    <2>5. m.addr[1] = t
      <3>1. Cites(terminal[t].id, t) /\ Cites(terminal[t].id, m.addr[1])
        BY <2>1, <2>2 DEF Cites
      <3> QED
        BY <2>1, <2>3, <3>1 DEF TalkInv, OneOwner
    <2>6. m.addr[2] = terminal[t].port
      BY <2>3, <2>4, <2>5
    <2>7. Takes(m, t)
      BY <2>3, <2>4, <2>5, <2>6 DEF Takes, AddrOf
    <2> QED
      BY <2>1, <2>7 DEF TalkInv, Awaited
  <1>2. Init => TypeOK /\ IdInv /\ TalkInv
    BY TypeInit, IdInit, TalkInit
  <1>3. TypeOK /\ IdInv /\ TalkInv /\ [Next]_vars => (TypeOK /\ IdInv /\ TalkInv)'
    BY TypeStep, IdStep, TalkStep
  <1> QED
    BY <1>1, <1>2, <1>3, PTL DEF Spec, SessionInUseKept
=============================================================================
