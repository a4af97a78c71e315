-------------------------- MODULE KdmSessionProofs --------------------------
(* Type correctness and the two safety properties of KdmSession, for any   *)
(* kinds of displays and any number of SIGTERMs.                           *)
EXTENDS KdmSession, TLAPS

USE TermAssumption

\* What the types do not say: when SIGTERM can be caught, that clientPid is
\* that of a client, and that what pid holds has been waited for.
Told == /\ client.st = "none" => client.told = "no"
        /\ client.told = "failed" => client.st \in {"zombie", "reaped"}

ChildInv ==
    /\ Told
    /\ pc \in Greeting => ~login
    /\ pc \in Session \cup Aborting \cup {"reset", "resetting"} => login
    /\ ~login => client.st = "none"
    /\ pc = "start" => client.st = "none"
    /\ pc \in {"forked", "loop", "wait", "waited", "ping", "killwait"} => client.st # "none"
    /\ pc \in {"loop", "wait", "waited", "ping", "killwait"} => known
    /\ known => client.st # "none"
    /\ got => client.st = "reaped"
    /\ alarm = "catchAlrm" => known

\* From the second try on AbortClient has sent SIGKILL.
AbortInv ==
    /\ pc = "killwait" => client.st \in {"live", "zombie"}
    /\ pc = "killwait" /\ client.st = "live" /\ tries > 0 => client.told = "kill"

\* Without SIGTERM, alarms are set where they are waited for.
ClockInv ==
    terms = 0 => /\ alarm = "catchAlrm" => pc \in {"wait", "waited"}
                 /\ alarm = "pingLost" => pc = "ping"
                 /\ alarm = "waitAbort" => pc = "killwait"
                 /\ alarm = "abortReset" => pc \in {"resetServer", "exited"}
                 /\ ~pingIO

AfterReset == login /\ pc \in {"resetting", "exit", "resetServer", "drop", "exited"}

\* How often the reset script was run or could not be, by the process and by
\* a child that could not become the user, at any time
Scripts == (IF AfterReset THEN 1 ELSE 0) + (IF client.told = "failed" THEN 1 ELSE 0)

CountInv ==
    /\ ~login => resets = 0 /\ unforked = 0
    /\ resets + unforked >= Scripts
    /\ terms = 0 /\ pc # "wild" => resets + unforked = Scripts

IInv == TypeOK /\ ChildInv /\ AbortInv /\ ClientFirst /\ ClockInv /\ CountInv

LEMMA InitInv == Init => IInv
<1> SUFFICES ASSUME Init PROVE IInv
  OBVIOUS
<1> USE DEF Init, Running, Greeting, Session, Aborting, Ending
<1>1. TypeOK
  <2>1. /\ login \in BOOLEAN /\ known \in BOOLEAN /\ got \in BOOLEAN
        /\ pingIO \in BOOLEAN /\ stray \in BOOLEAN
    OBVIOUS
  <2>2. kind \in Kinds /\ pc \in Running \cup {"exited", "wild"}
    OBVIOUS
  <2>3. /\ client \in [st : {"none", "young", "live", "zombie", "reaped"},
                       told : {"no", "term", "kill", "missed", "failed"}]
        /\ alarm \in {"off", "catchAlrm", "pingLost", "waitAbort", "abortReset"}
        /\ code \in {"OBEYSESS", "UNMANAGE", "RESERVER", "OPENFAILED", "SIGTERM"}
    OBVIOUS
  <2>4. tries \in 0..3 /\ resets \in Nat /\ unforked \in Nat /\ terms \in 0..MaxTerm
    OBVIOUS
  <2>. QED  BY <2>1, <2>2, <2>3, <2>4 DEF TypeOK
<1>2. ChildInv /\ AbortInv /\ ClientFirst
  BY DEF ChildInv, Told, AbortInv, ClientFirst
<1>3. ClockInv
  BY DEF ClockInv
<1>4. CountInv
  BY DEF CountInv, AfterReset, Scripts
<1>. QED  BY <1>1, <1>2, <1>3, <1>4 DEF IInv

\* Greeter
LEMMA GreeterKeeps == IInv /\ Greeter => IInv'
<1> SUFFICES ASSUME IInv, Greeter PROVE IInv'
  OBVIOUS
<1> USE DEF IInv, TypeOK, ChildInv, Told, AbortInv, ClientFirst, Finished, ClockInv, CountInv,
            AfterReset, Scripts, Running, Greeting, Session, Aborting, Ending,
            vars, child, clock, past
<1>1. CASE WaitForServer
  BY <1>1 DEF WaitForServer, Exits
<1>2. CASE SecureDisplay
  BY <1>2 DEF SecureDisplay, SessionExit
<1>3. CASE Greet
  BY <1>3 DEF Greet, Exits
<1>4. CASE Startup
  <2>1. TypeOK'
    BY <1>4 DEF Startup, SessionExit
  <2>2. ChildInv'
    BY <1>4 DEF Startup, SessionExit
  <2>3. AbortInv'
    BY <1>4 DEF Startup, SessionExit
  <2>4. ClientFirst'
    BY <1>4 DEF Startup, SessionExit
  <2>5. ClockInv'
    BY <1>4 DEF Startup, SessionExit
  <2>6. CountInv'
    BY <1>4 DEF Startup, SessionExit
  <2>. QED  BY <2>1, <2>2, <2>3, <2>4, <2>5, <2>6
<1>. QED  BY <1>1, <1>2, <1>3, <1>4 DEF Greeter

\* The session, from the start of the client on
LEMMA SessionKeeps ==
    IInv /\ (StartClient \/ SetClientPid \/ Loop \/ Wait \/ Waited \/ PingAnswered) => IInv'
<1> SUFFICES ASSUME IInv,
                    StartClient \/ SetClientPid \/ Loop \/ Wait \/ Waited \/ PingAnswered
             PROVE  IInv'
  OBVIOUS
<1> USE DEF IInv, TypeOK, ChildInv, Told, AbortInv, ClientFirst, Finished, ClockInv, CountInv,
            AfterReset, Scripts, Running, Greeting, Session, Aborting, Ending,
            vars, child, clock, past
<1>1. CASE StartClient
  BY <1>1 DEF StartClient
<1>2. CASE SetClientPid
  BY <1>2 DEF SetClientPid
<1>3. CASE Loop
  BY <1>3 DEF Loop
<1>4. CASE Wait
  BY <1>4 DEF Wait
<1>5. CASE Waited
  BY <1>5 DEF Waited, Continue
<1>6. CASE PingAnswered
  BY <1>6 DEF PingAnswered, Continue
<1>. QED  BY <1>1, <1>2, <1>3, <1>4, <1>5, <1>6

\* AbortClient
LEMMA AbortKeeps == IInv /\ (Kill \/ KillSelf \/ KillWait) => IInv'
<1> SUFFICES ASSUME IInv, Kill \/ KillSelf \/ KillWait PROVE IInv'
  OBVIOUS
<1> USE DEF IInv, TypeOK, ChildInv, Told, AbortInv, ClientFirst, Finished, ClockInv, CountInv,
            AfterReset, Scripts, Running, Greeting, Session, Aborting, Ending,
            vars, child, clock, past
<1>1. CASE Kill
  BY <1>1 DEF Kill
<1>2. CASE KillSelf
  BY <1>2 DEF KillSelf
<1>3. CASE KillWait
  BY <1>3 DEF KillWait, NextTry
<1>. QED  BY <1>1, <1>2, <1>3

\* The reset script and the end
LEMMA EndKeeps ==
    IInv /\ (StartReset \/ EndReset \/ ResetServer \/ pseudoReset \/ RemoveAuth) => IInv'
<1> SUFFICES ASSUME IInv,
                    StartReset \/ EndReset \/ ResetServer \/ pseudoReset \/ RemoveAuth
             PROVE  IInv'
  OBVIOUS
<1> USE DEF IInv, TypeOK, ChildInv, Told, AbortInv, ClientFirst, Finished, ClockInv, CountInv,
            AfterReset, Scripts, Running, Greeting, Session, Aborting, Ending,
            vars, child, clock, past
<1>1. CASE StartReset
  <2>1. TypeOK'
    BY <1>1 DEF StartReset
  <2>2. ChildInv'
    BY <1>1 DEF StartReset
  <2>3. AbortInv'
    BY <1>1 DEF StartReset
  <2>4. ClientFirst'
    BY <1>1 DEF StartReset
  <2>5. ClockInv'
    BY <1>1 DEF StartReset
  <2>6. CountInv'
    BY <1>1 DEF StartReset
  <2>. QED  BY <2>1, <2>2, <2>3, <2>4, <2>5, <2>6
<1>2. CASE EndReset
  BY <1>2 DEF EndReset
<1>3. CASE ResetServer
  BY <1>3 DEF ResetServer, Leave
<1>4. CASE pseudoReset
  <2>1. TypeOK'
    BY <1>4 DEF pseudoReset, Leave, Exits
  <2>2. ChildInv'
    BY <1>4 DEF pseudoReset, Leave, Exits
  <2>3. AbortInv'
    BY <1>4 DEF pseudoReset, Leave, Exits
  <2>4. ClientFirst'
    BY <1>4 DEF pseudoReset, Leave, Exits
  <2>5. ClockInv'
    BY <1>4 DEF pseudoReset, Leave, Exits
  <2>6. CountInv'
    BY <1>4 DEF pseudoReset, Leave, Exits
  <2>. QED  BY <2>1, <2>2, <2>3, <2>4, <2>5, <2>6
<1>5. CASE RemoveAuth
  BY <1>5 DEF RemoveAuth
<1>. QED  BY <1>1, <1>2, <1>3, <1>4, <1>5

\* Signals: the handlers jump, the client stays as it is.
LEMMA SignalKeeps == IInv /\ (Sigterm \/ Alarm \/ PingLostIOErr) => IInv'
<1> SUFFICES ASSUME IInv, Sigterm \/ Alarm \/ PingLostIOErr PROVE IInv'
  OBVIOUS
<1> USE DEF IInv, TypeOK, ChildInv, Told, AbortInv, ClientFirst, Finished, ClockInv, CountInv,
            AfterReset, Scripts, Running, Greeting, Session, Aborting, Ending,
            vars, child, clock, past
<1>1. CASE Sigterm
  BY <1>1 DEF Sigterm
<1>2. CASE CatchAlrm
  <2>1. TypeOK'
    <3>1. got' \in BOOLEAN
      BY <1>2 DEF CatchAlrm
    <3>2. stray' \in BOOLEAN
      BY <1>2 DEF CatchAlrm
    <3> QED
      BY <1>2, <3>1, <3>2 DEF CatchAlrm
  <2>2. ChildInv'
    BY <1>2 DEF CatchAlrm
  <2>3. AbortInv'
    BY <1>2 DEF CatchAlrm
  <2>4. ClientFirst'
    BY <1>2 DEF CatchAlrm
  <2>5. ClockInv'
    BY <1>2 DEF CatchAlrm
  <2>6. CountInv'
    BY <1>2 DEF CatchAlrm
  <2>. QED  BY <2>1, <2>2, <2>3, <2>4, <2>5, <2>6
<1>3. CASE PingLostSig
  BY <1>3 DEF PingLostSig, SessionPingFailed, Wild
<1>4. CASE WaitAbort
  <2>1. TypeOK'
    <3>1. CASE pc = "killwait"
      BY <1>4, <3>1 DEF WaitAbort, NextTry
    <3>2. CASE pc # "killwait"
      BY <1>4, <3>2 DEF WaitAbort, Wild
    <3>. QED  BY <3>1, <3>2
  <2>2. ChildInv'
    BY <1>4 DEF WaitAbort, NextTry, Wild
  <2>3. AbortInv'
    BY <1>4 DEF WaitAbort, NextTry, Wild
  <2>4. ClientFirst'
    <3>1. client' = client
      BY <1>4 DEF WaitAbort, Wild
    <3>2. CASE pc = "killwait" /\ tries = 3
      BY <3>1, <3>2
    <3>3. CASE pc = "killwait" /\ tries # 3
      BY <1>4, <3>3 DEF WaitAbort, NextTry
    <3>4. CASE pc # "killwait"
      BY <1>4, <3>4 DEF WaitAbort, Wild
    <3>. QED  BY <3>2, <3>3, <3>4
  <2>5. ClockInv'
    BY <1>4 DEF WaitAbort, NextTry, Wild
  <2>6. CountInv'
    <3>1. UNCHANGED <<login, client, resets, unforked, terms>>
      BY <1>4 DEF WaitAbort, Wild
    <3>2. CASE pc = "killwait"
      <4>1. pc' \in {"reset", "kill"}
        BY <1>4, <3>2 DEF WaitAbort, NextTry
      <4>. QED  BY <3>1, <3>2, <4>1
    <3>3. CASE pc # "killwait"
      <4>1. pc' = "wild"
        BY <1>4, <3>3 DEF WaitAbort, Wild
      <4>. QED  BY <3>1, <4>1
    <3>. QED  BY <3>2, <3>3
  <2>. QED  BY <2>1, <2>2, <2>3, <2>4, <2>5, <2>6
<1>5. CASE AbortReset
  <2>1. TypeOK'
    BY <1>5 DEF AbortReset, Leave, Wild
  <2>2. ChildInv'
    BY <1>5 DEF AbortReset, Leave, Wild
  <2>3. AbortInv'
    BY <1>5 DEF AbortReset, Leave, Wild
  <2>4. ClientFirst'
    BY <1>5 DEF AbortReset, Leave, Wild
  <2>5. ClockInv'
    BY <1>5 DEF AbortReset, Leave, Wild
  <2>6. CountInv'
    BY <1>5 DEF AbortReset, Leave, Wild
  <2>. QED  BY <2>1, <2>2, <2>3, <2>4, <2>5, <2>6
<1>6. CASE PingLostIOErr
  BY <1>6 DEF PingLostIOErr, SessionPingFailed
<1>. QED  BY <1>1, <1>2, <1>3, <1>4, <1>5, <1>6 DEF Alarm

\* The client's own steps
LEMMA ClientKeeps == IInv /\ (ClientRuns \/ ClientEnds) => IInv'
<1> SUFFICES ASSUME IInv, ClientRuns \/ ClientEnds PROVE IInv'
  OBVIOUS
<1> USE DEF IInv, TypeOK, ChildInv, Told, AbortInv, ClientFirst, Finished, ClockInv, CountInv,
            AfterReset, Scripts, Running, Greeting, Session, Aborting, Ending,
            vars, child, clock, past
<1>1. CASE ClientRuns
  BY <1>1 DEF ClientRuns
<1>2. CASE ClientEnds
  BY <1>2 DEF ClientEnds
<1>. QED  BY <1>1, <1>2

LEMMA NextKeeps == IInv /\ [Next]_vars => IInv'
<1> SUFFICES ASSUME IInv, [Next]_vars PROVE IInv'
  OBVIOUS
<1>1. CASE UNCHANGED vars
  BY <1>1 DEF IInv, TypeOK, ChildInv, Told, AbortInv, ClientFirst, Finished, ClockInv, CountInv,
              AfterReset, Scripts, vars, child, clock, past
<1>2. CASE Next
  BY <1>1, <1>2, GreeterKeeps, SessionKeeps, AbortKeeps, EndKeeps, SignalKeeps, ClientKeeps
     DEF Next, ManageSession, Over
<1>. QED  BY <1>1, <1>2

LEMMA Invariant == Spec => []IInv
<1>1. Init => IInv
  BY InitInv
<1>2. IInv /\ [Next]_vars => IInv'
  BY NextKeeps
<1>. QED  BY <1>1, <1>2, PTL DEF Spec

\* The variables keep their types: AbortClient makes four tries at most, and
\* the exit status is always one that WaitForChild of dm.c has a case for.
THEOREM SessionTypeCorrect == Spec => []TypeOK
<1>1. IInv => TypeOK
  BY DEF IInv
<1>. QED  BY <1>1, Invariant, PTL

\* The reset script never runs beside a client that was not killed, whatever
\* signals and alarms interrupt the session.
THEOREM ClientAlwaysFirst == Spec => []ClientFirst
<1>1. IInv => ClientFirst
  BY DEF IInv
<1>. QED  BY <1>1, Invariant, PTL

\* A session that was logged in to is never left before the reset script was
\* run or its fork failed, and without SIGTERM one script is tried for.
THEOREM ResetAlwaysTried == Spec => []ResetRuns
<1>1. IInv => ResetRuns
  BY DEF IInv, TypeOK, CountInv, AfterReset, Scripts, ResetRuns
<1>. QED  BY <1>1, Invariant, PTL
=============================================================================
