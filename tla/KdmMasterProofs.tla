-------------------------- MODULE KdmMasterProofs --------------------------
(* What KdmMaster keeps for every set of displays and process ids.         *)
EXTENDS KdmMaster, TLAPS

\* StartServer's counter is below serverAttempts while an attempt is under
\* way, and StartDisplay works on a display.
WorkInv == /\ pc \in {"pause", "sleep"} => MayRetry
           /\ pc \in Working => cur \in Name

\* A display that StartDisplay works on, and any that is not being stopped, has
\* tries left.
Untired(r) == r.status # "zombie" => r.startTries < StartAttempts
TriesInv == /\ TriesOK
            /\ pc \in Working => dpy[cur].startTries < StartAttempts

TypedInv == Types /\ WorkInv
TypeInv  == Types /\ WorkInv /\ TriesInv

LEMMA NewTypes ==
  /\ \A l \in {"local", "foreign"}, o \in {"file", "xdmcp"} : NewDisplay(l, o) \in DisplayRecord
  /\ NoDisplay \in DisplayRecord
  /\ NoProcess \in ProcessRecord
  /\ \A k \in {"server", "session"} : Process(k) \in ProcessRecord
  <1>1. \A l \in {"local", "foreign"}, o \in {"file", "xdmcp"} : NewDisplay(l, o) \in DisplayRecord
    BY ResourcesAssumption DEF NewDisplay, DisplayRecord
  <1>2. NoDisplay \in DisplayRecord
    BY <1>1 DEF NoDisplay
  <1> QED
    BY <1>1, <1>2 DEF NoProcess, Process, ProcessRecord, SessionCodes

LEMMA TypeInit == Init => TypeInv
  <1> SUFFICES ASSUME Init PROVE TypeInv
    OBVIOUS
  <1>1. dpy \in [Name -> DisplayRecord] /\ proc \in [Pid -> ProcessRecord]
    BY NewTypes DEF Init
  <1>2. pc \in Control /\ WorkInv
    BY DEF Init, Control, WorkInv, Working
  <1>3. /\ attempt \in 0 .. ServerAttempts
        /\ failures \in [Name -> 0 .. StartAttempts]
    BY ResourcesAssumption DEF Init
  <1>4. sockets \in BOOLEAN
    BY DEF Init
  <1>5. TriesInv
    BY ResourcesAssumption DEF Init, TriesInv, TriesOK, NoDisplay, NewDisplay, Working
  <1> QED
    BY <1>1, <1>2, <1>3, <1>4, <1>5 DEF Init, TypeInv, Types

\* Reading the servers file keeps the list and its records well formed.
LEMMA ScannedType ==
  ASSUME Types, NEW mark \in BOOLEAN
  PROVE  ScannedRecs(mark) \in [Name -> DisplayRecord] /\ ScannedList \subseteq Name
  <1>1. ASSUME NEW n \in Name PROVE ScannedRecs(mark)[n] \in DisplayRecord
    <2>1. dpy[n] \in DisplayRecord /\ servers[n] \in {"absent", "local", "foreign"}
      BY DEF Types
    <2>2. [dpy[n] EXCEPT !.state = "missing"] \in DisplayRecord
      BY <2>1 DEF DisplayRecord
    <2>3. servers[n] # "absent" =>
            /\ [dpy[n] EXCEPT !.state = "old", !.location = servers[n], !.origin = "file"] \in DisplayRecord
            /\ NewDisplay(servers[n], "file") \in DisplayRecord
      BY ZenonT(60), <2>1, NewTypes DEF DisplayRecord
    <2> QED
      BY <2>1, <2>2, <2>3 DEF ScannedRecs
  <1> QED
    BY <1>1 DEF ScannedRecs, ScannedList, Types

\* ... and makes no record that has been tried too often.
LEMMA ScanTries ==
  ASSUME Types, TriesOK, NEW mark \in BOOLEAN, NEW n \in Name
  PROVE  Untired(ScannedRecs(mark)[n])
  <1>1. dpy[n] \in DisplayRecord /\ Untired(dpy[n])
    BY DEF Types, TriesOK, Untired
  <1>2. ScannedRecs(mark)[n] \in
          {dpy[n], [dpy[n] EXCEPT !.state = "missing"],
           [dpy[n] EXCEPT !.state = "old", !.location = servers[n], !.origin = "file"],
           NewDisplay(servers[n], "file")}
    BY Zenon DEF ScannedRecs
  <1>3. CASE ScannedRecs(mark)[n] = [dpy[n] EXCEPT !.state = "missing"]
    BY <1>1, <1>3 DEF Untired, DisplayRecord
  <1>4. CASE ScannedRecs(mark)[n] = [dpy[n] EXCEPT !.state = "old", !.location = servers[n],
                                                   !.origin = "file"]
    BY <1>1, <1>4 DEF Untired, DisplayRecord
  <1>5. CASE ScannedRecs(mark)[n] = NewDisplay(servers[n], "file")
    BY <1>5, ResourcesAssumption DEF Untired, NewDisplay
  <1> QED
    BY <1>1, <1>2, <1>3, <1>4, <1>5

LEMMA StopType ==
  ASSUME NEW ns \in SUBSET Name, NEW ds \in SUBSET Name, NEW recs \in [Name -> DisplayRecord],
         StopList(ns, ds, recs)
  PROVE  displays' \subseteq Name /\ dpy' \in [Name -> DisplayRecord]
  BY NamesAssumption, ResourcesAssumption
  DEF StopList, DisplayRecord, NoDisplay, NewDisplay

LEMMA KilledType ==
  ASSUME Types, NEW ps
  PROVE  Terminated(ps) \in [Pid -> ProcessRecord]
  BY DEF Types, Terminated, ProcessRecord, Live

LEMMA WaitedType ==
  ASSUME NEW procs \in [Pid -> ProcessRecord], NEW p
  PROVE  Waited(procs, p) \in [Pid -> ProcessRecord]
  BY NewTypes DEF Waited

\* The list and the records that a turn of the waitpid loop starts from.
ReapedList == IF AutoRescan /\ fileModified THEN ScannedList ELSE displays
ReapedRecs == IF AutoRescan /\ fileModified THEN ScannedRecs(TRUE) ELSE dpy

\* A display whose session ended is stopped or restarted, with the record q of
\* its tries; it has what it had otherwise.
Counted(q, r) == /\ q.pid = r.pid /\ q.serverPid = r.serverPid /\ q.status = r.status
                 /\ q.location = r.location /\ q.origin = r.origin

StopCause(r, code) == \/ code \in {"UNMANAGE", "other"}
                      \/ code = "OPENFAILED" /\ LastTry(r)
                      \/ Over(r)

LEMMA SessionEndedCases ==
  ASSUME NEW r \in DisplayRecord, Untired(r), NEW n, NEW ds, NEW recs, NEW p, NEW code,
         SessionEnded(n, r, code, ds, recs, p)
  PROVE  \E q \in DisplayRecord :
            /\ Counted(q, r)
            /\ \/ StopDisplay(n, q, ds, recs, p) /\ StopCause(r, code)
               \/ /\ ~Over(r) /\ \E force \in BOOLEAN : RestartDisplay(n, q, force, ds, recs, p)
                  /\ q.startTries = IF code = "OPENFAILED" THEN r.startTries + 1 ELSE 0
                  /\ code = "OPENFAILED" => ~LastTry(r)
  <1>1. /\ Opened(r) \in DisplayRecord /\ Counted(Opened(r), r) /\ Opened(r).startTries = 0
        /\ ~Over(r) => Failed(r) \in DisplayRecord
        /\ Counted(Failed(r), r) /\ Failed(r).startTries = r.startTries + 1
        /\ Counted(r, r)
    BY ResourcesAssumption DEF Opened, Over, Untired, Failed, Counted, DisplayRecord
  <1>2. CASE code \in {"UNMANAGE", "other"}
    BY <1>1, <1>2 DEF SessionEnded, StopCause
  <1>3. CASE code = "OPENFAILED"
    BY <1>1, <1>3 DEF SessionEnded, StopCause
  <1>4. CASE code \in {"OBEYSESS", "REMANAGE", "RESERVER", "SIGTERM"}
    BY <1>1, <1>4 DEF SessionEnded, StopCause
  <1> QED
    BY <1>2, <1>3, <1>4 DEF SessionEnded

LEMMA SessionEndedType ==
  ASSUME Types, NEW ds \in SUBSET Name, NEW recs \in [Name -> DisplayRecord],
         NEW n \in Name, NEW r \in DisplayRecord, NEW p \in Pid, NEW code,
         Untired(r), SessionEnded(n, r, code, ds, recs, p)
  PROVE  displays' \subseteq Name /\ dpy' \in [Name -> DisplayRecord] /\ proc' \in [Pid -> ProcessRecord]
  <1>2. proc' \in [Pid -> ProcessRecord]
    BY KilledType, WaitedType DEF SessionEnded, StopDisplay, RestartDisplay
  <1>3. ASSUME NEW q \in DisplayRecord, StopDisplay(n, q, ds, recs, p)
        PROVE  displays' \subseteq Name /\ dpy' \in [Name -> DisplayRecord]
    <2>1. StopList({n}, ds, [recs EXCEPT ![n] = q]) /\ [recs EXCEPT ![n] = q] \in [Name -> DisplayRecord]
      BY <1>3 DEF StopDisplay
    <2> QED
      BY <2>1, StopType
  <1>4. ASSUME NEW q \in DisplayRecord, NEW force, RestartDisplay(n, q, force, ds, recs, p)
        PROVE  displays' \subseteq Name /\ dpy' \in [Name -> DisplayRecord]
    <2>1. \A s \in {"phoenix", "notRunning"} : [q EXCEPT !.status = s] \in DisplayRecord
      BY DEF DisplayRecord
    <2> QED
      BY <1>4, <2>1 DEF RestartDisplay
  <1> QED
    BY <1>2, <1>3, <1>4, SessionEndedCases

LEMMA ServerEndedType ==
  ASSUME Types, NEW ds \in SUBSET Name, NEW recs \in [Name -> DisplayRecord],
         NEW n \in Name, NEW r \in DisplayRecord, NEW p \in Pid,
         ServerEnded(n, r, ds, recs, p)
  PROVE  displays' \subseteq Name /\ dpy' \in [Name -> DisplayRecord] /\ proc' \in [Pid -> ProcessRecord]
  <1>1. proc' \in [Pid -> ProcessRecord]
    BY KilledType, WaitedType DEF ServerEnded, Types
  <1>2. [r EXCEPT !.status = AfterServer(r.status)] \in DisplayRecord
    BY DEF AfterServer, DisplayRecord
  <1> QED
    BY <1>1, <1>2, NewTypes DEF ServerEnded, RemoveDisplay

LEMMA ReapType ==
  ASSUME TypeInv, NEW p \in Pid, Reap(p)
  PROVE  TypedInv'
  <1>1. /\ ReapedList \in SUBSET Name
        /\ ReapedRecs \in [Name -> DisplayRecord]
    BY ScannedType DEF ReapedList, ReapedRecs, TypeInv, TypedInv, Types
  <1>2. \A n \in Name : /\ WithoutPid(ReapedRecs[n]) \in DisplayRecord
                        /\ WithoutServer(ReapedRecs[n]) \in DisplayRecord
    BY <1>1 DEF WithoutPid, WithoutServer, DisplayRecord
  <1>7. \A n \in Name : Untired(WithoutPid(ReapedRecs[n]))
    <2>1. \A n \in Name : Untired(ReapedRecs[n])
      BY ScanTries DEF ReapedRecs, TypeInv, TriesInv, TriesOK, Untired
    <2> QED
      BY <1>1, <2>1 DEF Untired, WithoutPid, DisplayRecord
  <1>3. ByPid(p) \subseteq Name /\ ByServerPid(p) \subseteq Name
    BY DEF ByPid, ByServerPid, TypeInv, TypedInv, Types
  <1>4. displays' \subseteq Name /\ dpy' \in [Name -> DisplayRecord] /\ proc' \in [Pid -> ProcessRecord]
    <2>1. CASE \E n \in ByPid(p) : SessionEnded(n, WithoutPid(ReapedRecs[n]), proc[p].code,
                                               ReapedList, ReapedRecs, p)
      BY <1>1, <1>2, <1>3, <1>7, <2>1, SessionEndedType DEF TypeInv
    <2>2. CASE \E n \in ByServerPid(p) : ServerEnded(n, WithoutServer(ReapedRecs[n]),
                                                    ReapedList, ReapedRecs, p)
      BY <1>1, <1>2, <1>3, <2>2, ServerEndedType DEF TypeInv
    <2>3. CASE displays' = ReapedList /\ dpy' = ReapedRecs /\ proc' = Waited(proc, p)
      BY <1>1, <2>3, WaitedType DEF TypeInv, TypedInv, Types
    <2> QED
      BY <2>1, <2>2, <2>3 DEF Reap, ReapedList, ReapedRecs
  <1>5. fileModified' \in BOOLEAN
    BY DEF Reap
  <1>6. failures' \in [Name -> 0 .. StartAttempts]
    BY ResourcesAssumption DEF Reap, TypeInv, TypedInv, Types
  <1> QED
    BY <1>4, <1>5, <1>6 DEF Reap, flags, iterate, TypeInv, TypedInv, Types, WorkInv, MayRetry

LEMMA TypedStep == TypeInv /\ [Next]_vars => TypedInv'
  <1> SUFFICES ASSUME TypeInv, [Next]_vars PROVE TypedInv'
    OBVIOUS
  <1> USE NamesAssumption, ResourcesAssumption, EnvAssumption
  <1>1. CASE UNCHANGED vars
    BY <1>1 DEF vars, list, file, flags, iterate, counts, TypeInv, TypedInv, Types, WorkInv, MayRetry
  <1>2. CASE Startup
    BY <1>2, ScannedType DEF Startup, StartDisplays, file, flags, counts, TypeInv, TypedInv, Types,
       WorkInv, MayRetry, Control, Starting, Working
  <1>3. CASE Exit \/ LoopOn \/ WaitForSomething \/ Select \/ Selected \/ OtherPacket
    BY <1>3 DEF Exit, LoopOn, WaitForSomething, Select, Selected, OtherPacket, list, file, flags,
       iterate, counts, TypeInv, TypedInv, Types, WorkInv, Control, Idle, Working
  <1>4. CASE RescanServers
    BY <1>4, ScannedType DEF RescanServers, StartDisplays, file, flags, counts, TypeInv, TypedInv, Types,
       WorkInv, MayRetry, Control, Starting, Working
  <1>5. CASE WaitForChild \/ Resume
    BY ZenonT(60), <1>5 DEF WaitForChild, Resume, list, file, iterate, counts, TypeInv, TypedInv, Types, WorkInv,
       Control, Idle, Working
  <1>6. ASSUME NEW n \in Remote, Manage(n) PROVE TypedInv'
    <2>1. dpy' \in [Name -> DisplayRecord] /\ proc' \in [Pid -> ProcessRecord]
      BY <1>6, NewTypes, KilledType DEF Manage, TypeInv, TypedInv, Types
    <2>2. n \in Name
      BY DEF Name
    <2> QED
      BY <1>6, <2>1, <2>2 DEF Manage, file, flags, counts, TypeInv, TypedInv, Types, WorkInv,
         Control, Starting, Working
  <1>7. ASSUME NEW p \in Pid, Reap(p) PROVE TypedInv'
    BY <1>7, ReapType
  <1>8. CASE Reaped
    BY <1>8 DEF Reaped, StartDisplays, list, file, flags, counts, TypeInv, TypedInv, Types, WorkInv,
       Control, Starting, Working
  <1>9. CASE CheckNothing
    BY <1>9 DEF CheckNothing, Advance, file, flags, counts, TypeInv, TypedInv, Types, WorkInv,
       DisplayRecord, Working
  <1>10. CASE CheckMissing
    <2>1. displays' \subseteq Name /\ dpy' \in [Name -> DisplayRecord]
      BY <1>10, StopType DEF CheckMissing, TypeInv, TypedInv, Types
    <2>2. proc' \in [Pid -> ProcessRecord]
      BY <1>10, KilledType DEF CheckMissing, TypeInv
    <2> QED
      BY <1>10, <2>1, <2>2 DEF CheckMissing, Advance, file, flags, counts, TypeInv, TypedInv, Types,
         WorkInv, Working
  <1>11. CASE CheckStart
    BY <1>11 DEF CheckStart, Advance, file, flags, TypeInv, TypedInv, Types, WorkInv,
       DisplayRecord, Control, Starting, Working
  <1>12. ASSUME NEW p \in Pid, ForkServer(p) \/ ForkSession(p) \/ PauseWait(p) PROVE TypedInv'
    <2>1. dpy' \in [Name -> DisplayRecord]
      <3>1. \A n \in Name : /\ [dpy[n] EXCEPT !.serverPid = p] \in DisplayRecord
                            /\ [dpy[n] EXCEPT !.pid = p, !.status = "running"] \in DisplayRecord
        BY ZenonT(60) DEF TypeInv, TypedInv, Types, DisplayRecord
      <3>2. CASE ForkServer(p)
        BY <3>1, <3>2 DEF ForkServer, TypeInv, TypedInv, Types
      <3>3. CASE ForkSession(p)
        BY <3>1, <3>3 DEF ForkSession, TypeInv, TypedInv, Types
      <3>4. CASE PauseWait(p)
        BY <3>4 DEF PauseWait, list, TypeInv, TypedInv, Types
      <3> QED
        BY <1>12, <3>2, <3>3, <3>4
    <2>2. proc' \in [Pid -> ProcessRecord]
      BY <1>12, NewTypes, WaitedType DEF ForkServer, ForkSession, PauseWait, TypeInv, TypedInv, Types,
         TakenProcess, ProcessRecord
    <2>3. pc' \in Control /\ WorkInv'
      BY <1>12 DEF ForkServer, ForkSession, PauseWait, iterate, counts, TypeInv, TypedInv, Types, WorkInv,
         MayRetry, Control, Starting, Working
    <2> QED
      BY <1>12, <2>1, <2>2, <2>3 DEF ForkServer, ForkSession, PauseWait, list, file, flags, iterate,
         counts, TypeInv, TypedInv, Types
  <1>13. CASE ForkServerFails \/ PauseNoChild \/ PauseEnds \/ SleepEnds \/ ForkSessionFails
    BY <1>13 DEF ForkServerFails, PauseNoChild, PauseEnds, SleepEnds, ForkSessionFails, list, file,
       flags, iterate, counts, TypeInv, TypedInv, Types, WorkInv, MayRetry, Control, Starting, Working
  <1>14. CASE ServerDisabled
    BY <1>14, NewTypes DEF ServerDisabled, RemoveDisplay, file, flags, iterate, counts, TypeInv,
       TypedInv, Types, WorkInv, Control, Starting, Working
  <1>15. CASE ListDone
    BY <1>15 DEF ListDone, list, file, iterate, counts, TypeInv, TypedInv, Types, WorkInv, Control, Idle,
       Working
  <1>16. CASE StopAll
    <2>1. displays' \subseteq Name /\ dpy' \in [Name -> DisplayRecord]
      BY <1>16, StopType DEF StopAll, TypeInv, TypedInv, Types
    <2>2. proc' \in [Pid -> ProcessRecord]
      BY <1>16, KilledType DEF StopAll, TypeInv
    <2>3. /\ pc' \in Control
          /\ pc' \in Working => pc' = pc
          /\ pc' \in {"pause", "sleep"} => pc' = pc
      BY <1>16 DEF StopAll, TypeInv, TypedInv, Types, Control, Idle, Starting, Working
    <2> QED
      BY <1>16, <2>1, <2>2, <2>3 DEF StopAll, file, counts, TypeInv, TypedInv, Types, WorkInv, MayRetry,
         Interrupted
  <1>17. CASE Sighup
    BY <1>17 DEF Sighup, list, iterate, counts, TypeInv, TypedInv, Types, WorkInv, MayRetry, Control, Idle,
       Working
  <1>18. ASSUME NEW p \in Pid, ChildExits(p) PROVE TypedInv'
    <2>1. proc' \in [Pid -> ProcessRecord]
      <3>1. PICK c \in SessionCodes :
              proc' = [proc EXCEPT ![p] = [st |-> "dead", kind |-> proc[p].kind,
                                           term |-> proc[p].term, code |-> c]]
        BY <1>18 DEF ChildExits, SessionCodes
      <3>2. proc[p] \in ProcessRecord
        BY DEF TypeInv, TypedInv, Types
      <3>3. [st |-> "dead", kind |-> proc[p].kind, term |-> proc[p].term, code |-> c] \in ProcessRecord
        BY <3>2 DEF ProcessRecord
      <3> QED
        BY <3>1, <3>3 DEF TypeInv, TypedInv, Types
    <2>2. pc' \in Control /\ WorkInv'
      BY <1>18 DEF ChildExits, iterate, counts, TypeInv, TypedInv, Types, WorkInv, MayRetry, Control, Idle,
         Working
    <2> QED
      BY <1>18, <2>1, <2>2 DEF ChildExits, list, file, iterate, counts, TypeInv, TypedInv, Types
  <1>19. ASSUME NEW n \in Name, EditServers(n) PROVE TypedInv'
    BY ZenonT(60), <1>19 DEF EditServers, list, flags, iterate, counts, TypeInv, TypedInv, Types, WorkInv, MayRetry
  <1> QED
    BY <1>1, <1>2, <1>3, <1>4, <1>5, <1>6, <1>7, <1>8, <1>9, <1>10, <1>11, <1>12, <1>13, <1>14,
       <1>15, <1>16, <1>17, <1>18, <1>19 DEF Next, Master, Environment, Stopped

-----------------------------------------------------------------------------
(* A display is tried startAttempts times at most *)

LEMMA StopTries ==
  ASSUME NEW ns \in SUBSET Name, NEW ds, NEW recs \in [Name -> DisplayRecord],
         \A n \in Name \ ns : Untired(recs[n]), StopList(ns, ds, recs)
  PROVE  /\ \A n \in Name : Untired(dpy'[n])
         /\ \A n \in Name : recs[n].startTries < StartAttempts => dpy'[n].startTries < StartAttempts
  <1> SUFFICES ASSUME NEW n \in Name
               PROVE  /\ Untired(dpy'[n])
                      /\ recs[n].startTries < StartAttempts => dpy'[n].startTries < StartAttempts
    OBVIOUS
  <1>1. Untired(NoDisplay) /\ NoDisplay.startTries < StartAttempts
    BY ResourcesAssumption DEF Untired, NoDisplay, NewDisplay
  <1>2. LET z == [recs[n] EXCEPT !.status = "zombie"]
        IN  Untired(z) /\ z.startTries = recs[n].startTries
    BY DEF Untired, DisplayRecord
  <1>3. \/ dpy'[n] = NoDisplay
        \/ dpy'[n] = [recs[n] EXCEPT !.status = "zombie"]
        \/ n \notin ns /\ dpy'[n] = recs[n]
    BY DEF StopList
  <1> QED
    BY <1>1, <1>2, <1>3

LEMMA ReapTries ==
  ASSUME TypeInv, NEW p \in Pid, Reap(p)
  PROVE  \A n \in Name : Untired(dpy'[n])
  <1> DEFINE recs == ReapedRecs
  <1>1. recs \in [Name -> DisplayRecord]
    BY ScannedType DEF ReapedRecs, TypeInv, Types
  <1>2. \A n \in Name : Untired(recs[n])
    BY ScanTries DEF ReapedRecs, TypeInv, TriesInv, TriesOK, Untired
  <1>3. ByPid(p) \subseteq Name /\ ByServerPid(p) \subseteq Name
    BY DEF ByPid, ByServerPid, TypeInv, Types
  <1> HIDE DEF recs
  <1>4. ASSUME NEW n \in Name, SessionEnded(n, WithoutPid(recs[n]), proc[p].code, ReapedList, recs, p)
        PROVE  \A m \in Name : Untired(dpy'[m])
    <2> DEFINE r == WithoutPid(recs[n])
    <2>1. r \in DisplayRecord /\ Untired(r)
      BY <1>1, <1>2 DEF WithoutPid, Untired, DisplayRecord
    <2> HIDE DEF r
    <2>3. ASSUME NEW q \in DisplayRecord, StopDisplay(n, q, ReapedList, recs, p)
          PROVE  \A m \in Name : Untired(dpy'[m])
      <3>1. /\ StopList({n}, ReapedList, [recs EXCEPT ![n] = q])
            /\ [recs EXCEPT ![n] = q] \in [Name -> DisplayRecord]
            /\ \A m \in Name \ {n} : Untired([recs EXCEPT ![n] = q][m])
        BY <1>1, <1>2, <2>3 DEF StopDisplay
      <3> QED
        BY <3>1, StopTries
    <2>4. ASSUME NEW q \in DisplayRecord, q.startTries < StartAttempts, NEW force,
                 RestartDisplay(n, q, force, ReapedList, recs, p)
          PROVE  \A m \in Name : Untired(dpy'[m])
      <3>1. PICK st \in {"phoenix", "notRunning"} : dpy' = [recs EXCEPT ![n] = [q EXCEPT !.status = st]]
        BY <2>4 DEF RestartDisplay
      <3>2. Untired([q EXCEPT !.status = st])
        BY <2>4 DEF Untired, DisplayRecord
      <3> QED
        BY <1>1, <1>2, <3>1, <3>2
    <2>5. SessionEnded(n, r, proc[p].code, ReapedList, recs, p)
      BY <1>4 DEF r
    <2> QED
      <3>1. PICK q \in DisplayRecord :
               /\ Counted(q, r)
               /\ \/ StopDisplay(n, q, ReapedList, recs, p)
                  \/ /\ ~Over(r) /\ \E force \in BOOLEAN : RestartDisplay(n, q, force, ReapedList, recs, p)
                     /\ q.startTries = IF proc[p].code = "OPENFAILED" THEN r.startTries + 1 ELSE 0
                     /\ proc[p].code = "OPENFAILED" => ~LastTry(r)
        BY <2>1, <2>5, SessionEndedCases
      <3>2. ~LastTry(r) => r.startTries + 1 < StartAttempts
        BY <2>1, ResourcesAssumption DEF LastTry, DisplayRecord
      <3> QED
        BY <2>3, <2>4, <3>1, <3>2, ResourcesAssumption
  <1>5. ASSUME NEW n \in Name, ServerEnded(n, WithoutServer(recs[n]), ReapedList, recs, p)
        PROVE  \A m \in Name : Untired(dpy'[m])
    <2> DEFINE r == WithoutServer(recs[n])
    <2>1. r \in DisplayRecord /\ Untired(r)
      BY <1>1, <1>2 DEF WithoutServer, Untired, DisplayRecord
    <2>2. Untired(NoDisplay)
      BY ResourcesAssumption DEF Untired, NoDisplay, NewDisplay
    <2> HIDE DEF r
    <2>3. r.status # "zombie" => Untired([r EXCEPT !.status = AfterServer(r.status)])
      BY <2>1 DEF Untired, DisplayRecord
    <2>4. \/ dpy' = [recs EXCEPT ![n] = NoDisplay]
          \/ r.status # "zombie" /\ dpy' = [recs EXCEPT ![n] = [r EXCEPT !.status = AfterServer(r.status)]]
      BY <1>5 DEF ServerEnded, RemoveDisplay, r
    <2> QED
      BY <1>1, <1>2, <2>2, <2>3, <2>4
  <1> QED
    BY <1>2, <1>3, <1>4, <1>5 DEF Reap, ReapedList, ReapedRecs, recs

LEMMA TriesStep == TypeInv /\ [Next]_vars => TriesInv'
  <1> SUFFICES ASSUME TypeInv, [Next]_vars PROVE TriesInv'
    OBVIOUS
  <1>a. /\ dpy \in [Name -> DisplayRecord]
        /\ \A n \in Name : Untired(dpy[n])
        /\ pc \in Working => cur \in Name /\ dpy[cur].startTries < StartAttempts
    BY DEF TypeInv, Types, WorkInv, TriesInv, TriesOK, Untired
  <1>b. ASSUME \A n \in Name : Untired(dpy'[n]),
               pc' \in Working => dpy'[cur'].startTries < StartAttempts
        PROVE  TriesInv'
    BY <1>b DEF TriesInv, TriesOK, Untired
  <1>1. CASE /\ \A n \in Name : dpy'[n] = dpy[n]
             /\ pc' \in Working => pc \in Working /\ cur' = cur
    BY <1>1, <1>a, <1>b
  <1>2. CASE Startup \/ RescanServers
    BY <1>2, <1>b, ScanTries DEF Startup, RescanServers, StartDisplays, Working, TypeInv, TriesInv
  <1>3. ASSUME NEW n \in Remote, Manage(n) PROVE TriesInv'
    <2>1. n \in Name /\ dpy' = [dpy EXCEPT ![n] = NewDisplay("foreign", "xdmcp")] /\ cur' = n
      BY <1>3 DEF Manage, Name
    <2>2. Untired(NewDisplay("foreign", "xdmcp")) /\ NewDisplay("foreign", "xdmcp").startTries < StartAttempts
      BY ResourcesAssumption DEF Untired, NewDisplay
    <2> QED
      BY <1>a, <1>b, <2>1, <2>2
  <1>4. ASSUME NEW p \in Pid, Reap(p) PROVE TriesInv'
    BY <1>4, <1>b, ReapTries DEF Reap, Working
  <1>5. CASE CheckNothing \/ CheckStart
    <2>1. next \in Name
      BY <1>5 DEF CheckNothing, CheckStart, TypeInv, Types
    <2>2. LET r == [dpy[next] EXCEPT !.state = "old"]
          IN  Untired(r) /\ r.startTries = dpy[next].startTries
      BY <1>a, <2>1 DEF Untired, DisplayRecord
    <2>3. dpy' = dpy \/ dpy' = [dpy EXCEPT ![next].state = "old"]
      BY <1>5 DEF CheckNothing, CheckStart
    <2>4. \A n \in Name : Untired(dpy'[n]) /\ dpy'[n].startTries = dpy[n].startTries
      BY <1>a, <2>1, <2>2, <2>3
    <2>5. pc' \in Working => cur' = next /\ dpy[next].status = "notRunning"
      BY <1>5 DEF CheckNothing, CheckStart, Advance, Working
    <2> QED
      BY <1>a, <1>b, <2>1, <2>4, <2>5 DEF Untired
  <1>6. CASE CheckMissing
    <2>1. \A n \in Name : Untired(dpy'[n])
      BY <1>6, <1>a, StopTries DEF CheckMissing, TypeInv, Types
    <2> QED
      BY <1>6, <1>b, <2>1 DEF CheckMissing, Working
  <1>7. ASSUME NEW p \in Pid, ForkServer(p) \/ ForkSession(p) PROVE TriesInv'
    <2>1. pc \in Working /\ cur' = cur
      BY <1>7 DEF ForkServer, ForkSession, iterate, Working
    <2>2. LET r == [dpy[cur] EXCEPT !.serverPid = p]
              t == [dpy[cur] EXCEPT !.pid = p, !.status = "running"]
          IN  /\ r.startTries = dpy[cur].startTries /\ Untired(r)
              /\ t.startTries = dpy[cur].startTries /\ Untired(t)
      BY <1>a, <2>1 DEF Untired, DisplayRecord
    <2>3. \/ dpy' = [dpy EXCEPT ![cur] = [@ EXCEPT !.serverPid = p]]
          \/ dpy' = [dpy EXCEPT ![cur] = [@ EXCEPT !.pid = p, !.status = "running"]]
      BY <1>7 DEF ForkServer, ForkSession
    <2> QED
      BY <1>a, <1>b, <2>1, <2>2, <2>3
  <1>8. CASE ServerDisabled
    <2>1. Untired(NoDisplay)
      BY ResourcesAssumption DEF Untired, NoDisplay, NewDisplay
    <2>2. dpy' = [dpy EXCEPT ![cur] = NoDisplay] /\ pc' = "check"
      BY <1>8 DEF ServerDisabled, RemoveDisplay
    <2> QED
      BY <1>a, <1>b, <2>1, <2>2 DEF Working
  <1>9. CASE StopAll
    <2>1. /\ \A n \in Name : Untired(dpy'[n])
          /\ \A n \in Name : dpy[n].startTries < StartAttempts => dpy'[n].startTries < StartAttempts
      BY <1>9, <1>a, StopTries DEF StopAll, TypeInv, Types
    <2>2. pc' \in Working => pc \in Working /\ cur' = cur
      BY <1>9 DEF StopAll, Working
    <2> QED
      BY <1>a, <1>b, <2>1, <2>2
  <1>10. CASE \/ UNCHANGED vars \/ Exit \/ LoopOn \/ WaitForSomething \/ Select \/ Selected
              \/ OtherPacket \/ WaitForChild \/ Resume \/ Reaped
    BY <1>10, <1>1 DEF vars, Exit, LoopOn, WaitForSomething, Select, Selected, OtherPacket,
       WaitForChild, Resume, Reaped, StartDisplays, list, iterate, Working
  <1>11. ASSUME NEW p \in Pid, PauseWait(p) PROVE TriesInv'
    BY <1>11, <1>1 DEF PauseWait, list, iterate, Working
  <1>12. CASE ForkServerFails \/ PauseNoChild \/ PauseEnds \/ SleepEnds \/ ForkSessionFails \/ ListDone
    BY <1>12, <1>1 DEF ForkServerFails, PauseNoChild, PauseEnds, SleepEnds, ForkSessionFails, ListDone,
       list, iterate, Working
  <1>13. CASE Sighup \/ (\E n \in Name : EditServers(n)) \/ (\E p \in Pid : ChildExits(p))
    BY <1>13, <1>1 DEF Sighup, EditServers, ChildExits, list, iterate, Working
  <1> QED
    BY <1>2, <1>3, <1>4, <1>5, <1>6, <1>7, <1>8, <1>9, <1>10, <1>11, <1>12, <1>13
       DEF Next, Master, Environment, Stopped

\* The list and the records that a turn of the waitpid loop starts from are
\* well formed.
LEMMA ReapedType ==
  ASSUME TypeInv
  PROVE  /\ ReapedList \in SUBSET Name /\ ReapedRecs \in [Name -> DisplayRecord]
         /\ \A n \in Name : Untired(ReapedRecs[n])
  BY ScannedType, ScanTries DEF ReapedList, ReapedRecs, TypeInv, Types, TriesInv, TriesOK, Untired

LEMMA TypeStep == TypeInv /\ [Next]_vars => TypeInv'
  BY TypedStep, TriesStep DEF TypeInv, TypedInv

\* kdm's variables keep their types, for all displays and process ids:
\* startTries reaches startAttempts only in the record of a display that the
\* last try has stopped (dm.c:496), and StartServer's i stays within
\* serverAttempts (server.c:143).
THEOREM TypeCorrect == Spec => []TypeOK
  <1>1. Init => TypeInv
    BY TypeInit
  <1>2. TypeInv /\ [Next]_vars => TypeInv'
    BY TypeStep
  <1>3. TypeInv => TypeOK
    BY DEF TypeInv, TriesInv, TypeOK
  <1> QED
    BY <1>1, <1>2, <1>3, PTL DEF Spec
=============================================================================
