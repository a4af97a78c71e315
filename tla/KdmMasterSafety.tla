-------------------------- MODULE KdmMasterSafety --------------------------
(***************************************************************************)
(* kdm's master loses no server and no session, for every set of displays  *)
(* and process ids, every bound on tries, and SIGTERM between any two of   *)
(* its steps.  The invariant says what ForEachDisplay's pointers and the   *)
(* display StartDisplay works on may be, and relates the records of the    *)
(* displays to the children (ListInv).                                     *)
(***************************************************************************)
EXTENDS KdmMasterProofs

\* ForEachDisplay's saved pointers are displays of the list, each once.
IterInv ==
    pc \in Starting => /\ next \in displays \cup {NoName} /\ todo \subseteq displays
                       /\ next \notin todo /\ cur \notin todo
                       /\ next # NoName => cur # next

\* StartDisplay works on a listed display without a session.
CurInv == pc \in Working => cur \in displays /\ dpy[cur].pid = NoPid

\* StartServer forks only when the server of the last attempt is gone, and
\* never for the display of a terminal.
StaleInv == pc \in {"startServer", "sleep"} => ~Live(dpy[cur].serverPid)
LocalInv == /\ pc \in {"startServer", "pause", "sleep"} => cur \notin Remote
            /\ \A n \in Remote : servers[n] # "local"

Alive(procs, p) == p \in Pid /\ procs[p].st = "live"

\* A list ds with records recs accounts for the children procs: terminals have
\* no server of ours, the session of a zombie has been told to end, and every
\* server, and every session that was not told to end, is remembered.
ListInv(ds, recs, procs) ==
    /\ \A n \in Remote : recs[n].location = "foreign" /\ recs[n].serverPid = NoPid
    /\ \A n \in ds : recs[n].status = "zombie" /\ Alive(procs, recs[n].pid)
                        => procs[recs[n].pid].term
    /\ \A p \in Pid : procs[p].st = "live" /\ procs[p].kind = "server"
                        => \E n \in ds : recs[n].serverPid = p
    /\ \A p \in Pid : procs[p].st = "live" /\ procs[p].kind = "session" /\ ~procs[p].term
                        => \E n \in ds : recs[n].pid = p

StatusOK(r) == /\ r.status \in {"notRunning", "phoenix"} => r.pid = NoPid
               /\ r.status = "running" => r.pid # NoPid

SafeInv == /\ IterInv /\ CurInv /\ StaleInv /\ LocalInv
           /\ ListInv(displays, dpy, proc)
           /\ \A n \in displays : StatusOK(dpy[n])

IInv == TypeInv /\ SafeInv
-----------------------------------------------------------------------------
(* Children that end, or are told to *)

NoNewLife(procs, procs2) ==
    \A p \in Pid : procs2[p].st = "live" =>
        /\ procs[p].st = "live" /\ procs2[p].kind = procs[p].kind
        /\ procs[p].term => procs2[p].term

LEMMA LessLife ==
  ASSUME NEW ds, NEW recs, NEW procs, NEW procs2,
         ListInv(ds, recs, procs), NoNewLife(procs, procs2)
  PROVE  ListInv(ds, recs, procs2)
  BY DEF ListInv, NoNewLife, Alive

LEMMA TerminatedTells ==
  ASSUME Types, NEW ps, NEW p \in Pid
  PROVE  /\ NoNewLife(proc, Terminated(ps))
         /\ NoNewLife(proc, Waited(Terminated(ps), p))
         /\ \A q \in ps : /\ Alive(Terminated(ps), q) => Terminated(ps)[q].term
                          /\ Alive(Waited(Terminated(ps), p), q)
                                => Waited(Terminated(ps), p)[q].term
  <1>1. /\ NoNewLife(proc, Terminated(ps))
        /\ \A q \in ps : Alive(Terminated(ps), q) => Terminated(ps)[q].term
    BY DEF Types, Terminated, NoNewLife, Alive, Live, ProcessRecord
  <1>2. Terminated(ps) \in [Pid -> ProcessRecord]
    BY KilledType
  <1>3. \A q \in Pid : Waited(Terminated(ps), p)[q] = IF q = p THEN NoProcess ELSE Terminated(ps)[q]
    BY <1>2 DEF Waited
  <1>4. NoProcess.st # "live"
    BY DEF NoProcess
  <1> QED
    BY <1>1, <1>3, <1>4 DEF NoNewLife, Alive

LEMMA WaitedLess ==
  ASSUME Types, NEW p \in Pid
  PROVE  NoNewLife(proc, Waited(proc, p))
  BY DEF Types, Waited, NoProcess, NoNewLife, ProcessRecord
-----------------------------------------------------------------------------
(* The list is read again, and displays are stopped *)

\* Reading the servers file forgets no process.
LEMMA ScanKeeps ==
  ASSUME Types, LocalInv, ListInv(displays, dpy, proc),
         \A n \in displays : StatusOK(dpy[n]), NEW mark \in BOOLEAN
  PROVE  /\ ListInv(ScannedList, ScannedRecs(mark), proc)
         /\ \A n \in ScannedList : StatusOK(ScannedRecs(mark)[n])
         /\ \A n \in displays : /\ ScannedRecs(mark)[n].pid = dpy[n].pid
                                /\ ScannedRecs(mark)[n].serverPid = dpy[n].serverPid
  <1> DEFINE S == ScannedRecs(mark)
  <1>1. \A n \in displays : S[n].pid = dpy[n].pid /\ S[n].serverPid = dpy[n].serverPid
                            /\ S[n].status = dpy[n].status
    <2> SUFFICES ASSUME NEW n \in displays
                 PROVE  S[n].pid = dpy[n].pid /\ S[n].serverPid = dpy[n].serverPid
                        /\ S[n].status = dpy[n].status
      OBVIOUS
    <2>1. n \in Name /\ dpy[n] \in DisplayRecord
      BY DEF Types
    <2>2. S[n] \in {dpy[n], [dpy[n] EXCEPT !.state = "missing"],
                   [dpy[n] EXCEPT !.state = "old", !.location = servers[n], !.origin = "file"]}
      BY <2>1, Zenon DEF ScannedRecs
    <2>3. CASE S[n] = dpy[n]
      BY <2>3
    <2>4. CASE S[n] = [dpy[n] EXCEPT !.state = "missing"]
      BY <2>1, <2>4 DEF DisplayRecord
    <2>5. CASE S[n] = [dpy[n] EXCEPT !.state = "old", !.location = servers[n], !.origin = "file"]
      BY <2>1, <2>5 DEF DisplayRecord
    <2> QED
      BY <2>2, <2>3, <2>4, <2>5
  <1>2. \A n \in ScannedList \ displays : S[n].pid = NoPid /\ S[n].status = "notRunning"
    BY DEF ScannedList, ScannedRecs, NewDisplay
  <1>3. ASSUME NEW n \in Remote PROVE S[n].location = "foreign" /\ S[n].serverPid = NoPid
    <2>1. n \in Name /\ dpy[n] \in DisplayRecord /\ servers[n] \in {"absent", "foreign"}
      BY DEF Name, Types, LocalInv
    <2>2. dpy[n].location = "foreign" /\ dpy[n].serverPid = NoPid
      BY DEF ListInv
    <2> QED
      BY <2>1, <2>2 DEF ScannedRecs, NewDisplay, DisplayRecord
  <1>4. displays \subseteq ScannedList
    BY DEF ScannedList
  <1>5. ListInv(ScannedList, S, proc)
    <2>1. NoPid \notin Pid
      BY NamesAssumption
    <2>2. \A n \in ScannedList : S[n].status = "zombie" /\ Alive(proc, S[n].pid) => proc[S[n].pid].term
      BY <1>1, <1>2 DEF ListInv
    <2> QED
      BY <1>1, <1>3, <1>4, <2>2 DEF ListInv
  <1>6. \A n \in ScannedList : StatusOK(S[n])
    BY <1>1, <1>2 DEF StatusOK
  <1> QED
    BY <1>1, <1>5, <1>6

\* StopDisplay forgets a display only when it has no server, after telling
\* its session to end.
LEMMA StopKeeps ==
  ASSUME NEW ns \in SUBSET Name, NEW ds \in SUBSET Name, NEW recs \in [Name -> DisplayRecord],
         NEW procs, NEW procs2, ListInv(ds, recs, procs), NoNewLife(procs, procs2),
         \A n \in ns : Alive(procs2, recs[n].pid) => procs2[recs[n].pid].term,
         \A n \in ds \ ns : StatusOK(recs[n]),
         StopList(ns, ds, recs)
  PROVE  ListInv(displays', dpy', procs2) /\ \A n \in displays' : StatusOK(dpy'[n])
  <1> DEFINE gone == {n \in ns : recs[n].serverPid = NoPid}
  <1>1. /\ displays' = ds \ gone
        /\ \A n \in Name : dpy'[n] = IF n \in gone THEN NoDisplay
                                     ELSE IF n \in ns THEN [recs[n] EXCEPT !.status = "zombie"]
                                     ELSE recs[n]
    BY DEF StopList
  <1>2. \A n \in displays' : /\ dpy'[n].pid = recs[n].pid
                             /\ dpy'[n].serverPid = recs[n].serverPid
                             /\ n \notin ns => dpy'[n] = recs[n]
                             /\ n \in ns => dpy'[n].status = "zombie"
    <2>1. \A n \in Name : LET z == [recs[n] EXCEPT !.status = "zombie"]
                         IN  z.pid = recs[n].pid /\ z.serverPid = recs[n].serverPid
                             /\ z.status = "zombie"
      BY DEF DisplayRecord
    <2> HIDE DEF gone
    <2> QED
      BY <1>1, <2>1
  <1>3. ListInv(ds, recs, procs2)
    BY LessLife
  <1>4. \A n \in displays' : StatusOK(dpy'[n])
    BY <1>1, <1>2 DEF StatusOK
  <1>5. \A n \in Remote : dpy'[n].location = "foreign" /\ dpy'[n].serverPid = NoPid
    <2>1. Remote \subseteq Name
      BY DEF Name
    <2>2. NoDisplay.location = "foreign" /\ NoDisplay.serverPid = NoPid
      BY DEF NoDisplay, NewDisplay
    <2>3. \A n \in Remote : [recs[n] EXCEPT !.status = "zombie"].location = recs[n].location
                            /\ [recs[n] EXCEPT !.status = "zombie"].serverPid = recs[n].serverPid
      BY <2>1 DEF DisplayRecord
    <2> QED
      BY <1>1, <2>1, <2>2, <2>3 DEF ListInv
  <1>6. \A n \in displays' : dpy'[n].status = "zombie" /\ Alive(procs2, dpy'[n].pid)
                                => procs2[dpy'[n].pid].term
    BY <1>1, <1>2, <1>3 DEF ListInv
  <1>7. ASSUME NEW p \in Pid, procs2[p].st = "live", procs2[p].kind = "server"
        PROVE  \E n \in displays' : dpy'[n].serverPid = p
    <2>1. PICK n \in ds : recs[n].serverPid = p
      BY <1>3, <1>7 DEF ListInv
    <2>2. n \notin gone
      BY <2>1, NamesAssumption
    <2> QED
      BY <1>1, <1>2, <2>1, <2>2
  <1>8. ASSUME NEW p \in Pid, procs2[p].st = "live", procs2[p].kind = "session", ~procs2[p].term
        PROVE  \E n \in displays' : dpy'[n].pid = p
    <2>1. PICK n \in ds : recs[n].pid = p
      BY <1>3, <1>8 DEF ListInv
    <2>2. n \notin ns
      BY <1>8, <2>1 DEF Alive
    <2> QED
      BY <1>1, <1>2, <2>1, <2>2
  <1> QED
    BY <1>4, <1>5, <1>6, <1>7, <1>8 DEF ListInv

\* A record whose pid is cleared, of a process that is no longer alive, may
\* replace the old one.
LEMMA ClearPidKeeps ==
  ASSUME NEW ds \in SUBSET Name, NEW recs \in [Name -> DisplayRecord], NEW procs,
         NEW n \in ds, NEW r, ListInv(ds, recs, procs), ~Alive(procs, recs[n].pid),
         r.pid = NoPid, r.location = recs[n].location, r.serverPid = recs[n].serverPid
  PROVE  ListInv(ds, [recs EXCEPT ![n] = r], procs)
  <1> DEFINE new == [recs EXCEPT ![n] = r]
  <1>1. \A m \in Name : new[m] = IF m = n THEN r ELSE recs[m]
    OBVIOUS
  <1>2. \A m \in Name : new[m].location = recs[m].location /\ new[m].serverPid = recs[m].serverPid
    BY <1>1
  <1>3. \A m \in ds : new[m].status = "zombie" /\ Alive(procs, new[m].pid) => procs[new[m].pid].term
    BY <1>1, NamesAssumption DEF ListInv, Alive
  <1>4. \A p \in Pid : procs[p].st = "live" /\ procs[p].kind = "session" /\ ~procs[p].term
                        => \E m \in ds : new[m].pid = p
    BY <1>1 DEF ListInv, Alive
  <1>5. Remote \subseteq Name
    BY DEF Name
  <1>6. \A p \in Pid : procs[p].st = "live" /\ procs[p].kind = "server"
                        => \E m \in ds : new[m].serverPid = p
    BY <1>2 DEF ListInv
  <1> HIDE DEF new
  <1>7. ListInv(ds, new, procs)
    BY <1>2, <1>3, <1>4, <1>5, <1>6 DEF ListInv
  <1> QED
    BY <1>7 DEF new
-----------------------------------------------------------------------------
(* Children are waited for *)

LEMMA SessionEndedKeeps ==
  ASSUME Types, NEW ds \in SUBSET Name, NEW recs \in [Name -> DisplayRecord],
         ListInv(ds, recs, proc), \A m \in ds : StatusOK(recs[m]),
         NEW p \in Pid, Dead(p), NEW n \in ds, recs[n].pid = p, Untired(recs[n]), NEW code,
         SessionEnded(n, WithoutPid(recs[n]), code, ds, recs, p)
  PROVE  ListInv(displays', dpy', proc') /\ \A m \in displays' : StatusOK(dpy'[m])
  <1> DEFINE r == WithoutPid(recs[n])
  <1>1. /\ r \in DisplayRecord /\ r.pid = NoPid /\ Untired(r)
        /\ r.location = recs[n].location /\ r.serverPid = recs[n].serverPid
    BY DEF WithoutPid, DisplayRecord, Untired
  <1>2. ~Alive(proc, recs[n].pid)
    BY DEF Dead, Alive
  <1> HIDE DEF r
  <1>3. ASSUME NEW q \in DisplayRecord, Counted(q, r), StopDisplay(n, q, ds, recs, p)
        PROVE  ListInv(displays', dpy', proc') /\ \A m \in displays' : StatusOK(dpy'[m])
    <2> DEFINE new == [recs EXCEPT ![n] = q]
    <2>a. q.pid = NoPid /\ q.location = recs[n].location /\ q.serverPid = recs[n].serverPid
      BY <1>1, <1>3 DEF Counted
    <2>1. ListInv(ds, new, proc)
      BY <1>2, <2>a, ClearPidKeeps
    <2>2. /\ new \in [Name -> DisplayRecord]
          /\ new[n] = q /\ \A m \in ds \ {n} : new[m] = recs[m]
      OBVIOUS
    <2>3. NoNewLife(proc, proc')
      BY <1>3, TerminatedTells DEF StopDisplay
    <2> HIDE DEF new
    <2>4. \A m \in {n} : Alive(proc', new[m].pid) => proc'[new[m].pid].term
      BY <2>a, <2>2, NamesAssumption DEF Alive
    <2>5. {n} \in SUBSET Name /\ \A m \in ds \ {n} : StatusOK(new[m])
      BY <2>2
    <2>6. StopList({n}, ds, new)
      BY <1>3 DEF StopDisplay, new
    <2> QED
      BY <2>1, <2>2, <2>3, <2>4, <2>5, <2>6, StopKeeps
  <1>4. ASSUME NEW q, NEW force, q \in DisplayRecord, q.pid = NoPid, q.location = r.location,
               q.serverPid = r.serverPid, RestartDisplay(n, q, force, ds, recs, p)
        PROVE  ListInv(displays', dpy', proc') /\ \A m \in displays' : StatusOK(dpy'[m])
    <2>1. PICK s \in {"phoenix", "notRunning"} :
             displays' = ds /\ dpy' = [recs EXCEPT ![n] = [q EXCEPT !.status = s]]
      BY <1>4 DEF RestartDisplay
    <2> DEFINE t == [q EXCEPT !.status = s]
    <2>2. t.pid = NoPid /\ t.location = q.location /\ t.serverPid = q.serverPid /\ t.status = s
      BY <1>4 DEF DisplayRecord
    <2> HIDE DEF t
    <2>3. ListInv(ds, [recs EXCEPT ![n] = t], proc)
      BY <1>1, <1>2, <1>4, <2>2, ClearPidKeeps
    <2>4. NoNewLife(proc, proc')
      BY <1>4, TerminatedTells DEF RestartDisplay
    <2>5. ListInv(displays', dpy', proc')
      BY <2>1, <2>3, <2>4, LessLife DEF t
    <2>6. dpy' = [recs EXCEPT ![n] = t]
      BY <2>1 DEF t
    <2>7. \A m \in displays' : StatusOK(dpy'[m])
      BY <2>1, <2>2, <2>6 DEF StatusOK
    <2> QED
      BY <2>5, <2>7
  <1>5. SessionEnded(n, r, code, ds, recs, p)
    BY DEF r
  <1>6. PICK q \in DisplayRecord :
           /\ Counted(q, r)
           /\ \/ StopDisplay(n, q, ds, recs, p)
              \/ \E force \in BOOLEAN : RestartDisplay(n, q, force, ds, recs, p)
    BY <1>1, <1>5, SessionEndedCases
  <1>7. q.pid = NoPid /\ q.location = r.location /\ q.serverPid = r.serverPid
    BY <1>1, <1>6 DEF Counted
  <1> QED
    BY <1>3, <1>4, <1>6, <1>7

LEMMA ServerEndedKeeps ==
  ASSUME Types, NEW ds \in SUBSET Name, NEW recs \in [Name -> DisplayRecord],
         ListInv(ds, recs, proc), \A m \in ds : StatusOK(recs[m]),
         NEW p \in Pid, Dead(p), NEW n \in ds, recs[n].serverPid = p,
         ServerEnded(n, WithoutServer(recs[n]), ds, recs, p)
  PROVE  ListInv(displays', dpy', proc') /\ \A m \in displays' : StatusOK(dpy'[m])
  <1> DEFINE r == WithoutServer(recs[n])
  <1>1. /\ r.pid = recs[n].pid /\ r.location = recs[n].location /\ r.status = recs[n].status
        /\ r.serverPid = NoPid /\ r \in DisplayRecord
    BY DEF WithoutServer, DisplayRecord
  <1>2. n \notin Remote
    BY NamesAssumption DEF ListInv
  <1>3. Remote \subseteq Name
    BY DEF Name
  <1>4. NoNewLife(proc, proc')
    BY TerminatedTells, WaitedLess DEF ServerEnded
  <1>5. ListInv(ds, recs, proc')
    BY <1>4, LessLife
  <1>6. \A q \in Pid : proc'[q].st = "live" /\ proc'[q].kind = "server"
                       => \E m \in ds \ {n} : recs[m].serverPid = q
    BY <1>4, <1>5 DEF ListInv, NoNewLife, Dead
  <1> HIDE DEF r
  <1>7. CASE r.status = "zombie"
    <2>1. displays' = ds \ {n} /\ dpy' = [recs EXCEPT ![n] = NoDisplay]
      BY <1>7 DEF ServerEnded, RemoveDisplay, r
    <2>2. \A m \in Name \ {n} : dpy'[m] = recs[m]
      BY <2>1
    <2>3. ASSUME NEW q \in Pid, proc'[q].st = "live", proc'[q].kind = "session", ~proc'[q].term
          PROVE  \E m \in ds \ {n} : recs[m].pid = q
      <3>1. PICK m \in ds : recs[m].pid = q
        BY <1>5, <2>3 DEF ListInv
      <3>2. recs[n].status = "zombie"
        BY <1>1, <1>7
      <3>3. m # n
        BY <1>5, <2>3, <3>1, <3>2 DEF ListInv, Alive
      <3> QED
        BY <3>1, <3>3
    <2>4. \A m \in displays' : StatusOK(dpy'[m])
      BY <2>1, <2>2
    <2>5. \A m \in displays' : dpy'[m].status = "zombie" /\ Alive(proc', dpy'[m].pid)
                                  => proc'[dpy'[m].pid].term
      BY <1>5, <2>1, <2>2 DEF ListInv
    <2>6. \A m \in Remote : dpy'[m].location = "foreign" /\ dpy'[m].serverPid = NoPid
      BY <1>2, <1>3, <1>5, <2>2 DEF ListInv
    <2> QED
      BY <1>6, <2>1, <2>2, <2>3, <2>4, <2>5, <2>6 DEF ListInv
  <1>8. CASE r.status # "zombie"
    <2> DEFINE t == [r EXCEPT !.status = AfterServer(r.status)]
    <2>1. displays' = ds /\ dpy' = [recs EXCEPT ![n] = t]
      BY <1>8 DEF ServerEnded, r
    <2>2. t.pid = recs[n].pid /\ t.status = AfterServer(r.status) /\ t.status # "zombie"
      BY <1>1, <1>8 DEF AfterServer, DisplayRecord
    <2>3. StatusOK(t)
      BY <1>1, <1>8, <2>2 DEF AfterServer, StatusOK, DisplayRecord
    <2> HIDE DEF t
    <2>4. dpy'[n] = t /\ \A m \in Name \ {n} : dpy'[m] = recs[m]
      BY <2>1
    <2>5. \A m \in displays' : StatusOK(dpy'[m])
      BY <2>1, <2>3, <2>4
    <2>6. \A m \in displays' : dpy'[m].status = "zombie" /\ Alive(proc', dpy'[m].pid)
                                  => proc'[dpy'[m].pid].term
      BY <1>5, <2>1, <2>2, <2>4 DEF ListInv
    <2>7. \A m \in Remote : dpy'[m].location = "foreign" /\ dpy'[m].serverPid = NoPid
      BY <1>2, <1>3, <1>5, <2>4 DEF ListInv
    <2>8. \A m \in displays' : dpy'[m].pid = recs[m].pid
      BY <2>1, <2>2, <2>4
    <2> QED
      BY <1>5, <1>6, <2>1, <2>4, <2>5, <2>6, <2>7, <2>8 DEF ListInv
  <1> QED
    BY <1>7, <1>8

LEMMA ReapKeeps ==
  ASSUME IInv, NEW p \in Pid, Reap(p)
  PROVE  SafeInv'
  <1>1. Types /\ \A n \in Name : Untired(ReapedRecs[n])
    BY ReapedType DEF IInv, TypeInv
  <1>2. /\ ReapedList \in SUBSET Name /\ ReapedRecs \in [Name -> DisplayRecord]
        /\ displays \subseteq ReapedList
    BY <1>1, ScannedType DEF ReapedList, ReapedRecs, ScannedList, Types
  <1>3. /\ ListInv(ReapedList, ReapedRecs, proc)
        /\ \A n \in ReapedList : StatusOK(ReapedRecs[n])
        /\ \A n \in displays : /\ ReapedRecs[n].pid = dpy[n].pid
                               /\ ReapedRecs[n].serverPid = dpy[n].serverPid
    BY <1>1, ScanKeeps DEF ReapedList, ReapedRecs, IInv, SafeInv
  <1>4. Dead(p) /\ pc = "reap" /\ pc' = pc /\ servers' = servers
    BY DEF Reap
  <1>5. ListInv(displays', dpy', proc') /\ \A n \in displays' : StatusOK(dpy'[n])
    <2>1. CASE \E n \in ByPid(p) : SessionEnded(n, WithoutPid(ReapedRecs[n]), proc[p].code,
                                               ReapedList, ReapedRecs, p)
      BY <1>1, <1>2, <1>3, <1>4, <2>1, SessionEndedKeeps DEF ByPid
    <2>2. CASE \E n \in ByServerPid(p) : ServerEnded(n, WithoutServer(ReapedRecs[n]),
                                                    ReapedList, ReapedRecs, p)
      BY <1>1, <1>2, <1>3, <1>4, <2>2, ServerEndedKeeps DEF ByServerPid
    <2>3. CASE displays' = ReapedList /\ dpy' = ReapedRecs /\ proc' = Waited(proc, p)
      BY <1>1, <1>3, <2>3, WaitedLess, LessLife
    <2> QED
      BY <2>1, <2>2, <2>3 DEF Reap, ReapedList, ReapedRecs
  <1> QED
    BY <1>4, <1>5 DEF IInv, SafeInv, IterInv, CurInv, StaleInv, LocalInv, Starting, Working
-----------------------------------------------------------------------------
(* Displays are managed, stopped and started *)

LEMMA ManageKeeps ==
  ASSUME IInv, NEW n \in Remote, Manage(n)
  PROVE  SafeInv'
  <1> DEFINE new == NewDisplay("foreign", "xdmcp")
  <1>1. /\ new.pid = NoPid /\ new.serverPid = NoPid /\ new.status = "notRunning"
        /\ new.location = "foreign"
    BY DEF NewDisplay
  <1>2. /\ displays' = displays \cup {n} /\ n \in Name /\ n # NoName
        /\ dpy'[n] = new /\ \A m \in Name \ {n} : dpy'[m] = dpy[m]
    BY NamesAssumption DEF Manage, IInv, TypeInv, Types, Name
  <1>3. /\ NoNewLife(proc, proc')
        /\ n \in displays => (Alive(proc', dpy[n].pid) => proc'[dpy[n].pid].term)
    <2>1. proc' = Terminated(IF n \in displays THEN {dpy[n].pid} ELSE {})
      BY DEF Manage
    <2> QED
      BY <2>1, TerminatedTells DEF IInv, TypeInv, Alive, NoNewLife
  <1>4. ListInv(displays, dpy, proc') /\ displays \subseteq Name /\ Remote \subseteq Name
    BY <1>3, LessLife DEF IInv, SafeInv, TypeInv, Types, Name
  <1> HIDE DEF new
  <1>5. \A q \in Pid : proc'[q].st = "live" /\ proc'[q].kind = "server"
                       => \E m \in displays' : dpy'[m].serverPid = q
    BY <1>2, <1>4, NamesAssumption DEF ListInv
  <1>6. ASSUME NEW q \in Pid, proc'[q].st = "live", proc'[q].kind = "session", ~proc'[q].term
        PROVE  \E m \in displays' : dpy'[m].pid = q
    <2>1. PICK m \in displays : dpy[m].pid = q
      BY <1>4, <1>6 DEF ListInv
    <2>2. m # n
      BY <1>3, <1>6, <2>1 DEF Alive
    <2> QED
      BY <1>2, <1>4, <2>1, <2>2
  <1>7. /\ \A m \in Remote : dpy'[m].location = "foreign" /\ dpy'[m].serverPid = NoPid
        /\ \A m \in displays' : dpy'[m].status = "zombie" /\ Alive(proc', dpy'[m].pid)
                                  => proc'[dpy'[m].pid].term
    BY <1>1, <1>2, <1>4 DEF ListInv
  <1>8. ListInv(displays', dpy', proc')
    BY <1>5, <1>6, <1>7 DEF ListInv
  <1>9. \A m \in displays' : StatusOK(dpy'[m])
    BY <1>1, <1>2, <1>4 DEF IInv, SafeInv, StatusOK
  <1>10. IterInv' /\ CurInv' /\ StaleInv'
    <2>1. pc' = "fork" /\ cur' = n /\ next' = NoName /\ todo' = {}
      BY DEF Manage
    <2> QED
      BY <1>1, <1>2, <2>1 DEF IterInv, CurInv, StaleInv
  <1>11. LocalInv'
    BY DEF Manage, file, LocalInv, IInv, SafeInv
  <1> QED
    BY <1>8, <1>9, <1>10, <1>11 DEF SafeInv

LEMMA CheckMissingKeeps ==
  ASSUME IInv, CheckMissing
  PROVE  SafeInv'
  <1>1. next \in displays /\ next \in Name /\ todo \subseteq displays /\ next \notin todo
        /\ pc = "check" /\ pc' = pc /\ servers' = servers
    BY DEF CheckMissing, file, IInv, TypeInv, Types, SafeInv, IterInv, Starting
  <1>2. StopList({next}, displays, dpy) /\ proc' = Terminated(StopPids({next}, dpy))
    BY DEF CheckMissing
  <1>3. NoNewLife(proc, proc') /\ (Alive(proc', dpy[next].pid) => proc'[dpy[next].pid].term)
    BY <1>2, TerminatedTells DEF StopPids, IInv, TypeInv, NoNewLife, Alive
  <1>4. ListInv(displays', dpy', proc') /\ \A n \in displays' : StatusOK(dpy'[n])
    <2>1. /\ {next} \in SUBSET Name /\ displays \in SUBSET Name /\ dpy \in [Name -> DisplayRecord]
          /\ ListInv(displays, dpy, proc) /\ \A n \in displays \ {next} : StatusOK(dpy[n])
      BY <1>1 DEF IInv, TypeInv, Types, SafeInv
    <2>2. \A n \in {next} : Alive(proc', dpy[n].pid) => proc'[dpy[n].pid].term
      BY <1>3
    <2> QED
      BY <1>2, <1>3, <2>1, <2>2, StopKeeps
  <1>5. IterInv'
    <2>1. displays \ {next} \subseteq displays'
      BY <1>2 DEF StopList
    <2> QED
      BY <1>1, <2>1 DEF CheckMissing, Advance, IterInv
  <1> QED
    BY <1>1, <1>4, <1>5 DEF SafeInv, CurInv, StaleInv, LocalInv, Working, IInv

\* A step that changes no child and no pid of a record keeps the list.
LEMMA SameListKeeps ==
  ASSUME SafeInv, displays' = displays, proc' = proc,
         \A n \in Name : /\ dpy'[n].pid = dpy[n].pid /\ dpy'[n].serverPid = dpy[n].serverPid
                         /\ dpy'[n].status = dpy[n].status /\ dpy'[n].location = dpy[n].location,
         displays \subseteq Name
  PROVE  ListInv(displays', dpy', proc') /\ \A n \in displays' : StatusOK(dpy'[n])
  <1>1. Remote \subseteq Name
    BY DEF Name
  <1>2. \A n \in displays' : StatusOK(dpy'[n])
    BY DEF SafeInv, StatusOK
  <1>3. ListInv(displays, dpy, proc)
    BY DEF SafeInv
  <1>4. ListInv(displays', dpy', proc')
    BY <1>1, <1>3 DEF ListInv
  <1> QED
    BY <1>2, <1>4

LEMMA CheckKeeps ==
  ASSUME IInv, CheckNothing \/ CheckStart
  PROVE  SafeInv'
  <1>1. next \in displays /\ next \in Name /\ todo \subseteq displays /\ next \notin todo
        /\ pc = "check" /\ servers' = servers /\ displays' = displays /\ proc' = proc
    BY DEF CheckNothing, CheckStart, file, IInv, TypeInv, Types, SafeInv, IterInv, Starting
  <1>2. dpy' = dpy \/ dpy' = [dpy EXCEPT ![next].state = "old"]
    BY DEF CheckNothing, CheckStart
  <1>3. \A n \in Name : /\ dpy'[n].pid = dpy[n].pid /\ dpy'[n].serverPid = dpy[n].serverPid
                        /\ dpy'[n].status = dpy[n].status /\ dpy'[n].location = dpy[n].location
    BY <1>1, <1>2 DEF IInv, TypeInv, Types, DisplayRecord
  <1>4. ListInv(displays', dpy', proc') /\ \A n \in displays' : StatusOK(dpy'[n])
    BY <1>1, <1>3, SameListKeeps DEF IInv, TypeInv, Types
  <1>5. IterInv' /\ cur' = next
    BY <1>1 DEF CheckNothing, CheckStart, Advance, IterInv
  <1>6. CurInv' /\ StaleInv' /\ LocalInv'
    <2>1. CASE CheckNothing
      BY <1>1, <2>1 DEF CheckNothing, CurInv, StaleInv, LocalInv, Working, IInv, SafeInv
    <2>2. CASE CheckStart
      <3>1. dpy[next].pid = NoPid
        BY <1>1, <2>2 DEF CheckStart, IInv, SafeInv, StatusOK
      <3>2. pc' = "fork" \/ (pc' = "startServer" /\ dpy[next].serverPid = NoPid
                                                 /\ dpy[next].location = "local")
        BY <2>2 DEF CheckStart
      <3>3. next \in Remote => dpy[next].location = "foreign"
        BY DEF IInv, SafeInv, ListInv
      <3> QED
        BY <1>1, <1>3, <1>5, <3>1, <3>2, <3>3, NamesAssumption
        DEF CurInv, StaleInv, LocalInv, Live, IInv, SafeInv
    <2> QED
      BY <2>1, <2>2
  <1> QED
    BY <1>4, <1>5, <1>6 DEF SafeInv

\* StopAll leaves the master at work only on displays that are still listed.
LEMMA StopAllKeeps ==
  ASSUME IInv, StopAll
  PROVE  SafeInv'
  <1>1. /\ displays \in SUBSET Name /\ dpy \in [Name -> DisplayRecord] /\ pc \in Control
        /\ ListInv(displays, dpy, proc) /\ NoName \notin Name /\ Types
    BY NamesAssumption DEF IInv, TypeInv, Types, SafeInv, Name
  <1>2. /\ StopList(displays, displays, dpy) /\ proc' = Terminated(StopPids(displays, dpy))
        /\ todo' = todo \cap displays' /\ cur' = cur /\ next' = next /\ servers' = servers
    BY DEF StopAll, file
  <1>3. NoNewLife(proc, proc')
        /\ \A n \in displays : Alive(proc', dpy[n].pid) => proc'[dpy[n].pid].term
    BY <1>1, <1>2, TerminatedTells DEF StopPids, NoNewLife, Alive
  <1>4. ListInv(displays', dpy', proc') /\ \A n \in displays' : StatusOK(dpy'[n])
    <2>1. \A n \in displays \ displays : StatusOK(dpy[n])
      OBVIOUS
    <2> QED
      BY <1>1, <1>2, <1>3, <2>1, StopKeeps
  <1>5. \A n \in displays' : n \in displays /\ dpy'[n].pid = dpy[n].pid
                             /\ dpy'[n].serverPid = dpy[n].serverPid
    <2>1. \A n \in Name : /\ [dpy[n] EXCEPT !.status = "zombie"].pid = dpy[n].pid
                          /\ [dpy[n] EXCEPT !.status = "zombie"].serverPid = dpy[n].serverPid
      BY <1>1 DEF DisplayRecord
    <2> QED
      BY <1>1, <1>2, <2>1 DEF StopList
  <1>6. /\ pc' \in Starting => pc' = pc /\ next \in displays' \cup {NoName}
        /\ pc' \in Working => pc' = pc /\ cur \in displays' \cup {NoName}
        /\ pc' \in {"startServer", "pause", "sleep"} => pc' \in Working
    BY <1>1 DEF StopAll, Starting, Working, Control, Idle
  <1>7. IterInv'
    BY <1>2, <1>5, <1>6 DEF IterInv, IInv, SafeInv
  <1>8. pc' \in Working => cur \in displays'
    BY <1>1, <1>6 DEF CurInv, IInv, SafeInv
  <1>9. CurInv' /\ LocalInv'
    BY <1>2, <1>5, <1>6, <1>8 DEF CurInv, LocalInv, IInv, SafeInv
  <1>10. StaleInv'
    <2>1. \A p \in Pid : ~Live(p) => ~Live(p)'
      BY <1>3 DEF NoNewLife, Live
    <2>2. SUFFICES ASSUME pc' \in {"startServer", "sleep"} PROVE ~Live(dpy[cur].serverPid)'
      BY DEF StaleInv
    <2>3. pc' = pc /\ cur \in displays' /\ dpy'[cur].serverPid = dpy[cur].serverPid
      BY <1>5, <1>6, <1>8, <2>2 DEF Working
    <2>4. ~Live(dpy[cur].serverPid)
      BY <2>2, <2>3 DEF StaleInv, IInv, SafeInv
    <2> QED
      BY <1>2, <1>3, <2>3, <2>4 DEF Live, NoNewLife
  <1> QED
    BY <1>4, <1>7, <1>9, <1>10 DEF SafeInv
-----------------------------------------------------------------------------
(* Forks *)

LEMMA ForkServerKeeps ==
  ASSUME IInv, NEW p \in Pid, ForkServer(p)
  PROVE  SafeInv'
  <1>1. /\ cur \in displays /\ cur \in Name /\ displays \subseteq Name /\ cur \notin Remote
        /\ dpy[cur].pid = NoPid /\ ~Live(dpy[cur].serverPid) /\ NoPid \notin Pid
    BY NamesAssumption DEF ForkServer, IInv, TypeInv, Types, SafeInv, CurInv, StaleInv, LocalInv, Working
  <1>2. /\ displays' = displays /\ proc' = [proc EXCEPT ![p] = Process("server")]
        /\ dpy' = [dpy EXCEPT ![cur].serverPid = p] /\ pc = "startServer" /\ pc' = "pause"
        /\ cur' = cur /\ next' = next /\ todo' = todo /\ servers' = servers
    BY DEF ForkServer, iterate, file
  <1>3. \A n \in displays : dpy[n].pid # p /\ dpy[n].serverPid # p
    BY DEF ForkServer, FreshPids, Remembered, Gone, Remembered, Gone
  <1>4. /\ \A n \in Name \ {cur} : dpy'[n] = dpy[n]
        /\ dpy'[cur].serverPid = p /\ dpy'[cur].pid = NoPid
        /\ dpy'[cur].status = dpy[cur].status
    BY <1>1, <1>2 DEF IInv, TypeInv, Types, DisplayRecord
  <1>5. \A q \in Pid \ {p} : proc'[q] = proc[q]
    BY <1>2 DEF IInv, TypeInv, Types
  <1>6. proc'[p].kind = "server"
    BY <1>2 DEF Process, IInv, TypeInv, Types
  <1>7. ListInv(displays, dpy, proc) /\ Remote \subseteq Name
    BY DEF IInv, SafeInv, Name
  <1>8. \A q \in Pid : proc'[q].st = "live" /\ proc'[q].kind = "server"
                       => \E n \in displays' : dpy'[n].serverPid = q
    BY <1>1, <1>2, <1>4, <1>5, <1>7 DEF ListInv, Live
  <1>9. \A q \in Pid : proc'[q].st = "live" /\ proc'[q].kind = "session" /\ ~proc'[q].term
                       => \E n \in displays' : dpy'[n].pid = q
    BY <1>1, <1>2, <1>4, <1>5, <1>6, <1>7 DEF ListInv
  <1>10. \A n \in displays' : dpy'[n].status = "zombie" /\ Alive(proc', dpy'[n].pid)
                                => proc'[dpy'[n].pid].term
    BY <1>1, <1>2, <1>3, <1>4, <1>5, <1>7 DEF ListInv, Alive
  <1>11. \A n \in Remote : dpy'[n].location = "foreign" /\ dpy'[n].serverPid = NoPid
    BY <1>1, <1>4, <1>7 DEF ListInv
  <1>12. ListInv(displays', dpy', proc')
    BY <1>8, <1>9, <1>10, <1>11 DEF ListInv
  <1>13. \A n \in displays' : StatusOK(dpy'[n])
    BY <1>1, <1>2, <1>4 DEF StatusOK, IInv, SafeInv
  <1>14. IterInv' /\ CurInv' /\ StaleInv' /\ LocalInv'
    BY <1>1, <1>2, <1>4
    DEF IterInv, CurInv, StaleInv, LocalInv, IInv, SafeInv, Starting, Working
  <1> QED
    BY <1>12, <1>13, <1>14 DEF SafeInv

LEMMA ForkSessionKeeps ==
  ASSUME IInv, NEW p \in Pid, ForkSession(p)
  PROVE  SafeInv'
  <1>1. /\ cur \in displays /\ cur \in Name /\ displays \subseteq Name
        /\ dpy[cur].pid = NoPid /\ NoPid \notin Pid
    BY NamesAssumption DEF ForkSession, IInv, TypeInv, Types, SafeInv, CurInv, Working
  <1>2. /\ displays' = displays /\ proc' = [proc EXCEPT ![p] = Process("session")]
        /\ dpy' = [dpy EXCEPT ![cur] = [@ EXCEPT !.pid = p, !.status = "running"]]
        /\ pc = "fork" /\ pc' = "check"
        /\ cur' = cur /\ next' = next /\ todo' = todo /\ servers' = servers
    BY DEF ForkSession, iterate, file
  <1>3. \A n \in displays : dpy[n].pid # p /\ dpy[n].serverPid # p
    BY DEF ForkSession, FreshPids, Remembered, Gone, Remembered, Gone
  <1>4. /\ \A n \in Name \ {cur} : dpy'[n] = dpy[n]
        /\ dpy'[cur].serverPid = dpy[cur].serverPid /\ dpy'[cur].pid = p
        /\ dpy'[cur].status = "running" /\ dpy'[cur].location = dpy[cur].location
    BY <1>1, <1>2 DEF IInv, TypeInv, Types, DisplayRecord
  <1>5. \A q \in Pid \ {p} : proc'[q] = proc[q]
    BY <1>2 DEF IInv, TypeInv, Types
  <1>6. proc'[p].kind = "session"
    BY <1>2 DEF Process, IInv, TypeInv, Types
  <1>7. ListInv(displays, dpy, proc) /\ Remote \subseteq Name
    BY DEF IInv, SafeInv, Name
  <1>8. \A q \in Pid : proc'[q].st = "live" /\ proc'[q].kind = "server"
                       => \E n \in displays' : dpy'[n].serverPid = q
    BY <1>1, <1>2, <1>4, <1>5, <1>6, <1>7 DEF ListInv
  <1>9. \A q \in Pid : proc'[q].st = "live" /\ proc'[q].kind = "session" /\ ~proc'[q].term
                       => \E n \in displays' : dpy'[n].pid = q
    BY <1>1, <1>2, <1>4, <1>5, <1>7 DEF ListInv
  <1>10. \A n \in displays' : dpy'[n].status = "zombie" /\ Alive(proc', dpy'[n].pid)
                                => proc'[dpy'[n].pid].term
    BY <1>1, <1>2, <1>3, <1>4, <1>5, <1>7 DEF ListInv, Alive
  <1>11. \A n \in Remote : dpy'[n].location = "foreign" /\ dpy'[n].serverPid = NoPid
    BY <1>1, <1>4, <1>7 DEF ListInv
  <1>12. ListInv(displays', dpy', proc')
    BY <1>8, <1>9, <1>10, <1>11 DEF ListInv
  <1>13. \A n \in displays' : StatusOK(dpy'[n])
    BY <1>1, <1>2, <1>4 DEF StatusOK, IInv, SafeInv
  <1>14. IterInv' /\ CurInv' /\ StaleInv' /\ LocalInv'
    BY <1>1, <1>2, <1>4
    DEF IterInv, CurInv, StaleInv, LocalInv, IInv, SafeInv, Starting, Working
  <1> QED
    BY <1>12, <1>13, <1>14 DEF SafeInv

LEMMA PauseWaitKeeps ==
  ASSUME IInv, NEW p \in Pid, PauseWait(p)
  PROVE  SafeInv'
  <1>1. /\ displays' = displays /\ dpy' = dpy /\ pc = "pause"
        /\ proc' = [proc EXCEPT ![p] = IF Remembered(p) THEN TakenProcess ELSE NoProcess]
        /\ pc' \in {"pause", "sleep"} /\ (pc' = "sleep" => dpy[cur].serverPid = p)
        /\ cur' = cur /\ next' = next /\ todo' = todo /\ servers' = servers
    BY DEF PauseWait, list, iterate, file
  <1>2. NoNewLife(proc, proc') /\ proc'[p].st # "live"
    BY <1>1 DEF TakenProcess, NoProcess, NoNewLife, IInv, TypeInv, Types, ProcessRecord
  <1>3. ListInv(displays', dpy', proc')
    BY <1>1, <1>2, LessLife DEF IInv, SafeInv
  <1> QED
    BY <1>1, <1>2, <1>3
    DEF SafeInv, IterInv, CurInv, StaleInv, LocalInv, IInv, Starting, Working, Live

\* A display is given up only when its server and its session are gone.
LEMMA ServerDisabledKeeps ==
  ASSUME IInv, ServerDisabled
  PROVE  SafeInv'
  <1>1. /\ cur \in displays /\ cur \in Name /\ displays \subseteq Name /\ cur \notin Remote
        /\ dpy[cur].pid = NoPid /\ ~Live(dpy[cur].serverPid) /\ NoPid \notin Pid
    BY NamesAssumption
    DEF ServerDisabled, IInv, TypeInv, Types, SafeInv, CurInv, StaleInv, LocalInv, Working
  <1>2. /\ displays' = displays \ {cur} /\ dpy' = [dpy EXCEPT ![cur] = NoDisplay]
        /\ proc' = proc /\ pc = "startServer" /\ pc' = "check"
        /\ cur' = cur /\ next' = next /\ todo' = todo /\ servers' = servers
    BY DEF ServerDisabled, RemoveDisplay, iterate, file
  <1>3. \A n \in Name \ {cur} : dpy'[n] = dpy[n]
    BY <1>2 DEF IInv, TypeInv, Types
  <1>4. ListInv(displays, dpy, proc) /\ Remote \subseteq Name
    BY DEF IInv, SafeInv, Name
  <1>5. ListInv(displays', dpy', proc')
    BY <1>1, <1>2, <1>3, <1>4 DEF ListInv, Live
  <1>6. \A n \in displays' : StatusOK(dpy'[n])
    BY <1>1, <1>2, <1>3 DEF IInv, SafeInv
  <1>7. IterInv' /\ CurInv' /\ StaleInv' /\ LocalInv'
    BY <1>1, <1>2 DEF IterInv, CurInv, StaleInv, LocalInv, IInv, SafeInv, Starting, Working
  <1> QED
    BY <1>5, <1>6, <1>7 DEF SafeInv

LEMMA ChildExitsKeeps ==
  ASSUME IInv, NEW p \in Pid, ChildExits(p)
  PROVE  SafeInv'
  <1>1. /\ displays' = displays /\ dpy' = dpy /\ cur' = cur /\ next' = next /\ todo' = todo
        /\ servers' = servers /\ (pc' = pc \/ pc' = "selected")
    BY DEF ChildExits, list, iterate, file
  <1>2. NoNewLife(proc, proc')
    BY DEF ChildExits, NoNewLife, IInv, TypeInv, Types
  <1>3. ListInv(displays', dpy', proc')
    BY <1>1, <1>2, LessLife DEF IInv, SafeInv
  <1> QED
    BY <1>1, <1>2, <1>3
    DEF SafeInv, IterInv, CurInv, StaleInv, LocalInv, IInv, Starting, Working, Live, NoNewLife

\* Steps that touch neither the list nor the children
LEMMA ControlKeeps ==
  ASSUME IInv, displays' = displays, dpy' = dpy, proc' = proc, servers' = servers,
         UNCHANGED <<cur, next, todo>>,
         \/ pc' \notin Starting
         \/ pc' = pc
         \/ pc \in Working /\ pc' = "check"
         \/ pc = "pause" /\ pc' = "fork"
         \/ pc = "sleep" /\ pc' = "startServer"
         \/ pc = "startServer" /\ pc' = "sleep"
         \/ pc = "pause" /\ pc' = "sleep" /\ \A p \in Pid : ~Live(p)
  PROVE  SafeInv'
  <1>1. ListInv(displays', dpy', proc') /\ \A n \in displays' : StatusOK(dpy'[n])
    BY DEF IInv, SafeInv
  <1>2. IterInv' /\ CurInv' /\ LocalInv'
    BY DEF IterInv, CurInv, LocalInv, IInv, SafeInv, Starting, Working
  <1>3. StaleInv'
    BY DEF StaleInv, IInv, SafeInv, Starting, Working, Live
  <1> QED
    BY <1>1, <1>2, <1>3 DEF SafeInv

LEMMA StartDisplaysKeeps ==
  ASSUME IInv, NEW ds, NEW who, ds = displays', StartDisplays(ds, who), ds \subseteq Name,
         ListInv(displays', dpy', proc'), \A n \in displays' : StatusOK(dpy'[n]),
         servers' = servers
  PROVE  SafeInv'
  <1>1. IterInv'
    BY NamesAssumption DEF StartDisplays, IterInv, Name
  <1>2. CurInv' /\ StaleInv' /\ LocalInv'
    BY DEF StartDisplays, CurInv, StaleInv, LocalInv, Working, IInv, SafeInv
  <1> QED
    BY <1>1, <1>2 DEF SafeInv
-----------------------------------------------------------------------------
(* The invariant *)

LEMMA SafeInit == Init => SafeInv
  <1> SUFFICES ASSUME Init PROVE SafeInv
    OBVIOUS
  <1>1. IterInv /\ CurInv /\ StaleInv /\ LocalInv
    BY DEF Init, IterInv, CurInv, StaleInv, LocalInv, Starting, Working
  <1>2. \A n \in Remote : dpy[n].location = "foreign" /\ dpy[n].serverPid = NoPid
    BY DEF Init, Name, NoDisplay, NewDisplay
  <1>3. \A p \in Pid : proc[p].st = "none"
    BY DEF Init, NoProcess
  <1>4. displays = {}
    BY DEF Init
  <1> QED
    BY <1>1, <1>2, <1>3, <1>4 DEF SafeInv, ListInv

LEMMA SafeStep == IInv /\ [Next]_vars => SafeInv'
  <1> SUFFICES ASSUME IInv, [Next]_vars PROVE SafeInv'
    OBVIOUS
  <1>1. CASE UNCHANGED vars
    BY <1>1, ControlKeeps DEF vars, list, file, iterate
  <1>2. ASSUME NEW mark \in BOOLEAN, NEW who, displays' = ScannedList, dpy' = ScannedRecs(mark),
               StartDisplays(displays', who), proc' = proc, servers' = servers
        PROVE  SafeInv'
    <2>1. ListInv(displays', dpy', proc') /\ \A n \in displays' : StatusOK(dpy'[n])
      BY <1>2, ScanKeeps DEF IInv, TypeInv, SafeInv
    <2>2. displays' \subseteq Name
      BY <1>2, ScannedType DEF IInv, TypeInv
    <2> QED
      BY <1>2, <2>1, <2>2, StartDisplaysKeeps
  <1>3. CASE Startup \/ RescanServers
    BY <1>2, <1>3 DEF Startup, RescanServers, file
  <1>4. CASE Exit \/ LoopOn \/ WaitForSomething \/ Select \/ Selected \/ OtherPacket \/ Sighup
    BY <1>4, ControlKeeps DEF Exit, LoopOn, WaitForSomething, Select, Selected, OtherPacket, Sighup,
       list, file, iterate, Starting, Working
  <1>5. CASE WaitForChild \/ Resume
    BY <1>5, ControlKeeps DEF WaitForChild, Resume, list, file, iterate, Starting, Working
  <1>6. ASSUME NEW n \in Remote, Manage(n) PROVE SafeInv'
    BY <1>6, ManageKeeps
  <1>7. ASSUME NEW p \in Pid, Reap(p) \/ ForkServer(p) \/ PauseWait(p) \/ ForkSession(p)
                              \/ ChildExits(p)
        PROVE  SafeInv'
    BY <1>7, ReapKeeps, ForkServerKeeps, PauseWaitKeeps, ForkSessionKeeps, ChildExitsKeeps
  <1>8. CASE Reaped
    <2>1. displays' = displays /\ dpy' = dpy /\ proc' = proc /\ servers' = servers
          /\ StartDisplays(displays, "wait")
      BY <1>8 DEF Reaped, list, file
    <2> QED
      BY <2>1, StartDisplaysKeeps DEF IInv, TypeInv, Types, SafeInv
  <1>9. CASE CheckNothing \/ CheckStart \/ CheckMissing
    BY <1>9, CheckKeeps, CheckMissingKeeps
  <1>10. CASE ListDone
    <2>1. pc' \notin Starting
      BY <1>10 DEF ListDone, Starting, Working
    <2> QED
      BY <1>10, <2>1, ControlKeeps DEF ListDone, list, file, iterate
  <1>11. CASE ForkServerFails \/ PauseEnds \/ SleepEnds \/ ForkSessionFails
    BY <1>11, ControlKeeps DEF ForkServerFails, PauseEnds, SleepEnds, ForkSessionFails,
       list, file, iterate, Working
  <1>12. CASE PauseNoChild
    <2>1. \A p \in Pid : ~Live(p)
      BY <1>12 DEF PauseNoChild, Gone, Live
    <2> QED
      BY <1>12, <2>1, ControlKeeps DEF PauseNoChild, list, file, iterate
  <1>13. CASE ServerDisabled \/ StopAll
    BY <1>13, ServerDisabledKeeps, StopAllKeeps
  <1>14. ASSUME NEW n \in Name, EditServers(n) PROVE SafeInv'
    <2>1. /\ displays' = displays /\ dpy' = dpy /\ proc' = proc /\ pc' = pc
          /\ cur' = cur /\ next' = next /\ todo' = todo
      BY <1>14 DEF EditServers, list, iterate
    <2>2. \A m \in Remote : servers'[m] # "local"
      BY <1>14, NamesAssumption DEF EditServers, IInv, TypeInv, Types, SafeInv, LocalInv
    <2> QED
      BY <2>1, <2>2 DEF IInv, SafeInv, IterInv, CurInv, StaleInv, LocalInv, Live
  <1> QED
    BY <1>1, <1>3, <1>4, <1>5, <1>6, <1>7, <1>8, <1>9, <1>10, <1>11, <1>12, <1>13, <1>14
    DEF Next, Master, Environment, Stopped

LEMMA IInvariant == Spec => []IInv
  <1>1. Init => IInv
    BY TypeInit, SafeInit DEF IInv
  <1>2. IInv /\ [Next]_vars => IInv'
    BY TypeStep, SafeStep DEF IInv
  <1> QED
    BY <1>1, <1>2, PTL DEF Spec

\* No X server is forgotten: every server alive is some listed display's.
THEOREM NoServerForgotten == Spec => []NoOrphanServer
  <1>1. IInv => NoOrphanServer
    BY DEF IInv, SafeInv, ListInv, NoOrphanServer, ByServerPid, Live
  <1> QED
    BY <1>1, IInvariant, PTL

\* No session is forgotten unless it has been told to end.
THEOREM NoSessionForgotten == Spec => []NoOrphanSession
  <1>1. IInv => NoOrphanSession
    BY DEF IInv, SafeInv, ListInv, NoOrphanSession, ByPid, Live
  <1> QED
    BY <1>1, IInvariant, PTL

\* The status of each display agrees with its session's process id.
THEOREM StatusAgrees == Spec => []StatusMatchesPid
  <1>1. IInv => StatusMatchesPid
    BY DEF IInv, SafeInv, StatusOK, StatusMatchesPid
  <1> QED
    BY <1>1, IInvariant, PTL
-----------------------------------------------------------------------------
(* What the master remembers of tries, process ids and terminals *)

\* No process id is remembered twice.
OwnPids(ds, recs) ==
    \A m, n \in ds :
       /\ recs[m].pid # NoPid => /\ recs[m].pid # recs[n].serverPid
                                 /\ recs[m].pid = recs[n].pid => m = n
       /\ recs[m].serverPid # NoPid => (recs[m].serverPid = recs[n].serverPid => m = n)

\* startTries counts no more than the sessions in a row that failed.
Tried(ds, recs, fs) ==
    \A n \in ds : recs[n].status # "zombie" => recs[n].startTries <= fs[n]

\* Transient displays are terminals.
Guests(ds, recs) == \A n \in ds : recs[n].origin = "xdmcp" => n \in Remote

CountInv == /\ OwnPids(displays, dpy) /\ Tried(displays, dpy, failures)
            /\ Guests(displays, dpy)
            /\ pc \in Working => dpy[cur].startTries <= failures[cur]

\* The display n of one list is that of another, with processes forgotten, or
\* is new.
Same(r, q) ==
    /\ q.pid \in {r.pid, NoPid} /\ q.serverPid \in {r.serverPid, NoPid}
    /\ q.origin \in {r.origin, "file"}
    /\ q.status # "zombie" => r.status # "zombie" /\ q.startTries = r.startTries

Anew(n, q) == /\ q.pid = NoPid /\ q.serverPid = NoPid /\ q.startTries = 0
              /\ q.status = "notRunning" /\ (q.origin = "xdmcp" => n \in Remote)

Kept(ds, recs, ds2, recs2) ==
    \A n \in ds2 : (n \in ds /\ Same(recs[n], recs2[n])) \/ Anew(n, recs2[n])

LEMMA KeptPids ==
  ASSUME NEW ds, NEW recs, NEW ds2, NEW recs2, OwnPids(ds, recs),
         \A n \in ds2 : /\ recs2[n].pid = NoPid \/ (n \in ds /\ recs2[n].pid = recs[n].pid)
                        /\ \/ recs2[n].serverPid = NoPid
                           \/ n \in ds /\ recs2[n].serverPid = recs[n].serverPid
  PROVE  OwnPids(ds2, recs2)
  BY DEF OwnPids

LEMMA KeptCounts ==
  ASSUME NEW ds, NEW recs, NEW ds2 \in SUBSET Name, NEW recs2, NEW fs \in [Name -> 0 .. StartAttempts],
         OwnPids(ds, recs), Tried(ds, recs, fs), Guests(ds, recs), Kept(ds, recs, ds2, recs2)
  PROVE  OwnPids(ds2, recs2) /\ Tried(ds2, recs2, fs) /\ Guests(ds2, recs2)
  <1>1. OwnPids(ds2, recs2)
    <2>1. \A n \in ds2 : /\ recs2[n].pid = NoPid \/ (n \in ds /\ recs2[n].pid = recs[n].pid)
                         /\ \/ recs2[n].serverPid = NoPid
                            \/ n \in ds /\ recs2[n].serverPid = recs[n].serverPid
      BY DEF Kept, Same, Anew
    <2> QED
      BY <2>1, KeptPids
  <1>2. ASSUME NEW n \in ds2, recs2[n].status # "zombie"
        PROVE  recs2[n].startTries <= fs[n]
    <2>1. fs[n] \in 0 .. StartAttempts
      BY <1>2
    <2>2. CASE n \in ds /\ Same(recs[n], recs2[n])
      BY <1>2, <2>2 DEF Same, Tried
    <2>3. CASE Anew(n, recs2[n])
      BY <2>1, <2>3, ResourcesAssumption DEF Anew
    <2> QED
      BY <2>2, <2>3 DEF Kept
  <1>3. Guests(ds2, recs2)
    BY DEF Guests, Kept, Same, Anew
  <1> QED
    BY <1>1, <1>2, <1>3 DEF Tried

\* What reading the servers file makes of a display
LEMMA ScanRecord ==
  ASSUME Types, NEW mark \in BOOLEAN
  PROVE  /\ \A n \in displays :
               /\ ScannedRecs(mark)[n].pid = dpy[n].pid
               /\ ScannedRecs(mark)[n].serverPid = dpy[n].serverPid
               /\ ScannedRecs(mark)[n].status = dpy[n].status
               /\ ScannedRecs(mark)[n].startTries = dpy[n].startTries
               /\ ScannedRecs(mark)[n].origin \in {dpy[n].origin, "file"}
         /\ \A n \in ScannedList \ displays :
               /\ ScannedRecs(mark)[n].pid = NoPid /\ ScannedRecs(mark)[n].serverPid = NoPid
               /\ ScannedRecs(mark)[n].status = "notRunning"
               /\ ScannedRecs(mark)[n].startTries = 0 /\ ScannedRecs(mark)[n].origin = "file"
         /\ displays \subseteq ScannedList
  <1> DEFINE S == ScannedRecs(mark)
  <1>1. ASSUME NEW n \in displays
        PROVE  /\ S[n].pid = dpy[n].pid /\ S[n].serverPid = dpy[n].serverPid
               /\ S[n].status = dpy[n].status /\ S[n].startTries = dpy[n].startTries
               /\ S[n].origin \in {dpy[n].origin, "file"}
    <2>1. n \in Name /\ dpy[n] \in DisplayRecord
      BY DEF Types
    <2>2. S[n] \in {dpy[n], [dpy[n] EXCEPT !.state = "missing"],
                   [dpy[n] EXCEPT !.state = "old", !.location = servers[n], !.origin = "file"]}
      BY <2>1, Zenon DEF ScannedRecs
    <2>3. CASE S[n] = dpy[n]
      BY <2>3
    <2>4. CASE S[n] = [dpy[n] EXCEPT !.state = "missing"]
      BY <2>1, <2>4 DEF DisplayRecord
    <2>5. CASE S[n] = [dpy[n] EXCEPT !.state = "old", !.location = servers[n], !.origin = "file"]
      BY <2>1, <2>5 DEF DisplayRecord
    <2> QED
      BY <2>2, <2>3, <2>4, <2>5
  <1>2. ASSUME NEW n \in ScannedList \ displays
        PROVE  /\ S[n].pid = NoPid /\ S[n].serverPid = NoPid /\ S[n].status = "notRunning"
               /\ S[n].startTries = 0 /\ S[n].origin = "file"
    <2>1. S[n] = NewDisplay(servers[n], "file")
      BY <1>2 DEF ScannedList, ScannedRecs
    <2> QED
      BY <2>1 DEF NewDisplay
  <1> QED
    BY <1>1, <1>2 DEF ScannedList

LEMMA ScanCounts ==
  ASSUME Types, CountInv, NEW mark \in BOOLEAN
  PROVE  /\ OwnPids(ScannedList, ScannedRecs(mark))
         /\ Tried(ScannedList, ScannedRecs(mark), failures)
         /\ Guests(ScannedList, ScannedRecs(mark))
  <1>1. Kept(displays, dpy, ScannedList, ScannedRecs(mark))
    BY ScanRecord DEF Kept, Same, Anew
  <1>2. ScannedList \in SUBSET Name
    BY ScannedType
  <1> QED
    BY <1>1, <1>2, KeptCounts DEF CountInv, Types
-----------------------------------------------------------------------------
(* What the steps on the list do to one display *)

LEMMA StopEffect ==
  ASSUME NEW ns \in SUBSET Name, NEW ds \in SUBSET Name, NEW recs \in [Name -> DisplayRecord],
         StopList(ns, ds, recs)
  PROVE  /\ displays' \subseteq ds
         /\ \A n \in ds : n \notin displays' => n \in ns /\ recs[n].serverPid = NoPid
         /\ \A n \in displays' \ ns : dpy'[n] = recs[n]
         /\ \A n \in displays' \cap ns :
               /\ dpy'[n].status = "zombie" /\ dpy'[n].pid = recs[n].pid
               /\ dpy'[n].serverPid = recs[n].serverPid /\ recs[n].serverPid # NoPid
               /\ dpy'[n].origin = recs[n].origin /\ dpy'[n].startTries = recs[n].startTries
  <1> DEFINE gone == {n \in ns : recs[n].serverPid = NoPid}
             z(n) == [recs[n] EXCEPT !.status = "zombie"]
  <1>1. /\ displays' = ds \ gone
        /\ \A n \in Name : dpy'[n] = IF n \in gone THEN NoDisplay
                                     ELSE IF n \in ns THEN z(n) ELSE recs[n]
    BY DEF StopList
  <1>2. \A n \in Name : /\ z(n).status = "zombie" /\ z(n).pid = recs[n].pid
                        /\ z(n).serverPid = recs[n].serverPid
                        /\ z(n).origin = recs[n].origin /\ z(n).startTries = recs[n].startTries
    BY DEF DisplayRecord
  <1> HIDE DEF z
  <1> QED
    BY <1>1, <1>2

\* A session that ended leaves its display stopped, ...
Halted(n, ds, recs, p) ==
    /\ displays' \in {ds, ds \ {n}}
    /\ n \in displays' => /\ dpy'[n].status = "zombie" /\ dpy'[n].serverPid # NoPid
                          /\ dpy'[n].serverPid = recs[n].serverPid
    /\ n \notin displays' => recs[n].serverPid = NoPid
    /\ proc' = Waited(Terminated({NoPid, recs[n].serverPid}), p)

\* ... or to be started again, at once or when its server has ended.
Restarted(n, code, ds, recs, p) ==
    /\ displays' = ds /\ recs[n].status # "zombie" /\ recs[n].origin # "xdmcp"
    /\ dpy'[n].serverPid = recs[n].serverPid
    /\ dpy'[n].startTries = IF code = "OPENFAILED" THEN recs[n].startTries + 1 ELSE 0
    /\ code = "OPENFAILED" => recs[n].startTries + 1 < StartAttempts
    /\ \/ dpy'[n].status = "notRunning" /\ proc' = Waited(Terminated({}), p)
       \/ /\ dpy'[n].status = "phoenix" /\ recs[n].serverPid # NoPid
          /\ proc' = Waited(Terminated({recs[n].serverPid}), p)

LEMMA SessionEndedEffect ==
  ASSUME NEW ds \in SUBSET Name, NEW recs \in [Name -> DisplayRecord], NEW n \in ds,
         Untired(recs[n]), NEW p, NEW code,
         SessionEnded(n, WithoutPid(recs[n]), code, ds, recs, p)
  PROVE  /\ \A m \in Name \ {n} : dpy'[m] = recs[m]
         /\ n \in displays' => dpy'[n].pid = NoPid /\ dpy'[n].origin = recs[n].origin
         /\ \/ /\ Halted(n, ds, recs, p)
               /\ \/ code \in {"UNMANAGE", "other"}
                  \/ code = "OPENFAILED" /\ recs[n].startTries + 1 >= StartAttempts
                  \/ recs[n].origin = "xdmcp" \/ recs[n].status = "zombie"
            \/ Restarted(n, code, ds, recs, p)
  <1> DEFINE r == WithoutPid(recs[n])
  <1>1. /\ r \in DisplayRecord /\ r.pid = NoPid /\ r.status = recs[n].status
        /\ r.serverPid = recs[n].serverPid /\ r.origin = recs[n].origin
        /\ r.startTries = recs[n].startTries /\ r.startTries \in Nat /\ Untired(r)
    BY ResourcesAssumption DEF WithoutPid, DisplayRecord, Untired
  <1>2. SessionEnded(n, r, code, ds, recs, p)
    OBVIOUS
  <1> HIDE DEF r
  <1>3. ASSUME NEW q \in DisplayRecord, Counted(q, r), StopDisplay(n, q, ds, recs, p)
        PROVE  /\ \A m \in Name \ {n} : dpy'[m] = recs[m]
               /\ n \in displays' => dpy'[n].pid = NoPid /\ dpy'[n].origin = recs[n].origin
               /\ Halted(n, ds, recs, p)
    <2> DEFINE new == [recs EXCEPT ![n] = q]
    <2>a. /\ new \in [Name -> DisplayRecord] /\ new[n] = q /\ \A m \in Name \ {n} : new[m] = recs[m]
          /\ q.pid = NoPid /\ q.serverPid = recs[n].serverPid /\ q.origin = recs[n].origin
      BY <1>1, <1>3 DEF Counted
    <2>b. StopList({n}, ds, new) /\ proc' = Waited(Terminated(StopPids({n}, new)), p)
      BY <1>3 DEF StopDisplay
    <2> HIDE DEF new
    <2>1. /\ displays' \subseteq ds
          /\ \A m \in ds : m \notin displays' => m \in {n} /\ new[m].serverPid = NoPid
          /\ \A m \in displays' \cap {n} :
               /\ dpy'[m].status = "zombie" /\ dpy'[m].pid = new[m].pid
               /\ dpy'[m].serverPid = new[m].serverPid /\ new[m].serverPid # NoPid
               /\ dpy'[m].origin = new[m].origin
      <3>1. {n} \in SUBSET Name
        OBVIOUS
      <3> QED
        BY <2>a, <2>b, <3>1, StopEffect
    <2>2. StopPids({n}, new) = {NoPid, recs[n].serverPid}
      BY <2>a DEF StopPids
    <2>3. \A m \in Name \ {n} : dpy'[m] = recs[m]
      BY <2>a, <2>b DEF StopList
    <2>4. displays' \in {ds, ds \ {n}}
      BY <2>1
    <2> QED
      BY <2>a, <2>b, <2>1, <2>2, <2>3, <2>4 DEF Halted
  <1>4. ASSUME NEW q \in DisplayRecord, Counted(q, r), NEW force \in BOOLEAN,
               RestartDisplay(n, q, force, ds, recs, p)
        PROVE  /\ \A m \in Name \ {n} : dpy'[m] = recs[m]
               /\ dpy'[n].pid = NoPid /\ dpy'[n].origin = recs[n].origin
               /\ displays' = ds /\ dpy'[n].serverPid = recs[n].serverPid
               /\ dpy'[n].startTries = q.startTries
               /\ \/ dpy'[n].status = "notRunning" /\ proc' = Waited(Terminated({}), p)
                  \/ /\ dpy'[n].status = "phoenix" /\ recs[n].serverPid # NoPid
                     /\ proc' = Waited(Terminated({recs[n].serverPid}), p)
    <2>1. q.pid = NoPid /\ q.origin = r.origin /\ q.serverPid = r.serverPid
      BY <1>1, <1>4 DEF Counted
    <2> DEFINE reserve == q.serverPid # NoPid /\ (force \/ TerminateServer)
               s == IF reserve THEN "phoenix" ELSE "notRunning"
               t == [q EXCEPT !.status = s]
    <2>2. /\ displays' = ds /\ dpy' = [recs EXCEPT ![n] = t]
          /\ proc' = Waited(Terminated(IF reserve THEN {q.serverPid} ELSE {}), p)
      BY <1>4 DEF RestartDisplay
    <2>3. /\ t.pid = NoPid /\ t.origin = q.origin /\ t.serverPid = q.serverPid
          /\ t.startTries = q.startTries /\ t.status = s
      BY <2>1 DEF DisplayRecord
    <2> HIDE DEF t
    <2>4. dpy'[n] = t /\ \A m \in Name \ {n} : dpy'[m] = recs[m]
      BY <2>2
    <2> QED
      BY <1>1, <2>1, <2>2, <2>3, <2>4
  <1>5. PICK q \in DisplayRecord :
            /\ Counted(q, r)
            /\ \/ StopDisplay(n, q, ds, recs, p) /\ StopCause(r, code)
               \/ /\ ~Over(r) /\ \E force \in BOOLEAN : RestartDisplay(n, q, force, ds, recs, p)
                  /\ q.startTries = IF code = "OPENFAILED" THEN r.startTries + 1 ELSE 0
                  /\ code = "OPENFAILED" => ~LastTry(r)
    BY <1>1, <1>2, SessionEndedCases
  <1>6. CASE StopDisplay(n, q, ds, recs, p) /\ StopCause(r, code)
    <2>1. \/ code \in {"UNMANAGE", "other"}
          \/ code = "OPENFAILED" /\ recs[n].startTries + 1 >= StartAttempts
          \/ recs[n].origin = "xdmcp" \/ recs[n].status = "zombie"
      BY <1>1, <1>6 DEF StopCause, Over, LastTry
    <2> QED
      BY <1>3, <1>5, <1>6, <2>1
  <1>7. CASE /\ ~Over(r) /\ \E force \in BOOLEAN : RestartDisplay(n, q, force, ds, recs, p)
             /\ q.startTries = IF code = "OPENFAILED" THEN r.startTries + 1 ELSE 0
             /\ code = "OPENFAILED" => ~LastTry(r)
    <2>1. code = "OPENFAILED" => recs[n].startTries + 1 < StartAttempts
      BY <1>1, <1>7, ResourcesAssumption DEF LastTry
    <2> QED
      BY <1>1, <1>4, <1>5, <1>7, <2>1 DEF Over, Restarted
  <1> QED
    BY <1>5, <1>6, <1>7

\* A server that ended is forgotten; its display goes, ...
Forgotten(n, ds, recs, p) ==
    displays' = ds \ {n} /\ recs[n].status = "zombie" /\ proc' = Waited(proc, p)

\* ... or is started again.
Outlived(n, ds, recs, p) ==
    /\ displays' = ds /\ recs[n].status # "zombie" /\ dpy'[n].serverPid = NoPid
    /\ dpy'[n].pid = recs[n].pid /\ dpy'[n].origin = recs[n].origin
    /\ dpy'[n].startTries = recs[n].startTries
    /\ dpy'[n].status = AfterServer(recs[n].status)
    /\ \/ proc' = Waited(Terminated({}), p)
       \/ recs[n].status = "running" /\ proc' = Waited(Terminated({recs[n].pid}), p)

LEMMA ServerEndedEffect ==
  ASSUME NEW ds \in SUBSET Name, NEW recs \in [Name -> DisplayRecord], NEW n \in ds, NEW p,
         ServerEnded(n, WithoutServer(recs[n]), ds, recs, p)
  PROVE  /\ \A m \in Name \ {n} : dpy'[m] = recs[m]
         /\ Forgotten(n, ds, recs, p) \/ Outlived(n, ds, recs, p)
  <1> DEFINE r == WithoutServer(recs[n])
             t == [r EXCEPT !.status = AfterServer(r.status)]
  <1>1. /\ r \in DisplayRecord /\ r.pid = recs[n].pid /\ r.status = recs[n].status
        /\ r.serverPid = NoPid /\ r.origin = recs[n].origin
        /\ r.startTries = recs[n].startTries
    BY DEF WithoutServer, DisplayRecord
  <1> HIDE DEF r
  <1>2. /\ t.pid = r.pid /\ t.serverPid = NoPid /\ t.origin = r.origin
        /\ t.startTries = r.startTries /\ t.status = AfterServer(r.status)
    BY <1>1 DEF DisplayRecord
  <1> HIDE DEF t
  <1>3. CASE r.status = "zombie" /\ RemoveDisplay(n, ds, recs) /\ proc' = Waited(proc, p)
    BY <1>1, <1>3 DEF RemoveDisplay, Forgotten
  <1>4. CASE /\ r.status # "zombie" /\ displays' = ds /\ dpy' = [recs EXCEPT ![n] = t]
             /\ proc' = Waited(Terminated(IF r.status = "running" THEN {r.pid} ELSE {}), p)
    <2>1. dpy'[n] = t /\ \A m \in Name \ {n} : dpy'[m] = recs[m]
      BY <1>4
    <2> QED
      BY <1>1, <1>2, <1>4, <2>1 DEF Outlived
  <1> QED
    BY <1>3, <1>4 DEF ServerEnded, r, t
-----------------------------------------------------------------------------
(* Displays are given up for a cause *)

ForCause(n) ==
    GivenUp(n) /\ dpy[n].origin = "file" /\ dpy'[n].state # "missing" /\ shutdown' = "no"
       => dpy[n].state = "missing" \/ Cause(n)

\* A display that stays, and is not a zombie, is not given up.
LEMMA StaysListed ==
  ASSUME NEW n, n \in displays => n \in displays' /\ (dpy[n].status # "zombie"
                                                       => dpy'[n].status # "zombie")
  PROVE  ForCause(n)
  BY DEF ForCause, GivenUp

LEMMA ReapedCounts ==
  ASSUME Types, CountInv
  PROVE  /\ ReapedList \in SUBSET Name /\ ReapedRecs \in [Name -> DisplayRecord]
         /\ displays \subseteq ReapedList
         /\ OwnPids(ReapedList, ReapedRecs) /\ Tried(ReapedList, ReapedRecs, failures)
         /\ Guests(ReapedList, ReapedRecs)
         /\ \A n \in displays :
               /\ ReapedRecs[n].pid = dpy[n].pid /\ ReapedRecs[n].serverPid = dpy[n].serverPid
               /\ ReapedRecs[n].status = dpy[n].status
               /\ ReapedRecs[n].startTries = dpy[n].startTries
               /\ ReapedRecs[n].origin \in {dpy[n].origin, "file"}
  <1>1. CASE AutoRescan /\ fileModified
    BY <1>1, ScannedType, ScanRecord, ScanCounts DEF ReapedList, ReapedRecs
  <1>2. CASE ~(AutoRescan /\ fileModified)
    BY <1>2 DEF ReapedList, ReapedRecs, CountInv, Types
  <1> QED
    BY <1>1, <1>2

LEMMA ReapSessionCounts ==
  ASSUME TypeInv, CountInv, NEW p \in Pid, Reap(p), NEW n \in ByPid(p),
         SessionEnded(n, WithoutPid(ReapedRecs[n]), proc[p].code, ReapedList, ReapedRecs, p)
  PROVE  CountInv' /\ \A m \in Name : ForCause(m)
  <1> DEFINE ds == ReapedList
             recs == ReapedRecs
             code == proc[p].code
  <1>1. /\ ds \in SUBSET Name /\ recs \in [Name -> DisplayRecord] /\ displays \subseteq ds
        /\ OwnPids(ds, recs) /\ Tried(ds, recs, failures) /\ Guests(ds, recs)
    BY ReapedCounts DEF TypeInv
  <1>2. \A m \in displays :
           /\ recs[m].pid = dpy[m].pid /\ recs[m].serverPid = dpy[m].serverPid
           /\ recs[m].status = dpy[m].status /\ recs[m].startTries = dpy[m].startTries
           /\ recs[m].origin \in {dpy[m].origin, "file"}
    BY ReapedCounts DEF TypeInv
  <1>3. n \in displays /\ n \in ds /\ n \in Name /\ dpy[n].pid = p /\ p # NoPid
    BY <1>1, NamesAssumption DEF ByPid
  <1>4. ByPid(p) = {n}
    BY <1>3 DEF ByPid, CountInv, OwnPids
  <1>5. /\ \A m \in Name \ {n} : failures'[m] = failures[m]
        /\ failures'[n] = IF n \notin displays' \/ code # "OPENFAILED" THEN 0
                          ELSE IF failures[n] < StartAttempts THEN failures[n] + 1
                          ELSE StartAttempts
        /\ pc = "reap" /\ pc' = pc
    BY <1>3, <1>4 DEF Reap
  <1>6. failures[n] \in 0 .. StartAttempts /\ recs[n].startTries \in 0 .. StartAttempts
    BY <1>1, <1>3 DEF TypeInv, Types, DisplayRecord
  <1>14. Untired(recs[n])
    BY <1>3, ReapedType
  <1> HIDE DEF ds, recs, code
  <1>7. /\ \A m \in Name \ {n} : dpy'[m] = recs[m]
        /\ n \in displays' => dpy'[n].pid = NoPid /\ dpy'[n].origin = recs[n].origin
        /\ \/ /\ Halted(n, ds, recs, p)
              /\ \/ code \in {"UNMANAGE", "other"}
                 \/ code = "OPENFAILED" /\ recs[n].startTries + 1 >= StartAttempts
                 \/ recs[n].origin = "xdmcp" \/ recs[n].status = "zombie"
           \/ Restarted(n, code, ds, recs, p)
    <2>1. SessionEnded(n, WithoutPid(recs[n]), code, ds, recs, p)
      BY DEF ds, recs, code
    <2> QED
      BY <1>1, <1>3, <1>14, <2>1, SessionEndedEffect
  <1>8. displays' \in {ds, ds \ {n}} /\ (n \in displays' => dpy'[n].serverPid = recs[n].serverPid)
    BY <1>3, <1>7 DEF Halted, Restarted
  <1>9. OwnPids(displays', dpy')
    <2>1. \A m \in displays' : /\ dpy'[m].pid = NoPid \/ (m \in ds /\ dpy'[m].pid = recs[m].pid)
                               /\ \/ dpy'[m].serverPid = NoPid
                                  \/ m \in ds /\ dpy'[m].serverPid = recs[m].serverPid
      BY <1>1, <1>7, <1>8
    <2> QED
      BY <1>1, <2>1, KeptPids
  <1>10. ASSUME n \in displays', dpy'[n].status # "zombie"
         PROVE  dpy'[n].startTries <= failures'[n]
    <2>1. Restarted(n, code, ds, recs, p)
      BY <1>7, <1>10 DEF Halted
    <2>2. recs[n].startTries <= failures[n]
      BY <1>1, <1>3, <2>1 DEF Restarted, Tried
    <2> QED
      BY <1>5, <1>6, <1>10, <2>1, <2>2, ResourcesAssumption DEF Restarted
  <1>11. Tried(displays', dpy', failures')
    BY <1>1, <1>5, <1>7, <1>8, <1>10 DEF Tried
  <1>12. Guests(displays', dpy')
    BY <1>1, <1>7, <1>8 DEF Guests
  <1>13. ASSUME NEW m \in Name PROVE ForCause(m)
    <2>1. CASE m # n
      <3>1. m \in displays => m \in displays' /\ (dpy[m].status # "zombie"
                                                   => dpy'[m].status # "zombie")
        BY <1>1, <1>2, <1>7, <1>8, <2>1
      <3> QED
        BY <3>1, StaysListed
    <2>2. CASE m = n /\ Restarted(n, code, ds, recs, p)
      <3>1. n \in displays' /\ dpy'[n].status # "zombie"
        BY <1>3, <2>2 DEF Restarted
      <3> QED
        BY <2>2, <3>1, StaysListed
    <2>3. CASE m = n /\ recs[n].origin = "xdmcp"
      BY <1>2, <1>3, <2>3 DEF ForCause
    <2>4. CASE m = n /\ recs[n].status = "zombie"
      BY <1>2, <1>3, <2>4 DEF ForCause, GivenUp
    <2>5. CASE /\ m = n /\ recs[n].status # "zombie"
               /\ \/ code \in {"UNMANAGE", "other"}
                  \/ code = "OPENFAILED" /\ recs[n].startTries + 1 >= StartAttempts
      <3>1. recs[n].startTries <= failures[n]
        BY <1>1, <1>3, <2>5 DEF Tried
      <3>2. code = "OPENFAILED" /\ recs[n].startTries + 1 >= StartAttempts
               => failures[n] + 1 >= StartAttempts
        BY <1>6, <3>1, ResourcesAssumption
      <3>3. Cause(n)
        BY <1>3, <2>5, <3>2 DEF Cause, code
      <3> QED
        BY <2>5, <3>3 DEF ForCause
    <2> QED
      BY <1>7, <2>1, <2>2, <2>3, <2>4, <2>5
  <1> QED
    BY <1>5, <1>9, <1>11, <1>12, <1>13 DEF CountInv, Working

LEMMA ReapCounts ==
  ASSUME TypeInv, CountInv, NEW p \in Pid, Reap(p)
  PROVE  CountInv' /\ \A m \in Name : ForCause(m)
  <1> DEFINE ds == ReapedList
             recs == ReapedRecs
  <1>1. /\ ds \in SUBSET Name /\ recs \in [Name -> DisplayRecord] /\ displays \subseteq ds
        /\ OwnPids(ds, recs) /\ Tried(ds, recs, failures) /\ Guests(ds, recs)
    BY ReapedCounts DEF TypeInv
  <1>2. \A m \in displays : recs[m].status = dpy[m].status
    BY ReapedCounts DEF TypeInv
  <1>3. CASE \E n \in ByPid(p) : SessionEnded(n, WithoutPid(recs[n]), proc[p].code, ds, recs, p)
    BY <1>3, ReapSessionCounts
  <1>4. ASSUME ByPid(p) = {}, Kept(ds, recs, displays', dpy'),
               \A m \in displays : \/ m \in displays' /\ dpy'[m].status # "zombie"
                                   \/ dpy[m].status = "zombie"
        PROVE  CountInv' /\ \A m \in Name : ForCause(m)
    <2>1. failures' \in [Name -> 0 .. StartAttempts] /\ displays' \in SUBSET Name
      BY ReapType DEF TypedInv, Types
    <2>2. \A m \in Name : failures'[m] = failures[m]
      BY <1>4 DEF Reap
    <2>3. Tried(ds, recs, failures')
      BY <1>1, <2>2 DEF Tried
    <2> HIDE DEF ds, recs
    <2>4. OwnPids(displays', dpy') /\ Tried(displays', dpy', failures') /\ Guests(displays', dpy')
      BY <1>1, <1>4, <2>1, <2>3, KeptCounts
    <2>5. pc' \notin Working
      BY DEF Reap, Working
    <2>6. \A m \in Name : ForCause(m)
      BY <1>4 DEF ForCause, GivenUp
    <2> QED
      BY <2>4, <2>5, <2>6 DEF CountInv
  <1>5. ASSUME ByPid(p) = {}, NEW n \in ByServerPid(p),
               ServerEnded(n, WithoutServer(recs[n]), ds, recs, p)
        PROVE  CountInv' /\ \A m \in Name : ForCause(m)
    <2>1. n \in ds /\ n \in displays
      BY <1>1, <1>5 DEF ByServerPid
    <2> HIDE DEF ds, recs
    <2>2. /\ \A m \in Name \ {n} : dpy'[m] = recs[m]
          /\ \/ displays' = ds \ {n} /\ recs[n].status = "zombie"
             \/ /\ displays' = ds /\ recs[n].status # "zombie" /\ dpy'[n].serverPid = NoPid
                /\ dpy'[n].pid = recs[n].pid /\ dpy'[n].origin = recs[n].origin
                /\ dpy'[n].startTries = recs[n].startTries
                /\ dpy'[n].status = AfterServer(recs[n].status)
      <3>1. /\ \A m \in Name \ {n} : dpy'[m] = recs[m]
            /\ Forgotten(n, ds, recs, p) \/ Outlived(n, ds, recs, p)
        BY <1>1, <1>5, <2>1, ServerEndedEffect
      <3> QED
        BY <3>1 DEF Forgotten, Outlived
    <2>3. \A m \in displays' : m \in ds /\ Same(recs[m], dpy'[m])
      BY <1>1, <2>2 DEF Same
    <2>4. Kept(ds, recs, displays', dpy')
      BY <2>3 DEF Kept
    <2>5. \A m \in displays : \/ m \in displays' /\ dpy'[m].status # "zombie"
                              \/ dpy[m].status = "zombie"
      BY <1>1, <1>2, <2>2 DEF AfterServer
    <2> QED
      BY <1>4, <1>5, <2>4, <2>5
  <1>6. CASE ByPid(p) = {} /\ displays' = ds /\ dpy' = recs
    <2>1. Kept(ds, recs, displays', dpy')
      BY <1>6 DEF Kept, Same
    <2>2. \A m \in displays : \/ m \in displays' /\ dpy'[m].status # "zombie"
                              \/ dpy[m].status = "zombie"
      BY <1>1, <1>2, <1>6
    <2> QED
      BY <1>4, <1>6, <2>1, <2>2
  <1> QED
    BY <1>3, <1>5, <1>6 DEF Reap, ReapedList, ReapedRecs

LEMMA KeptStep ==
  ASSUME TypeInv, CountInv, Kept(displays, dpy, displays', dpy'), displays' \in SUBSET Name,
         failures' = failures, pc' \in Working => dpy'[cur'].startTries <= failures'[cur']
  PROVE  CountInv'
  <1>1. OwnPids(displays', dpy') /\ Tried(displays', dpy', failures') /\ Guests(displays', dpy')
    <2>1. failures \in [Name -> 0 .. StartAttempts]
      BY DEF TypeInv, Types
    <2> QED
      BY <2>1, KeptCounts DEF CountInv
  <1> QED
    BY <1>1 DEF CountInv

LEMMA SameCounts ==
  ASSUME CountInv, displays' = displays, dpy' = dpy, failures' = failures,
         pc' \in Working => pc \in Working /\ cur' = cur
  PROVE  CountInv' /\ \A m \in Name : ForCause(m)
  <1>1. CountInv'
    BY DEF CountInv
  <1>2. \A m \in Name : ForCause(m)
    BY DEF ForCause, GivenUp
  <1> QED
    BY <1>1, <1>2

LEMMA ScanStepCounts ==
  ASSUME TypeInv, CountInv, NEW mark \in BOOLEAN, displays' = ScannedList,
         dpy' = ScannedRecs(mark), failures' = failures, pc' = "check"
  PROVE  CountInv' /\ \A m \in Name : ForCause(m)
  <1>1. OwnPids(displays', dpy') /\ Tried(displays', dpy', failures') /\ Guests(displays', dpy')
    BY ScanCounts DEF TypeInv
  <1>2. ASSUME NEW m \in Name PROVE ForCause(m)
    <2>1. m \in displays => m \in displays' /\ dpy'[m].status = dpy[m].status
      BY ScanRecord DEF TypeInv
    <2> QED
      BY <2>1, StaysListed
  <1> QED
    BY <1>1, <1>2 DEF CountInv, Working

LEMMA ManageCounts ==
  ASSUME TypeInv, CountInv, NEW n \in Remote, Manage(n)
  PROVE  CountInv' /\ \A m \in Name : ForCause(m)
  <1> DEFINE new == NewDisplay("foreign", "xdmcp")
  <1>1. /\ new.pid = NoPid /\ new.serverPid = NoPid /\ new.status = "notRunning"
        /\ new.startTries = 0
    BY DEF NewDisplay
  <1>2. /\ displays' = displays \cup {n} /\ n \in Name /\ displays \subseteq Name
        /\ dpy'[n] = new /\ \A m \in Name \ {n} : dpy'[m] = dpy[m]
        /\ failures' = failures /\ cur' = n
    BY DEF Manage, counts, TypeInv, Types, Name
  <1> HIDE DEF new
  <1>3. Anew(n, dpy'[n]) /\ \A m \in displays \ {n} : Same(dpy[m], dpy'[m])
    BY <1>1, <1>2 DEF Anew, Same
  <1>4. Kept(displays, dpy, displays', dpy') /\ displays' \in SUBSET Name
    BY <1>2, <1>3 DEF Kept
  <1>5. dpy'[cur'].startTries <= failures'[cur']
    <2>1. failures[n] \in 0 .. StartAttempts
      BY <1>2 DEF TypeInv, Types
    <2> QED
      BY <1>1, <1>2, <2>1, ResourcesAssumption
  <1>6. CountInv'
    BY <1>2, <1>4, <1>5, KeptStep
  <1>7. \A m \in Name : ForCause(m)
    BY <1>1, <1>2 DEF ForCause, GivenUp
  <1> QED
    BY <1>6, <1>7

LEMMA CheckCounts ==
  ASSUME IInv, CountInv, CheckNothing \/ CheckStart
  PROVE  CountInv' /\ \A m \in Name : ForCause(m)
  <1>1. /\ next \in displays /\ next \in Name /\ pc = "check" /\ displays' = displays
        /\ failures' = failures /\ cur' = next /\ displays' \in SUBSET Name
    BY DEF CheckNothing, CheckStart, Advance, counts, IInv, TypeInv, Types, SafeInv, IterInv,
       Starting
  <1>2. dpy' = dpy \/ dpy' = [dpy EXCEPT ![next].state = "old"]
    BY DEF CheckNothing, CheckStart
  <1>3. \A n \in Name : /\ dpy'[n].pid = dpy[n].pid /\ dpy'[n].serverPid = dpy[n].serverPid
                        /\ dpy'[n].status = dpy[n].status /\ dpy'[n].origin = dpy[n].origin
                        /\ dpy'[n].startTries = dpy[n].startTries
    BY <1>1, <1>2 DEF IInv, TypeInv, Types, DisplayRecord
  <1>4. Kept(displays, dpy, displays', dpy')
    BY <1>1, <1>3 DEF Kept, Same
  <1>5. pc' \in Working => dpy'[cur'].startTries <= failures'[cur']
    <2>1. pc' \in Working => dpy[next].status = "notRunning"
      BY <1>1 DEF CheckNothing, CheckStart, Working
    <2> QED
      BY <1>1, <1>3, <2>1 DEF CountInv, Tried
  <1>6. CountInv'
    BY <1>1, <1>4, <1>5, KeptStep DEF IInv
  <1>7. ASSUME NEW m \in Name PROVE ForCause(m)
    BY <1>1, <1>3, StaysListed
  <1> QED
    BY <1>6, <1>7

LEMMA StopCounts ==
  ASSUME IInv, CountInv, CheckMissing \/ StopAll
  PROVE  CountInv' /\ \A m \in Name : ForCause(m)
  <1>1. PICK ns \in SUBSET Name : /\ StopList(ns, displays, dpy)
                                  /\ CheckMissing => ns = {next} /\ dpy[next].state = "missing"
    <2>1. displays \in SUBSET Name
      BY DEF IInv, TypeInv, Types
    <2>2. CASE CheckMissing
      <3>1. {next} \in SUBSET Name
        BY <2>2 DEF CheckMissing, IInv, TypeInv, Types
      <3> QED
        BY <2>2, <3>1 DEF CheckMissing
    <2>3. CASE StopAll /\ ~CheckMissing
      BY <2>1, <2>3 DEF StopAll
    <2> QED
      BY <2>2, <2>3
  <1>2. /\ displays' \subseteq displays
        /\ \A n \in displays : n \notin displays' => n \in ns
        /\ \A n \in displays' \ ns : dpy'[n] = dpy[n]
        /\ \A n \in displays' \cap ns :
              /\ dpy'[n].status = "zombie" /\ dpy'[n].pid = dpy[n].pid
              /\ dpy'[n].serverPid = dpy[n].serverPid
              /\ dpy'[n].origin = dpy[n].origin /\ dpy'[n].startTries = dpy[n].startTries
    <2>1. displays \in SUBSET Name /\ dpy \in [Name -> DisplayRecord]
      BY DEF IInv, TypeInv, Types
    <2> QED
      BY <1>1, <2>1, StopEffect
  <1>3. \A n \in displays' : n \in displays /\ Same(dpy[n], dpy'[n])
                             /\ dpy'[n].startTries = dpy[n].startTries
    <2> TAKE n \in displays'
    <2>1. CASE n \in ns
      BY <1>2, <2>1 DEF Same
    <2>2. CASE n \notin ns
      BY <1>2, <2>2 DEF Same
    <2> QED
      BY <2>1, <2>2
  <1>4. Kept(displays, dpy, displays', dpy') /\ displays' \in SUBSET Name
    BY <1>2, <1>3 DEF Kept, IInv, TypeInv, Types
  <1>5. failures' = failures
    BY DEF CheckMissing, StopAll, counts
  <1>6. pc' \in Working => dpy'[cur'].startTries <= failures'[cur']
    <2>1. CASE CheckMissing
      BY <2>1 DEF CheckMissing, Working
    <2>2. CASE StopAll
      <3>1. cur' = cur /\ (pc' \in Working => pc' = pc)
        BY <2>2 DEF StopAll, IInv, TypeInv, Types, Control, Idle, Starting, Working
      <3>2. CurInv'
        BY <2>2, StopAllKeeps DEF SafeInv
      <3> QED
        BY <1>3, <1>5, <3>1, <3>2 DEF CurInv, CountInv
    <2> QED
      BY <2>1, <2>2
  <1>7. CountInv'
    BY <1>4, <1>5, <1>6, KeptStep DEF IInv
  <1>8. ASSUME NEW m \in Name PROVE ForCause(m)
    <2>1. CASE CheckMissing
      BY <1>1, <1>2, <2>1 DEF ForCause, GivenUp
    <2>2. CASE StopAll
      BY <2>2 DEF StopAll, ForCause
    <2> QED
      BY <2>1, <2>2
  <1> QED
    BY <1>7, <1>8

LEMMA ForkCounts ==
  ASSUME IInv, CountInv, NEW p \in Pid, ForkServer(p) \/ ForkSession(p)
  PROVE  CountInv' /\ \A m \in Name : ForCause(m)
  <1>1. /\ cur \in displays /\ cur \in Name /\ displays \subseteq Name /\ p # NoPid
        /\ dpy[cur].pid = NoPid /\ dpy[cur].startTries <= failures[cur]
    BY NamesAssumption
    DEF ForkServer, ForkSession, IInv, TypeInv, Types, SafeInv, CurInv, CountInv, Working
  <1>2. /\ displays' = displays /\ failures' = failures /\ cur' = cur
        /\ \A n \in displays : dpy[n].pid # p /\ dpy[n].serverPid # p
    BY DEF ForkServer, ForkSession, FreshPids, Remembered, Gone, iterate, counts
  <1>3. /\ \A n \in Name \ {cur} : dpy'[n] = dpy[n]
        /\ dpy'[cur].startTries = dpy[cur].startTries /\ dpy'[cur].origin = dpy[cur].origin
        /\ \/ /\ dpy'[cur].serverPid = p /\ dpy'[cur].pid = NoPid
              /\ dpy'[cur].status = dpy[cur].status
           \/ /\ dpy'[cur].serverPid = dpy[cur].serverPid /\ dpy'[cur].pid = p
              /\ dpy'[cur].status = "running"
    <2>1. dpy[cur] \in DisplayRecord /\ dpy \in [Name -> DisplayRecord]
      BY <1>1 DEF IInv, TypeInv, Types
    <2>2. CASE ForkServer(p)
      BY <1>1, <2>1, <2>2 DEF ForkServer, DisplayRecord
    <2>3. CASE ForkSession(p)
      BY <1>1, <2>1, <2>3 DEF ForkSession, DisplayRecord
    <2> QED
      BY <2>2, <2>3
  <1>4. OwnPids(displays', dpy')
    BY <1>1, <1>2, <1>3 DEF CountInv, OwnPids
  <1>5. Tried(displays', dpy', failures') /\ Guests(displays', dpy')
    BY <1>1, <1>2, <1>3 DEF CountInv, Tried, Guests
  <1>6. CountInv'
    BY <1>1, <1>2, <1>3, <1>4, <1>5 DEF CountInv
  <1>7. ASSUME NEW m \in Name PROVE ForCause(m)
    BY <1>2, <1>3, StaysListed
  <1> QED
    BY <1>6, <1>7

LEMMA ServerDisabledCounts ==
  ASSUME TypeInv, CountInv, ServerDisabled
  PROVE  CountInv' /\ \A m \in Name : ForCause(m)
  <1>1. /\ displays' = displays \ {cur} /\ failures' = failures /\ pc' \notin Working
        /\ \A n \in displays' : dpy'[n] = dpy[n]
    BY DEF ServerDisabled, RemoveDisplay, counts, Working, TypeInv, Types
  <1>2. Kept(displays, dpy, displays', dpy') /\ displays' \in SUBSET Name
    BY <1>1 DEF Kept, Same, TypeInv, Types
  <1>3. CountInv'
    BY <1>1, <1>2, KeptStep
  <1>4. Cause(cur)
    BY DEF ServerDisabled, Cause
  <1>5. \A m \in Name : ForCause(m)
    BY <1>1, <1>4 DEF ForCause, GivenUp
  <1> QED
    BY <1>3, <1>5

LEMMA CountInit == Init => CountInv
  BY DEF Init, CountInv, OwnPids, Tried, Guests, Working

LEMMA CountStep ==
  IInv /\ CountInv /\ [Next]_vars => CountInv' /\ \A m \in Name : ForCause(m)
  <1> SUFFICES ASSUME IInv, CountInv, [Next]_vars
               PROVE  CountInv' /\ \A m \in Name : ForCause(m)
    OBVIOUS
  <1>0. TypeInv
    BY DEF IInv
  <1>1. CASE UNCHANGED vars
    BY <1>1, SameCounts DEF vars, list, iterate
  <1>2. CASE Startup \/ RescanServers
    <2>1. displays' = ScannedList /\ failures' = failures /\ pc' = "check"
      BY <1>2 DEF Startup, RescanServers, StartDisplays, counts
    <2>2. \E mark \in BOOLEAN : dpy' = ScannedRecs(mark)
      BY <1>2 DEF Startup, RescanServers
    <2> QED
      BY <1>0, <2>1, <2>2, ScanStepCounts
  <1>3. CASE Exit \/ LoopOn \/ WaitForSomething \/ Select \/ Selected \/ OtherPacket \/ Sighup
    BY <1>3, SameCounts DEF Exit, LoopOn, WaitForSomething, Select, Selected, OtherPacket, Sighup,
       list, iterate, counts, Working
  <1>4. CASE WaitForChild \/ Resume
    BY <1>4, SameCounts DEF WaitForChild, Resume, list, counts, Working
  <1>5. ASSUME NEW n \in Remote, Manage(n)
        PROVE  CountInv' /\ \A m \in Name : ForCause(m)
    BY <1>0, <1>5, ManageCounts
  <1>6. ASSUME NEW p \in Pid, Reap(p) PROVE CountInv' /\ \A m \in Name : ForCause(m)
    BY <1>0, <1>6, ReapCounts
  <1>7. ASSUME NEW p \in Pid, ForkServer(p) \/ ForkSession(p)
        PROVE  CountInv' /\ \A m \in Name : ForCause(m)
    BY <1>7, ForkCounts
  <1>8. ASSUME NEW p \in Pid, PauseWait(p) \/ ChildExits(p)
        PROVE  CountInv' /\ \A m \in Name : ForCause(m)
    BY <1>8, SameCounts DEF PauseWait, ChildExits, list, iterate, counts, Working
  <1>9. CASE Reaped
    BY <1>9, SameCounts DEF Reaped, StartDisplays, list, counts, Working
  <1>10. CASE CheckNothing \/ CheckStart
    BY <1>10, CheckCounts
  <1>11. CASE CheckMissing \/ StopAll
    BY <1>11, StopCounts
  <1>12. CASE ListDone
    <2>1. pc' \notin Working
      BY <1>12 DEF ListDone, Working
    <2> QED
      BY <1>12, <2>1, SameCounts DEF ListDone, list, counts
  <1>13. CASE ForkServerFails \/ PauseNoChild \/ PauseEnds \/ SleepEnds \/ ForkSessionFails
    BY <1>13, SameCounts DEF ForkServerFails, PauseNoChild, PauseEnds, SleepEnds,
       ForkSessionFails, list, iterate, counts, Working
  <1>14. CASE ServerDisabled
    BY <1>0, <1>14, ServerDisabledCounts
  <1>15. ASSUME NEW n \in Name, EditServers(n)
         PROVE  CountInv' /\ \A m \in Name : ForCause(m)
    BY <1>15, SameCounts DEF EditServers, list, iterate, counts
  <1> QED
    BY <1>1, <1>2, <1>3, <1>4, <1>5, <1>6, <1>7, <1>8, <1>9, <1>10, <1>11, <1>12, <1>13, <1>14,
       <1>15
    DEF Next, Master, Environment, Stopped

LEMMA CountInvariant == Spec => []CountInv
  BY CountInit, CountStep, IInvariant, PTL DEF Spec

\* A display that the file lists is given up only when its session asked for
\* that, when startAttempts sessions in a row could not open it, or when its
\* server could not be started, for any number of displays and however often
\* the file is read again meanwhile (dm.c:471-523, 646-651).
THEOREM GivenUpForCause == Spec => DisabledOnlyForCause
  <1>1. IInv /\ CountInv /\ [Next]_vars =>
          [\A n \in Name :
             GivenUp(n) /\ dpy[n].origin = "file" /\ dpy'[n].state # "missing" /\ shutdown' = "no"
                => dpy[n].state = "missing" \/ Cause(n)]_vars
    BY CountStep DEF ForCause
  <1> QED
    BY <1>1, IInvariant, CountInvariant, PTL DEF Spec, DisabledOnlyForCause
-----------------------------------------------------------------------------
(* Transient displays have sessions *)

\* The session of a transient display is there, or about to be forked.
Settled(n) == dpy[n].pid # NoPid \/ (pc = "fork" /\ caller = "manage" /\ cur = n)

\* manage() calls StartDisplay for one display, when a process id is left.
ManageInv == caller = "manage" /\ pc \in Starting =>
                /\ pc \in {"fork", "check"} /\ next = NoName
                /\ pc = "fork" => FreshPids # {}

TransInv == /\ "forkfail" \notin Env
            /\ \/ pc = "wild"
               \/ ManageInv /\ \A n \in displays : dpy[n].origin = "xdmcp" => Settled(n)

\* No display loses its session, and StartDisplay is not left without forking.
LEMMA TransKept ==
  ASSUME TransInv, pc # "wild",
         \A n \in displays' : dpy'[n].origin = "xdmcp" =>
            /\ n \in displays /\ dpy[n].origin = "xdmcp"
            /\ dpy[n].pid # NoPid => dpy'[n].pid # NoPid,
         \/ pc' = "wild"
         \/ UNCHANGED <<pc, caller, cur, next>> /\ FreshPids \subseteq FreshPids'
         \/ ~(pc = "fork" /\ caller = "manage") /\ (caller' # "manage" \/ pc' \notin Starting)
  PROVE  TransInv'
  <1>1. CASE pc' = "wild"
    BY <1>1 DEF TransInv
  <1>2. CASE UNCHANGED <<pc, caller, cur, next>> /\ FreshPids \subseteq FreshPids'
    <2>1. ManageInv'
      BY <1>2 DEF TransInv, ManageInv
    <2> QED
      BY <1>2, <2>1 DEF TransInv, Settled
  <1>3. CASE ~(pc = "fork" /\ caller = "manage") /\ (caller' # "manage" \/ pc' \notin Starting)
    BY <1>3 DEF TransInv, Settled, ManageInv
  <1> QED
    BY <1>1, <1>2, <1>3

\* Steps that touch neither the list nor, while a session is about to be
\* forked, the process ids
LEMMA TransSame ==
  ASSUME TransInv, displays' = displays, dpy' = dpy,
         \/ UNCHANGED <<pc, proc, caller, cur, next>>
         \/ pc \notin {"fork", "wild"} /\ (caller' # "manage" \/ pc' \notin Starting)
  PROVE  TransInv'
  <1>1. CASE pc = "wild"
    BY <1>1 DEF TransInv
  <1>2. CASE pc # "wild"
    <2>1. UNCHANGED proc => FreshPids' = FreshPids
      BY DEF FreshPids, Remembered, Gone
    <2> QED
      BY <1>2, <2>1, TransKept
  <1> QED
    BY <1>1, <1>2

LEMMA ReapTrans ==
  ASSUME TypeInv, SafeInv, CountInv, TransInv, NEW p \in Pid, Reap(p)
  PROVE  TransInv'
  <1> DEFINE ds == ReapedList
             recs == ReapedRecs
  <1>1. /\ ds \in SUBSET Name /\ recs \in [Name -> DisplayRecord] /\ displays \subseteq ds
        /\ Guests(ds, recs)
        /\ \A m \in displays : recs[m].pid = dpy[m].pid /\ recs[m].origin \in {dpy[m].origin, "file"}
    BY ReapedCounts DEF TypeInv
  <1>2. \A m \in ds \ displays : recs[m].origin # "xdmcp"
    BY ScanRecord DEF ReapedList, ReapedRecs, TypeInv
  <1>3. \A m \in Remote : recs[m].serverPid = NoPid
    <2>1. ListInv(ds, recs, proc)
      BY ScanKeeps DEF ReapedList, ReapedRecs, SafeInv, TypeInv
    <2> QED
      BY <2>1 DEF ListInv
  <1>4. pc = "reap" /\ pc' = "reap"
    BY DEF Reap
  <1>5. SUFFICES ASSUME NEW m \in displays', dpy'[m].origin = "xdmcp"
                 PROVE  /\ m \in displays /\ dpy[m].origin = "xdmcp"
                        /\ dpy[m].pid # NoPid => dpy'[m].pid # NoPid
    BY <1>4, TransKept DEF Starting, Working
  <1>6. CASE \E n \in ByPid(p) : SessionEnded(n, WithoutPid(recs[n]), proc[p].code, ds, recs, p)
    <2>1. PICK n \in ByPid(p) : SessionEnded(n, WithoutPid(recs[n]), proc[p].code, ds, recs, p)
      BY <1>6
    <2>2. n \in ds /\ Untired(recs[n])
      BY <1>1, ReapedType DEF ByPid
    <2> HIDE DEF ds, recs
    <2>3. /\ \A k \in Name \ {n} : dpy'[k] = recs[k]
          /\ n \in displays' => dpy'[n].origin = recs[n].origin
          /\ Halted(n, ds, recs, p) \/ Restarted(n, proc[p].code, ds, recs, p)
      BY <1>1, <2>1, <2>2, SessionEndedEffect
    <2>4. m \in ds /\ m \in Name /\ (m = n => Halted(n, ds, recs, p))
      BY <1>1, <1>5, <2>2, <2>3 DEF Halted, Restarted
    <2>5. m # n
      <3>1. SUFFICES ASSUME m = n PROVE FALSE
        OBVIOUS
      <3>2. n \in Remote
        BY <1>1, <1>5, <2>2, <2>3, <3>1 DEF Guests
      <3> QED
        BY <1>3, <1>5, <2>4, <3>1, <3>2 DEF Halted
    <2>6. dpy'[m] = recs[m]
      BY <2>3, <2>4, <2>5
    <2> QED
      BY <1>1, <1>2, <1>5, <2>4, <2>6
  <1>7. CASE \E n \in ByServerPid(p) : ServerEnded(n, WithoutServer(recs[n]), ds, recs, p)
    <2>1. PICK n \in ByServerPid(p) : ServerEnded(n, WithoutServer(recs[n]), ds, recs, p)
      BY <1>7
    <2>2. n \in ds
      BY <1>1 DEF ByServerPid
    <2> HIDE DEF ds, recs
    <2>3. /\ \A k \in Name \ {n} : dpy'[k] = recs[k]
          /\ \/ displays' = ds \ {n}
             \/ displays' = ds /\ dpy'[n].pid = recs[n].pid /\ dpy'[n].origin = recs[n].origin
      <3>1. /\ \A k \in Name \ {n} : dpy'[k] = recs[k]
            /\ Forgotten(n, ds, recs, p) \/ Outlived(n, ds, recs, p)
        BY <1>1, <2>1, <2>2, ServerEndedEffect
      <3> QED
        BY <3>1 DEF Forgotten, Outlived
    <2>4. m \in ds /\ dpy'[m].origin = recs[m].origin /\ dpy'[m].pid = recs[m].pid
      BY <1>1, <1>5, <2>3
    <2> QED
      BY <1>1, <1>2, <1>5, <2>4
  <1>8. CASE displays' = ds /\ dpy' = recs
    BY <1>1, <1>2, <1>5, <1>8
  <1> QED
    BY <1>6, <1>7, <1>8 DEF Reap, ReapedList, ReapedRecs

LEMMA ManageTrans ==
  ASSUME TypeInv, TransInv, NEW n \in Remote, Manage(n)
  PROVE  TransInv'
  <1>1. /\ displays' = displays \cup {n} /\ n \in Name /\ displays \subseteq Name
        /\ dpy'[n].pid = NoPid /\ dpy'[n].serverPid = NoPid
        /\ \A m \in Name \ {n} : dpy'[m] = dpy[m]
    BY DEF Manage, TypeInv, Types, Name, NewDisplay
  <1>2. pc = "select" /\ pc' = "fork" /\ caller' = "manage" /\ cur' = n /\ next' = NoName
    BY DEF Manage
  <1>3. FreshPids # {}
    BY DEF Manage, CanFork, TransInv
  <1>4. \A p \in Pid : Gone(p) => Gone(p)'
    BY DEF Manage, Terminated, Live, Gone
  <1>5. \A p \in FreshPids : p \in FreshPids'
    BY <1>1, <1>4, NamesAssumption DEF FreshPids, Remembered, Gone
  <1>6. ManageInv'
    BY <1>2, <1>3, <1>5 DEF ManageInv
  <1>7. \A m \in displays' : dpy'[m].origin = "xdmcp" => Settled(m)'
    BY <1>1, <1>2 DEF TransInv, Settled
  <1> QED
    BY <1>6, <1>7 DEF TransInv

LEMMA CheckTrans ==
  ASSUME IInv, TransInv, CheckNothing \/ CheckStart \/ CheckMissing
  PROVE  TransInv'
  <1>1. /\ pc = "check" /\ next # NoName /\ next \in Name /\ caller' = caller
        /\ dpy \in [Name -> DisplayRecord] /\ displays \in SUBSET Name
    BY DEF CheckNothing, CheckStart, CheckMissing, Advance, IInv, TypeInv, Types
  <1>2. caller # "manage"
    BY <1>1 DEF TransInv, ManageInv, Starting
  <1>3. \A n \in displays' : /\ n \in displays /\ dpy'[n].origin = dpy[n].origin
                             /\ dpy'[n].pid = dpy[n].pid
    <2>1. CASE CheckNothing \/ CheckStart
      <3>1. displays' = displays /\ (dpy' = dpy \/ dpy' = [dpy EXCEPT ![next].state = "old"])
        BY <2>1 DEF CheckNothing, CheckStart
      <3> QED
        BY <1>1, <3>1 DEF DisplayRecord
    <2>2. CASE CheckMissing
      <3>1. StopList({next}, displays, dpy)
        BY <2>2 DEF CheckMissing
      <3>2. {next} \in SUBSET Name /\ displays \in SUBSET Name /\ dpy \in [Name -> DisplayRecord]
        BY <1>1
      <3>3. displays' \subseteq displays
        BY <3>1, <3>2, StopEffect
      <3>4. \A n \in displays' \ {next} : dpy'[n] = dpy[n]
        BY <3>1, <3>2, StopEffect
      <3>5. \A n \in displays' \cap {next} : dpy'[n].origin = dpy[n].origin
        BY <3>1, <3>2, StopEffect
      <3>6. \A n \in displays' \cap {next} : dpy'[n].pid = dpy[n].pid
        BY <3>1, <3>2, StopEffect
      <3> QED
        BY <3>3, <3>4, <3>5, <3>6
    <2> QED
      BY <2>1, <2>2
  <1> QED
    BY <1>1, <1>2, <1>3, TransKept

\* SIGTERM at any time: what remains on the list has what it had.
LEMMA StopAllTrans ==
  ASSUME IInv, TransInv, StopAll
  PROVE  TransInv'
  <1>1. /\ displays' \subseteq displays
        /\ \A n \in displays' : /\ dpy'[n].origin = dpy[n].origin /\ dpy'[n].pid = dpy[n].pid
                                /\ dpy'[n].serverPid = dpy[n].serverPid
    <2>1. StopList(displays, displays, dpy) /\ displays \in SUBSET Name /\ dpy \in [Name -> DisplayRecord]
      BY DEF StopAll, IInv, TypeInv, Types
    <2> QED
      BY <2>1, StopEffect
  <1>2. \A p \in Pid : Gone(p) => Gone(p)'
    BY DEF StopAll, Terminated, Live, Gone
  <1>3. FreshPids \subseteq FreshPids'
    BY <1>1, <1>2 DEF FreshPids, Remembered, Gone
  <1>4. /\ caller' = caller /\ cur' = cur /\ next' = next /\ pc # "wild"
        /\ \/ pc' \in {"wild", pc}
           \/ pc \in {"select", "suspend"} /\ pc' \in {"selected", "reap"}
    BY EnvAssumption DEF StopAll, Idle, Starting, Working
  <1>5. pc' \in {"selected", "reap"} => pc' \notin Starting
    BY DEF Starting, Working
  <1> QED
    BY <1>1, <1>3, <1>4, <1>5, TransKept

LEMMA ForkTrans ==
  ASSUME IInv, TransInv, NEW p \in Pid, ForkServer(p) \/ ForkSession(p)
  PROVE  TransInv'
  <1>1. /\ cur \in displays /\ cur \in Name /\ displays \subseteq Name /\ p # NoPid
        /\ displays' = displays /\ cur' = cur /\ caller' = caller /\ next' = next
        /\ dpy \in [Name -> DisplayRecord]
    BY NamesAssumption
    DEF ForkServer, ForkSession, iterate, IInv, TypeInv, Types, SafeInv, CurInv, Working
  <1>2. CASE ForkServer(p)
    <2>1. caller # "manage" /\ pc = "startServer"
      BY <1>2 DEF ForkServer, TransInv, ManageInv, Starting, Working
    <2>2. \A n \in displays : dpy'[n].origin = dpy[n].origin /\ dpy'[n].pid = dpy[n].pid
      BY <1>1, <1>2 DEF ForkServer, DisplayRecord
    <2> QED
      BY <1>1, <2>1, <2>2, TransKept
  <1>3. CASE ForkSession(p)
    <2>1. pc = "fork" /\ pc' = "check"
      BY <1>3 DEF ForkSession
    <2>2. dpy'[cur].pid = p /\ \A n \in displays \ {cur} : dpy'[n] = dpy[n]
      BY <1>1, <1>3 DEF ForkSession, DisplayRecord
    <2>3. \A n \in displays' : dpy'[n].origin = "xdmcp" => Settled(n)'
      BY <1>1, <2>1, <2>2 DEF TransInv, Settled
    <2>4. ManageInv'
      BY <1>1, <2>1 DEF TransInv, ManageInv, Starting, Working
    <2> QED
      BY <2>3, <2>4 DEF TransInv
  <1> QED
    BY <1>2, <1>3

LEMMA TransInit == ASSUME "forkfail" \notin Env, Init PROVE TransInv
  BY DEF Init, TransInv, ManageInv

LEMMA TransStep == IInv /\ CountInv /\ TransInv /\ [Next]_vars => TransInv'
  <1> SUFFICES ASSUME IInv, CountInv, TransInv, [Next]_vars PROVE TransInv'
    OBVIOUS
  <1>0. TypeInv /\ SafeInv
    BY DEF IInv
  <1>1. CASE UNCHANGED vars
    BY <1>1, TransSame DEF vars, list, iterate
  <1>2. CASE Startup \/ RescanServers
    <2>1. /\ displays' = ScannedList /\ caller' # "manage" /\ pc \notin {"fork", "wild"}
          /\ \E mark \in BOOLEAN : dpy' = ScannedRecs(mark)
      BY <1>2 DEF Startup, RescanServers, StartDisplays
    <2>2. \A n \in displays' : dpy'[n].origin = "xdmcp" =>
             /\ n \in displays /\ dpy[n].origin = "xdmcp"
             /\ dpy[n].pid # NoPid => dpy'[n].pid # NoPid
      BY <1>0, <2>1, ScanRecord DEF TypeInv
    <2> QED
      BY <2>1, <2>2, TransKept
  <1>3. CASE Exit \/ LoopOn \/ WaitForSomething \/ Select \/ Selected \/ OtherPacket
    <2>1. pc \notin {"fork", "wild"} /\ pc' \notin Starting
      BY <1>3 DEF Exit, LoopOn, WaitForSomething, Select, Selected, OtherPacket, Starting, Working
    <2> QED
      BY <1>3, <2>1, TransSame DEF Exit, LoopOn, WaitForSomething, Select, Selected, OtherPacket,
         list
  <1>4. CASE WaitForChild \/ Resume
    <2>1. pc \notin {"fork", "wild"} /\ pc' \notin Starting
      BY <1>4 DEF WaitForChild, Resume, Starting, Working
    <2> QED
      BY <1>4, <2>1, TransSame DEF WaitForChild, Resume, list
  <1>5. ASSUME NEW n \in Remote, Manage(n) PROVE TransInv'
    BY <1>0, <1>5, ManageTrans
  <1>6. ASSUME NEW p \in Pid, Reap(p) PROVE TransInv'
    BY <1>0, <1>6, ReapTrans
  <1>7. ASSUME NEW p \in Pid, ForkServer(p) \/ ForkSession(p) PROVE TransInv'
    BY <1>7, ForkTrans
  <1>8. CASE Reaped
    BY <1>8, TransSame DEF Reaped, StartDisplays, list
  <1>9. CASE CheckNothing \/ CheckStart \/ CheckMissing
    BY <1>9, CheckTrans
  <1>10. CASE ListDone
    <2>1. pc' \notin Starting /\ pc = "check"
      BY <1>10 DEF ListDone, Starting, Working
    <2> QED
      BY <1>10, <2>1, TransSame DEF ListDone, list
  <1>11. ASSUME ForkServerFails \/ PauseNoChild \/ PauseEnds \/ SleepEnds
                \/ \E p \in Pid : PauseWait(p)
         PROVE  TransInv'
    <2>1. caller # "manage" /\ pc \notin {"fork", "wild"} /\ caller' = caller
      BY <1>11 DEF ForkServerFails, PauseNoChild, PauseEnds, SleepEnds, PauseWait, iterate,
         TransInv, ManageInv, Starting, Working
    <2> QED
      BY <1>11, <2>1, TransSame DEF ForkServerFails, PauseNoChild, PauseEnds, SleepEnds, PauseWait,
         list
  <1>12. CASE ForkSessionFails
    <2>1. pc = "fork" /\ FreshPids = {} /\ caller' = caller
      BY <1>12 DEF ForkSessionFails, ForkMayFail, TransInv, iterate
    <2>2. caller # "manage"
      BY <2>1 DEF TransInv, ManageInv, Starting, Working
    <2>3. \A n \in displays' : n \in displays /\ dpy'[n] = dpy[n]
      BY <1>12 DEF ForkSessionFails, list
    <2> QED
      BY <2>1, <2>2, <2>3, TransKept
  <1>13. CASE ServerDisabled
    <2>1. /\ pc = "startServer" /\ caller' = caller
          /\ \A n \in displays' : n \in displays /\ dpy'[n] = dpy[n]
      BY <1>0, <1>13 DEF ServerDisabled, RemoveDisplay, iterate, TypeInv, Types
    <2>2. caller # "manage"
      BY <2>1 DEF TransInv, ManageInv, Starting, Working
    <2> QED
      BY <2>1, <2>2, TransKept
  <1>14. CASE StopAll
    BY <1>14, StopAllTrans
  <1>15. CASE Sighup
    <2>1. pc' = pc \/ (pc = "select" /\ pc' = "selected")
      BY <1>15 DEF Sighup
    <2>2. "selected" \notin Starting
      BY DEF Starting, Working
    <2> QED
      BY <1>15, <2>1, <2>2, TransSame DEF Sighup, list, iterate
  <1>16. ASSUME NEW p \in Pid, ChildExits(p) PROVE TransInv'
    <2>1. /\ displays' = displays /\ dpy' = dpy /\ caller' = caller /\ cur' = cur /\ next' = next
          /\ pc # "wild" /\ (pc' = pc \/ (pc = "select" /\ pc' = "selected"))
      BY <1>16 DEF ChildExits, Managing, list, iterate
    <2>2. "selected" \notin Starting
      BY DEF Starting, Working
    <2>3. \A q \in Pid : Gone(q) => Gone(q)'
      BY <1>0, <1>16 DEF ChildExits, Live, Gone, TypeInv, Types
    <2>4. FreshPids \subseteq FreshPids'
      BY <2>1, <2>3 DEF FreshPids, Remembered, Gone
    <2> QED
      BY <2>1, <2>2, <2>4, TransKept
  <1>17. ASSUME NEW n \in Name, EditServers(n) PROVE TransInv'
    BY <1>17, TransSame DEF EditServers, list, iterate
  <1> QED
    BY <1>1, <1>2, <1>3, <1>4, <1>5, <1>6, <1>7, <1>8, <1>9, <1>10, <1>11, <1>12, <1>13, <1>14,
       <1>15, <1>16, <1>17
    DEF Next, Master, Environment, Stopped
=============================================================================
