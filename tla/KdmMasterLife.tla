--------------------------- MODULE KdmMasterLife ---------------------------
(***************************************************************************)
(* kdm's master implements DisplayLife, for every set of displays and      *)
(* process ids, all bounds and all faults, as long as SIGTERM does not     *)
(* arrive inside StartDisplay: there StopAll gives up the display that     *)
(* StartDisplay is working on, which then sets it to running all the same  *)
(* (README, section 4).  With the same hypothesis, what displays wait for  *)
(* was told to end and gets no session.  Without it: a display loses the   *)
(* child it waits for to serverPause's wait() only.                        *)
(***************************************************************************)
EXTENDS KdmMasterSafety

\* A display that is being given up has a server whose end is waited for.
ZombieInv(ds, recs) == \A n \in ds : recs[n].status = "zombie" => recs[n].serverPid # NoPid

\* StartDisplay works on a display that is to be started.
HandInv == pc \in Working => dpy[cur].status = "notRunning"

LifeInv == /\ TermAt \cap Starting = {}
           /\ ZombieInv(displays, dpy) /\ HandInv
           /\ pc = "init" => displays = {}

PhaseOf(ds, recs, n) ==
    IF n \notin ds THEN "off"
    ELSE CASE recs[n].status = "running" -> "session"
           [] recs[n].status = "zombie"  -> "ending"
           [] OTHER                      -> "idle"

\* The steps of DisplayLife in which at most one display changes by itself:
\* ns are listed anew, n moves.
Moves(n, ns) ==
    /\ ns \subseteq Name \ displays /\ n \in Name \ ns
    /\ \A m \in Name \ {n} : Phase'[m] = IF m \in ns THEN "idle" ELSE Phase[m]
    /\ Phase'[n] = Phase[n] \/ Phase'[n] \in Life!After(Phase[n])
-----------------------------------------------------------------------------
LEMMA Phases ==
  /\ Phase = [n \in Name |-> PhaseOf(displays, dpy, n)]
  /\ Phase' = [n \in Name |-> PhaseOf(displays', dpy', n)]
  BY DEF Phase, PhaseOf

LEMMA MovesNext ==
  ASSUME NEW n, NEW ns, Moves(n, ns)
  PROVE  Life!Next
  <1>1. /\ Phase = [m \in Name |-> PhaseOf(displays, dpy, m)]
        /\ Phase' = [m \in Name |-> PhaseOf(displays', dpy', m)]
    BY Phases
  <1>2. ns \in SUBSET Life!Unlisted /\ n \in Name /\ n \notin ns
    BY <1>1 DEF Moves, Life!Unlisted, PhaseOf
  <1>3. Life!Listed(ns) = [m \in Name |-> IF m \in ns THEN "idle" ELSE Phase[m]]
    BY DEF Life!Listed
  <1>4. CASE Phase'[n] = Phase[n]
    <2>1. Phase' = Life!Listed(ns)
      BY <1>1, <1>2, <1>3, <1>4 DEF Moves
    <2> QED
      BY <1>2, <2>1 DEF Life!Next, Life!List
  <1>5. ASSUME NEW p \in Life!After(Phase[n]), Phase'[n] = p PROVE Life!Next
    <2>1. Phase' = [Life!Listed(ns) EXCEPT ![n] = p]
      BY <1>1, <1>2, <1>3, <1>5 DEF Moves
    <2> QED
      BY <1>2, <2>1 DEF Life!Next, Life!Leave
  <1> QED
    BY <1>4, <1>5 DEF Moves

\* Steps that change no status and no listing
LEMMA StillNext ==
  ASSUME Types, displays' = displays, \A n \in displays : dpy'[n].status = dpy[n].status
  PROVE  UNCHANGED Phase
  BY Phases DEF PhaseOf, Types

\* Reading the servers file lists displays anew, and moves none.
LEMMA ScanPhase ==
  ASSUME Types, ZombieInv(displays, dpy), NEW mark \in BOOLEAN
  PROVE  LET ns == {n \in Name \ displays : servers[n] # "absent"}
         IN  /\ \A n \in Name : PhaseOf(ScannedList, ScannedRecs(mark), n)
                                   = IF n \in ns THEN "idle" ELSE PhaseOf(displays, dpy, n)
             /\ ZombieInv(ScannedList, ScannedRecs(mark))
  <1> DEFINE S == ScannedRecs(mark)
  <1>1. \A n \in displays : S[n].serverPid = dpy[n].serverPid /\ S[n].status = dpy[n].status
    <2> SUFFICES ASSUME NEW n \in displays
                 PROVE  S[n].serverPid = dpy[n].serverPid /\ S[n].status = dpy[n].status
      OBVIOUS
    <2>1. n \in Name /\ dpy[n] \in DisplayRecord
      BY DEF Types
    <2>2. S[n] \in {dpy[n], [dpy[n] EXCEPT !.state = "missing"],
                   [dpy[n] EXCEPT !.state = "old", !.location = servers[n], !.origin = "file"]}
      BY <2>1, Zenon DEF ScannedRecs
    <2>3. CASE S[n] = dpy[n]
      BY <2>3
    <2>4. CASE S[n] = [dpy[n] EXCEPT !.state = "missing"]
      BY <2>1, <2>4 DEF DisplayRecord
    <2>5. CASE S[n] = [dpy[n] EXCEPT !.state = "old", !.location = servers[n], !.origin = "file"]
      BY <2>1, <2>5 DEF DisplayRecord
    <2> QED
      BY <2>2, <2>3, <2>4, <2>5
  <1>2. ScannedList = displays \cup {n \in Name \ displays : servers[n] # "absent"}
    BY DEF ScannedList, Types
  <1>3. \A n \in Name \ displays : servers[n] # "absent" => S[n].status = "notRunning"
    BY DEF ScannedRecs, NewDisplay
  <1> HIDE DEF S
  <1>4. ZombieInv(ScannedList, S)
    BY <1>1, <1>2, <1>3 DEF ZombieInv
  <1>5. \A n \in Name : PhaseOf(ScannedList, S, n)
              = IF n \in {m \in Name \ displays : servers[m] # "absent"} THEN "idle"
                ELSE PhaseOf(displays, dpy, n)
    BY <1>1, <1>2, <1>3 DEF PhaseOf
  <1> QED
    BY <1>4, <1>5 DEF S

\* Stopping displays moves them towards their end.
LEMMA StopPhase ==
  ASSUME NEW ns \in SUBSET Name, NEW ds \in SUBSET Name, NEW recs \in [Name -> DisplayRecord],
         ns \subseteq ds, ZombieInv(ds, recs), StopList(ns, ds, recs)
  PROVE  /\ ZombieInv(displays', dpy')
         /\ \A n \in Name \ ns : PhaseOf(displays', dpy', n) = PhaseOf(ds, recs, n)
         /\ \A n \in ns : \/ PhaseOf(displays', dpy', n) = "off"
                          \/ PhaseOf(displays', dpy', n) = "ending"
  <1> DEFINE gone == {n \in ns : recs[n].serverPid = NoPid}
  <1>1. /\ displays' = ds \ gone
        /\ \A n \in Name : dpy'[n] = IF n \in gone THEN NoDisplay
                                     ELSE IF n \in ns THEN [recs[n] EXCEPT !.status = "zombie"]
                                     ELSE recs[n]
    BY DEF StopList
  <1>2. \A n \in Name : LET z == [recs[n] EXCEPT !.status = "zombie"]
                        IN  z.serverPid = recs[n].serverPid /\ z.status = "zombie"
    BY DEF DisplayRecord
  <1>3. ZombieInv(displays', dpy')
    BY <1>1, <1>2 DEF ZombieInv
  <1>4. \A n \in Name \ ns : PhaseOf(displays', dpy', n) = PhaseOf(ds, recs, n)
    BY <1>1 DEF PhaseOf
  <1>5. \A n \in ns : PhaseOf(displays', dpy', n) \in {"off", "ending"}
    <2> SUFFICES ASSUME NEW n \in ns PROVE PhaseOf(displays', dpy', n) \in {"off", "ending"}
      OBVIOUS
    <2>1. CASE n \in gone
      BY <1>1, <2>1 DEF PhaseOf
    <2>2. CASE n \notin gone
      <3>1. dpy'[n].status = "zombie"
        BY <1>1, <1>2, <2>2
      <3> QED
        BY <3>1 DEF PhaseOf
    <2> QED
      BY <2>1, <2>2
  <1> QED
    BY <1>3, <1>4, <1>5
-----------------------------------------------------------------------------
(* Children are waited for *)

\* The record that a session's end leaves has a phase its display may move to.
LEMMA SessionEndedPhase ==
  ASSUME NEW ds \in SUBSET Name, NEW recs \in [Name -> DisplayRecord],
         \A m \in ds : StatusOK(recs[m]), ZombieInv(ds, recs),
         NEW p \in Pid, NEW n \in ds, recs[n].pid = p, Untired(recs[n]), NEW code,
         SessionEnded(n, WithoutPid(recs[n]), code, ds, recs, p)
  PROVE  /\ ZombieInv(displays', dpy')
         /\ \A m \in Name \ {n} : PhaseOf(displays', dpy', m) = PhaseOf(ds, recs, m)
         /\ \/ PhaseOf(displays', dpy', n) = PhaseOf(ds, recs, n)
            \/ PhaseOf(displays', dpy', n) \in Life!After(PhaseOf(ds, recs, n))
  <1>1. recs[n].status \in {"running", "zombie"}
    BY NamesAssumption DEF StatusOK, DisplayRecord
  <1>2. /\ \A m \in Name \ {n} : dpy'[m] = recs[m]
        /\ Halted(n, ds, recs, p) \/ Restarted(n, code, ds, recs, p)
    BY SessionEndedEffect
  <1>3. \A m \in Name \ {n} : PhaseOf(displays', dpy', m) = PhaseOf(ds, recs, m)
    BY <1>2 DEF Halted, Restarted, PhaseOf
  <1>4. CASE Halted(n, ds, recs, p)
    <2>1. ZombieInv(displays', dpy')
      BY <1>2, <1>4 DEF Halted, ZombieInv
    <2>2. PhaseOf(displays', dpy', n) \in {"off", "ending"}
      BY <1>4 DEF Halted, PhaseOf
    <2>3. PhaseOf(ds, recs, n) \in {"session", "ending"}
      BY <1>1 DEF PhaseOf
    <2> QED
      BY <1>3, <2>1, <2>2, <2>3 DEF Life!After
  <1>5. CASE Restarted(n, code, ds, recs, p)
    <2>1. dpy'[n].status \in {"notRunning", "phoenix"} /\ displays' = ds /\ recs[n].status = "running"
      BY <1>1, <1>5 DEF Restarted
    <2>2. ZombieInv(displays', dpy')
      BY <1>2, <2>1 DEF ZombieInv
    <2>3. PhaseOf(displays', dpy', n) = "idle" /\ PhaseOf(ds, recs, n) = "session"
      BY <2>1 DEF PhaseOf
    <2> QED
      BY <1>3, <2>2, <2>3 DEF Life!After
  <1> QED
    BY <1>2, <1>4, <1>5

LEMMA ServerEndedPhase ==
  ASSUME NEW ds \in SUBSET Name, NEW recs \in [Name -> DisplayRecord], ZombieInv(ds, recs),
         NEW p, NEW n \in ds, ServerEnded(n, WithoutServer(recs[n]), ds, recs, p)
  PROVE  /\ ZombieInv(displays', dpy')
         /\ \A m \in Name \ {n} : PhaseOf(displays', dpy', m) = PhaseOf(ds, recs, m)
         /\ \/ PhaseOf(displays', dpy', n) = PhaseOf(ds, recs, n)
            \/ PhaseOf(displays', dpy', n) \in Life!After(PhaseOf(ds, recs, n))
  <1> DEFINE r == WithoutServer(recs[n])
  <1>1. r \in DisplayRecord /\ r.status = recs[n].status
    BY DEF WithoutServer, DisplayRecord
  <1> HIDE DEF r
  <1>2. CASE r.status = "zombie"
    <2>1. displays' = ds \ {n} /\ dpy' = [recs EXCEPT ![n] = NoDisplay]
      BY <1>2 DEF ServerEnded, RemoveDisplay, r
    <2>2. \A m \in Name \ {n} : dpy'[m] = recs[m]
      BY <2>1
    <2>3. PhaseOf(displays', dpy', n) = "off" /\ PhaseOf(ds, recs, n) = "ending"
      BY <1>1, <1>2, <2>1 DEF PhaseOf
    <2> QED
      BY <2>1, <2>2, <2>3 DEF PhaseOf, ZombieInv, Life!After
  <1>3. CASE r.status # "zombie"
    <2>1. displays' = ds /\ dpy' = [recs EXCEPT ![n] = [r EXCEPT !.status = AfterServer(r.status)]]
      BY <1>3 DEF ServerEnded, r
    <2>2. dpy'[n].status = AfterServer(r.status) /\ \A m \in Name \ {n} : dpy'[m] = recs[m]
      BY <1>1, <2>1 DEF DisplayRecord
    <2>3. PhaseOf(displays', dpy', n) = PhaseOf(ds, recs, n) /\ dpy'[n].status # "zombie"
      BY <1>1, <1>3, <2>1, <2>2 DEF PhaseOf, AfterServer, DisplayRecord
    <2> QED
      BY <2>1, <2>2, <2>3 DEF PhaseOf, ZombieInv
  <1> QED
    BY <1>2, <1>3

LEMMA ReapMoves ==
  ASSUME IInv, LifeInv, NEW p \in Pid, Reap(p)
  PROVE  ZombieInv(displays', dpy') /\ Life!Next
  <1> DEFINE ns == IF AutoRescan /\ fileModified THEN {n \in Name \ displays : servers[n] # "absent"} ELSE {}
  <1>1. Types /\ ZombieInv(displays, dpy)
    BY DEF IInv, TypeInv, LifeInv
  <1>2. /\ ReapedList \in SUBSET Name /\ ReapedRecs \in [Name -> DisplayRecord]
        /\ displays \subseteq ReapedList
    BY <1>1, ScannedType DEF ReapedList, ReapedRecs, ScannedList, Types
  <1>3. /\ \A n \in ReapedList : StatusOK(ReapedRecs[n])
        /\ \A n \in displays : ReapedRecs[n].pid = dpy[n].pid
    BY <1>1, ScanKeeps DEF ReapedList, ReapedRecs, IInv, SafeInv
  <1>4. /\ ZombieInv(ReapedList, ReapedRecs) /\ ns \subseteq Name \ displays
        /\ \A n \in Name : PhaseOf(ReapedList, ReapedRecs, n)
                               = IF n \in ns THEN "idle" ELSE PhaseOf(displays, dpy, n)
    BY <1>1, ScanPhase DEF ReapedList, ReapedRecs
  <1>9. \A n \in displays : Untired(ReapedRecs[n])
    BY <1>1, ReapedType DEF IInv, Types
  <1> HIDE DEF ns
  <1>5. ASSUME NEW n \in displays,
               \A m \in Name \ {n} : PhaseOf(displays', dpy', m) = PhaseOf(ReapedList, ReapedRecs, m),
               \/ PhaseOf(displays', dpy', n) = PhaseOf(ReapedList, ReapedRecs, n)
               \/ PhaseOf(displays', dpy', n) \in Life!After(PhaseOf(ReapedList, ReapedRecs, n))
        PROVE  Life!Next
    <2>1. n \in Name /\ n \notin ns
      BY <1>1, <1>4 DEF Types
    <2>2. Moves(n, ns)
      BY <1>4, <1>5, <2>1, Phases DEF Moves
    <2> QED
      BY <2>2, MovesNext
  <1>6. CASE \E n \in ByPid(p) : SessionEnded(n, WithoutPid(ReapedRecs[n]), proc[p].code,
                                             ReapedList, ReapedRecs, p)
    <2>1. PICK n \in ByPid(p) : SessionEnded(n, WithoutPid(ReapedRecs[n]), proc[p].code,
                                             ReapedList, ReapedRecs, p)
      BY <1>6
    <2>2. n \in displays /\ n \in ReapedList /\ ReapedRecs[n].pid = p
      BY <1>2, <1>3 DEF ByPid
    <2>3. /\ ZombieInv(displays', dpy')
          /\ \A m \in Name \ {n} : PhaseOf(displays', dpy', m) = PhaseOf(ReapedList, ReapedRecs, m)
          /\ \/ PhaseOf(displays', dpy', n) = PhaseOf(ReapedList, ReapedRecs, n)
             \/ PhaseOf(displays', dpy', n) \in Life!After(PhaseOf(ReapedList, ReapedRecs, n))
      BY <1>2, <1>3, <1>4, <1>9, <2>1, <2>2, SessionEndedPhase
    <2> QED
      BY <1>5, <2>2, <2>3
  <1>7. CASE \E n \in ByServerPid(p) : ServerEnded(n, WithoutServer(ReapedRecs[n]),
                                                  ReapedList, ReapedRecs, p)
    <2>1. PICK n \in ByServerPid(p) : ServerEnded(n, WithoutServer(ReapedRecs[n]),
                                                  ReapedList, ReapedRecs, p)
      BY <1>7
    <2>2. n \in displays /\ n \in ReapedList
      BY <1>2 DEF ByServerPid
    <2>3. /\ ZombieInv(displays', dpy')
          /\ \A m \in Name \ {n} : PhaseOf(displays', dpy', m) = PhaseOf(ReapedList, ReapedRecs, m)
          /\ \/ PhaseOf(displays', dpy', n) = PhaseOf(ReapedList, ReapedRecs, n)
             \/ PhaseOf(displays', dpy', n) \in Life!After(PhaseOf(ReapedList, ReapedRecs, n))
      BY <1>2, <1>4, <2>1, <2>2, ServerEndedPhase
    <2> QED
      BY <1>5, <2>2, <2>3
  <1>8. CASE displays' = ReapedList /\ dpy' = ReapedRecs
    <2>1. Phase' = Life!Listed(ns)
      BY <1>4, <1>8, Phases DEF Life!Listed
    <2>2. ns \in SUBSET Life!Unlisted
      BY <1>4, Phases DEF Life!Unlisted, PhaseOf
    <2> QED
      BY <1>4, <1>8, <2>1, <2>2 DEF Life!Next, Life!List
  <1> QED
    BY <1>6, <1>7, <1>8 DEF Reap, ReapedList, ReapedRecs
-----------------------------------------------------------------------------
(* The other steps of the master *)

\* Steps that leave the list alone, and take up no display
LEMMA KeptNext ==
  ASSUME LifeInv, UNCHANGED list, pc' \in Working => pc \in Working /\ cur' = cur,
         pc' = "init" => pc = "init"
  PROVE  LifeInv' /\ UNCHANGED Phase
  BY Phases DEF LifeInv, HandInv, ZombieInv, list, PhaseOf

LEMMA ScanNext ==
  ASSUME IInv, LifeInv, NEW mark \in BOOLEAN, NEW who, displays' = ScannedList,
         dpy' = ScannedRecs(mark), StartDisplays(displays', who)
  PROVE  LifeInv' /\ Life!Next
  <1> DEFINE ns == {n \in Name \ displays : servers[n] # "absent"}
  <1>1. /\ ZombieInv(displays', dpy')
        /\ \A n \in Name : PhaseOf(displays', dpy', n)
                               = IF n \in ns THEN "idle" ELSE PhaseOf(displays, dpy, n)
    BY ScanPhase DEF IInv, TypeInv, LifeInv
  <1>2. ns \subseteq Name \ displays
    OBVIOUS
  <1> HIDE DEF ns
  <1>3. Phase' = Life!Listed(ns) /\ ns \in SUBSET Life!Unlisted
    BY <1>1, <1>2, Phases DEF Life!Listed, Life!Unlisted, PhaseOf
  <1>4. LifeInv'
    BY <1>1 DEF LifeInv, HandInv, StartDisplays, Working
  <1> QED
    BY <1>3, <1>4 DEF Life!Next, Life!List

LEMMA ManageNext ==
  ASSUME IInv, LifeInv, NEW n \in Remote, Manage(n)
  PROVE  LifeInv' /\ Life!Next
  <1> DEFINE new == NewDisplay("foreign", "xdmcp")
  <1>1. new.status = "notRunning"
    BY DEF NewDisplay
  <1>2. /\ displays' = displays \cup {n} /\ n \in Name
        /\ dpy'[n] = new /\ \A m \in Name \ {n} : dpy'[m] = dpy[m]
    BY DEF Manage, IInv, TypeInv, Types, Name
  <1> HIDE DEF new
  <1>3. n \in displays => dpy[n].status # "zombie"
    BY DEF IInv, SafeInv, ListInv, LifeInv, ZombieInv
  <1>4. PhaseOf(displays', dpy', n) = "idle"
    BY <1>1, <1>2 DEF PhaseOf
  <1>5. PhaseOf(displays, dpy, n) \in {"off", "idle", "session"}
    BY <1>3 DEF PhaseOf
  <1>6. \A m \in Name \ {n} : PhaseOf(displays', dpy', m) = PhaseOf(displays, dpy, m)
    BY <1>2 DEF PhaseOf
  <1>7. Moves(n, {})
    <2>1. Phase[n] = PhaseOf(displays, dpy, n) /\ Phase'[n] = "idle"
      BY <1>2, <1>4, Phases
    <2>2. Phase'[n] = Phase[n] \/ Phase'[n] \in Life!After(Phase[n])
      BY <1>5, <2>1 DEF Life!After
    <2> QED
      BY <1>2, <1>6, <2>2, Phases DEF Moves
  <1>8. LifeInv'
    <2>1. pc' = "fork" /\ cur' = n /\ displays \subseteq Name
      BY DEF Manage, IInv, TypeInv, Types
    <2> QED
      BY <1>1, <1>2, <2>1 DEF LifeInv, HandInv, ZombieInv
  <1> QED
    BY <1>7, <1>8, MovesNext

LEMMA ReapNext ==
  ASSUME IInv, LifeInv, NEW p \in Pid, Reap(p)
  PROVE  LifeInv' /\ Life!Next
  <1>1. pc' = "reap"
    BY DEF Reap
  <1> QED
    BY <1>1, ReapMoves DEF LifeInv, HandInv, Working

LEMMA CheckNext ==
  ASSUME IInv, LifeInv, CheckNothing \/ CheckStart
  PROVE  LifeInv' /\ UNCHANGED Phase
  <1>1. next \in displays /\ next \in Name /\ displays' = displays /\ pc = "check" /\ Types
    BY DEF CheckNothing, CheckStart, IInv, TypeInv, Types, SafeInv, IterInv, Starting
  <1>2. dpy' = dpy \/ dpy' = [dpy EXCEPT ![next].state = "old"]
    BY DEF CheckNothing, CheckStart
  <1>3. \A n \in Name : dpy'[n].serverPid = dpy[n].serverPid /\ dpy'[n].status = dpy[n].status
    BY <1>1, <1>2 DEF Types, DisplayRecord
  <1>4. UNCHANGED Phase
    BY <1>1, <1>3, StillNext DEF Types
  <1>5. ZombieInv(displays', dpy')
    BY <1>1, <1>3 DEF LifeInv, ZombieInv, Types
  <1>6. HandInv' /\ pc' # "init"
    <2>1. CASE CheckNothing
      BY <1>1, <2>1 DEF CheckNothing, HandInv, Working
    <2>2. CASE CheckStart
      BY <1>1, <1>3, <2>2 DEF CheckStart, Advance, HandInv
    <2> QED
      BY <2>1, <2>2
  <1> QED
    BY <1>4, <1>5, <1>6 DEF LifeInv

LEMMA CheckMissingNext ==
  ASSUME IInv, LifeInv, CheckMissing
  PROVE  LifeInv' /\ Life!Next
  <1>1. next \in displays /\ next \in Name /\ pc = "check" /\ pc' = pc /\ Types
    BY DEF CheckMissing, IInv, TypeInv, Types, SafeInv, IterInv, Starting
  <1>2. /\ ZombieInv(displays', dpy')
        /\ \A n \in Name \ {next} : PhaseOf(displays', dpy', n) = PhaseOf(displays, dpy, n)
        /\ PhaseOf(displays', dpy', next) \in {"off", "ending"}
    <2>1. /\ {next} \in SUBSET Name /\ displays \in SUBSET Name /\ dpy \in [Name -> DisplayRecord]
          /\ {next} \subseteq displays /\ ZombieInv(displays, dpy)
          /\ StopList({next}, displays, dpy)
      BY <1>1 DEF CheckMissing, LifeInv, Types
    <2> QED
      BY <2>1, StopPhase
  <1>3. PhaseOf(displays, dpy, next) \in {"idle", "session", "ending"}
    BY <1>1 DEF PhaseOf
  <1>4. Moves(next, {})
    <2>1. Phase[next] = PhaseOf(displays, dpy, next) /\ Phase'[next] = PhaseOf(displays', dpy', next)
      BY <1>1, Phases
    <2>2. Phase'[next] = Phase[next] \/ Phase'[next] \in Life!After(Phase[next])
      BY <1>2, <1>3, <2>1 DEF Life!After
    <2> QED
      BY <1>1, <1>2, <2>2, Phases DEF Moves
  <1>5. LifeInv'
    BY <1>1, <1>2 DEF LifeInv, HandInv, Working
  <1> QED
    BY <1>4, <1>5, MovesNext

LEMMA ForkServerNext ==
  ASSUME IInv, LifeInv, NEW p \in Pid, ForkServer(p)
  PROVE  LifeInv' /\ UNCHANGED Phase
  <1>1. cur \in displays /\ cur \in Name /\ Types /\ displays' = displays /\ pc' = "pause" /\ cur' = cur
    BY DEF ForkServer, iterate, IInv, TypeInv, Types, SafeInv, CurInv, Working
  <1>2. dpy' = [dpy EXCEPT ![cur].serverPid = p]
    BY DEF ForkServer
  <1>3. /\ \A n \in Name : dpy'[n].status = dpy[n].status
        /\ dpy'[cur].serverPid = p /\ \A n \in Name \ {cur} : dpy'[n] = dpy[n]
    BY <1>1, <1>2 DEF Types, DisplayRecord
  <1>4. UNCHANGED Phase
    BY <1>1, <1>3, StillNext DEF Types
  <1>5. ZombieInv(displays', dpy')
    BY <1>1, <1>3, NamesAssumption DEF LifeInv, ZombieInv, Types
  <1>6. HandInv'
    BY <1>1, <1>3 DEF ForkServer, LifeInv, HandInv, Working
  <1> QED
    BY <1>1, <1>4, <1>5, <1>6 DEF LifeInv

LEMMA ServerDisabledNext ==
  ASSUME IInv, LifeInv, ServerDisabled
  PROVE  LifeInv' /\ Life!Next
  <1>1. cur \in displays /\ cur \in Name /\ pc' = "check" /\ displays' = displays \ {cur}
        /\ dpy' = [dpy EXCEPT ![cur] = NoDisplay]
    BY DEF ServerDisabled, RemoveDisplay, IInv, TypeInv, Types, SafeInv, CurInv, Working
  <1>2. \A n \in Name \ {cur} : dpy'[n] = dpy[n]
    BY <1>1 DEF IInv, TypeInv, Types
  <1>3. PhaseOf(displays', dpy', cur) = "off" /\ PhaseOf(displays, dpy, cur) \in {"idle", "session", "ending"}
    BY <1>1 DEF PhaseOf
  <1>4. \A n \in Name \ {cur} : PhaseOf(displays', dpy', n) = PhaseOf(displays, dpy, n)
    BY <1>1, <1>2 DEF PhaseOf
  <1>5. Moves(cur, {})
    <2>1. Phase[cur] = PhaseOf(displays, dpy, cur) /\ Phase'[cur] = "off"
      BY <1>1, <1>3, Phases
    <2>2. Phase'[cur] \in Life!After(Phase[cur])
      BY <1>3, <2>1 DEF Life!After
    <2> QED
      BY <1>1, <1>4, <2>2, Phases DEF Moves
  <1>6. LifeInv'
    BY <1>1, <1>2 DEF LifeInv, HandInv, Working, ZombieInv, IInv, TypeInv, Types
  <1> QED
    BY <1>5, <1>6, MovesNext

LEMMA ForkSessionNext ==
  ASSUME IInv, LifeInv, NEW p \in Pid, ForkSession(p)
  PROVE  LifeInv' /\ Life!Next
  <1>1. cur \in displays /\ cur \in Name /\ Types /\ displays' = displays /\ pc' = "check"
        /\ dpy[cur].status = "notRunning"
    BY DEF ForkSession, IInv, TypeInv, Types, SafeInv, CurInv, LifeInv, HandInv, Working
  <1>2. dpy' = [dpy EXCEPT ![cur] = [dpy[cur] EXCEPT !.pid = p, !.status = "running"]]
    BY DEF ForkSession
  <1>3. dpy'[cur].status = "running" /\ \A n \in Name \ {cur} : dpy'[n] = dpy[n]
    BY <1>1, <1>2 DEF Types, DisplayRecord
  <1>4. PhaseOf(displays, dpy, cur) = "idle" /\ PhaseOf(displays', dpy', cur) = "session"
        /\ \A n \in Name \ {cur} : PhaseOf(displays', dpy', n) = PhaseOf(displays, dpy, n)
    BY <1>1, <1>3 DEF PhaseOf
  <1>5. Life!Login(cur)
    BY <1>1, <1>4, Phases DEF Life!Login
  <1>6. LifeInv'
    BY <1>1, <1>3 DEF LifeInv, HandInv, Working, ZombieInv, Types
  <1> QED
    BY <1>1, <1>5, <1>6 DEF Life!Next

\* SIGTERM arrives outside StartDisplay.
LEMMA StopAllNext ==
  ASSUME IInv, LifeInv, StopAll
  PROVE  LifeInv' /\ Life!Next
  <1>1. Types /\ StopList(displays, displays, dpy)
    BY DEF StopAll, IInv, TypeInv
  <1>2. pc \notin Starting /\ pc # "init"
    BY EnvAssumption DEF StopAll, LifeInv, Idle, Starting, Working
  <1>3. pc' \notin Working /\ pc' # "init"
    BY <1>2 DEF StopAll, Starting, Working
  <1>4. /\ ZombieInv(displays', dpy')
        /\ \A n \in Name \ displays : PhaseOf(displays', dpy', n) = PhaseOf(displays, dpy, n)
        /\ \A n \in displays : PhaseOf(displays', dpy', n) \in {"off", "ending"}
    <2>1. /\ displays \in SUBSET Name /\ dpy \in [Name -> DisplayRecord]
          /\ displays \subseteq displays /\ ZombieInv(displays, dpy)
      BY <1>1 DEF LifeInv, Types
    <2> QED
      BY <1>1, <2>1, StopPhase
  <1>5. \A n \in displays : PhaseOf(displays, dpy, n) \in {"idle", "session", "ending"}
    BY DEF PhaseOf
  <1>6. \A n \in Name \ displays : PhaseOf(displays, dpy, n) = "off"
    BY DEF PhaseOf
  <1>7. Life!Shutdown
    <2>1. \A n \in Name : Phase'[n] \in {"off", "ending"}
      BY <1>4, <1>6, Phases
    <2>2. ASSUME NEW n \in Name PROVE Phase'[n] = Phase[n] \/ Phase'[n] \in Life!After(Phase[n])
      <3>1. CASE n \in displays
        BY <1>4, <1>5, <3>1, Phases DEF Life!After
      <3>2. CASE n \notin displays
        BY <1>4, <3>2, Phases
      <3> QED
        BY <3>1, <3>2
    <2> QED
      BY <2>1, <2>2, Phases DEF Life!Shutdown
  <1>8. LifeInv'
    BY <1>3, <1>4 DEF LifeInv, HandInv
  <1> QED
    BY <1>7, <1>8 DEF Life!Next
-----------------------------------------------------------------------------
(* The refinement *)

LEMMA LifeInit ==
  ASSUME TermAt \cap Starting = {}, Init
  PROVE  LifeInv /\ Life!Init
  <1>1. displays = {} /\ pc = "init"
    BY DEF Init
  <1>2. Life!Init
    BY <1>1, Phases DEF Life!Init, PhaseOf
  <1> QED
    BY <1>1, <1>2 DEF LifeInv, ZombieInv, HandInv, Working

LEMMA LifeStep ==
  ASSUME IInv, LifeInv, [Next]_vars
  PROVE  LifeInv' /\ [Life!Next]_Phase
  <1>1. CASE UNCHANGED vars \/ Stopped
    BY <1>1, KeptNext DEF Stopped, vars, iterate
  <1>2. CASE Startup \/ RescanServers
    BY <1>2, ScanNext DEF Startup, RescanServers
  <1>3. CASE Exit \/ LoopOn \/ WaitForSomething \/ Select \/ Selected \/ OtherPacket
    <2>1. UNCHANGED list /\ pc' \in {"exited", "wait", "preselect", "waitchild", "select", "selected", "loop"}
      BY <1>3 DEF Exit, LoopOn, WaitForSomething, Select, Selected, OtherPacket
    <2>2. pc' \notin Working /\ pc' # "init"
      BY <2>1 DEF Working
    <2> QED
      BY <2>1, <2>2, KeptNext
  <1>4. CASE WaitForChild \/ Resume
    BY <1>4, KeptNext DEF WaitForChild, Resume, Working
  <1>5. CASE Reaped \/ ListDone
    <2>1. UNCHANGED list /\ pc' \in {"check", "wait", "selected", "loop"}
      BY <1>5 DEF Reaped, ListDone, StartDisplays
    <2>2. pc' \notin Working /\ pc' # "init"
      BY <2>1 DEF Working
    <2> QED
      BY <2>1, <2>2, KeptNext
  <1>6. CASE Sighup
    BY <1>6, KeptNext DEF Sighup, iterate, Working
  <1>7. ASSUME NEW p \in Pid, Reap(p) \/ ForkServer(p) \/ ForkSession(p)
        PROVE  LifeInv' /\ [Life!Next]_Phase
    BY <1>7, ReapNext, ForkServerNext, ForkSessionNext
  <1>8. ASSUME NEW p \in Pid, PauseWait(p)
        PROVE  LifeInv' /\ [Life!Next]_Phase
    BY <1>8, KeptNext DEF PauseWait, iterate, Working
  <1>9. ASSUME NEW p \in Pid, ChildExits(p)
        PROVE  LifeInv' /\ [Life!Next]_Phase
    BY <1>9, KeptNext DEF ChildExits, iterate, Working
  <1>10. ASSUME NEW n \in Remote, Manage(n) PROVE LifeInv' /\ [Life!Next]_Phase
    BY <1>10, ManageNext
  <1>11. ASSUME NEW n \in Name, EditServers(n) PROVE LifeInv' /\ [Life!Next]_Phase
    BY <1>11, KeptNext DEF EditServers, iterate
  <1>12. CASE CheckNothing \/ CheckStart \/ CheckMissing
    BY <1>12, CheckNext, CheckMissingNext
  <1>13. CASE ForkServerFails \/ PauseNoChild \/ PauseEnds \/ SleepEnds \/ ForkSessionFails
    BY <1>13, KeptNext DEF ForkServerFails, PauseNoChild, PauseEnds, SleepEnds,
       ForkSessionFails, iterate, Working
  <1>14. CASE ServerDisabled \/ StopAll
    BY <1>14, ServerDisabledNext, StopAllNext
  <1> QED
    BY <1>1, <1>2, <1>3, <1>4, <1>5, <1>6, <1>7, <1>8, <1>9, <1>10, <1>11, <1>12, <1>13, <1>14
    DEF Next, Master, Environment

\* The phases of kdm's displays, as its list and records give them, change
\* only as DisplayLife says, when SIGTERM does not arrive inside StartDisplay
\* (dm.c:367-389, 448-728; file.c:147-238; server.c:84-229; xdmcp.c:969-1113).
THEOREM LifeImplemented ==
  ASSUME TermAt \cap Starting = {}
  PROVE  Spec => LifeSpec
  <1>1. Init => LifeInv /\ Life!Init
    BY LifeInit
  <1>2. IInv /\ LifeInv /\ [Next]_vars => LifeInv' /\ [Life!Next]_Phase
    BY LifeStep
  <1> QED
    BY <1>1, <1>2, IInvariant, PTL DEF Spec, LifeSpec, Life!Spec
-----------------------------------------------------------------------------
(* Sessions and servers that have been told to end *)

Waiting == {"zombie", "phoenix"}

\* A display that waits for its server has told it to end; no other has.
Fit(r, procs) ==
    /\ r.status \in Waiting => /\ r.serverPid # NoPid
                               /\ Alive(procs, r.serverPid) => procs[r.serverPid].term
    /\ r.status \notin Waiting => (Alive(procs, r.serverPid) => ~procs[r.serverPid].term)

DoomInv(ds, recs, procs) == \A n \in ds : Fit(recs[n], procs)

\* The processes ps are sent SIGTERM, and nobody else; some may be waited for.
Tells(ps) ==
    \A p \in Pid : proc'[p].st = "live" =>
        /\ proc[p].st = "live"
        /\ proc'[p].term <=> proc[p].term \/ p \in ps

\* What happens to a display with record r: nothing its server is told of, or
\* it begins to wait for the server it tells, or it has none.
Abides(r, q, ps) ==
    \/ /\ q.status \in Waiting <=> r.status \in Waiting
       /\ q.serverPid = r.serverPid /\ r.serverPid \notin ps
    \/ q.status \in Waiting /\ q.serverPid \in ps \ {NoPid}
    \/ q.status \notin Waiting /\ q.serverPid = NoPid

LEMMA TellsTerminated ==
  ASSUME Types, NEW ps, NEW p, proc' = Terminated(ps) \/ proc' = Waited(Terminated(ps), p)
  PROVE  Tells(ps)
  <1> DEFINE told == Terminated(ps)
  <1>1. /\ told \in [Pid -> ProcessRecord]
        /\ \A q \in Pid : told[q].st = "live" => /\ proc[q].st = "live"
                                                 /\ told[q].term <=> proc[q].term \/ q \in ps
    <2>1. \A q \in Pid : /\ proc[q] \in ProcessRecord
                         /\ told[q] = IF q \in ps /\ Live(q) THEN [proc[q] EXCEPT !.term = TRUE]
                                      ELSE proc[q]
      BY DEF Types, Terminated
    <2>2. told \in [Pid -> ProcessRecord]
      BY KilledType
    <2> HIDE DEF told
    <2>3. ASSUME NEW q \in Pid, told[q].st = "live"
          PROVE  proc[q].st = "live" /\ (told[q].term <=> proc[q].term \/ q \in ps)
      <3>1. CASE q \in ps /\ Live(q)
        BY <2>1, <3>1 DEF ProcessRecord, Live
      <3>2. CASE ~(q \in ps /\ Live(q))
        BY <2>1, <2>3, <3>2 DEF Live
      <3> QED
        BY <3>1, <3>2
    <2> QED
      BY <2>2, <2>3
  <1> HIDE DEF told
  <1>2. CASE proc' = told
    BY <1>1, <1>2 DEF Tells
  <1>3. CASE proc' = Waited(told, p)
    BY <1>1, <1>3 DEF Tells, Waited, NoProcess
  <1> QED
    BY <1>2, <1>3 DEF told

LEMMA TellsNone ==
  ASSUME Types, NEW p, proc' = proc \/ proc' = Waited(proc, p)
  PROVE  Tells({})
  BY DEF Tells, Waited, NoProcess, Types

LEMMA FitStep ==
  ASSUME NEW r, NEW q, NEW ps, Tells(ps), Fit(r, proc), Abides(r, q, ps)
  PROVE  Fit(q, proc')
  BY NamesAssumption DEF Tells, Fit, Abides, Alive

\* A display that has no server, and does not wait for one, needs no more.
LEMMA FitIdle ==
  ASSUME NEW r, NEW procs, r.status = "notRunning", r.serverPid = NoPid
  PROVE  Fit(r, procs)
  BY NamesAssumption DEF Fit, Alive, Waiting

LEMMA DoomKept ==
  ASSUME NEW ds, NEW recs, NEW ps, DoomInv(ds, recs, proc), Tells(ps),
         \A n \in displays' : n \in ds /\ Abides(recs[n], dpy'[n], ps)
  PROVE  DoomInv(displays', dpy', proc')
  BY FitStep DEF DoomInv

LEMMA ScanDoom ==
  ASSUME Types, DoomInv(displays, dpy, proc), NEW mark \in BOOLEAN
  PROVE  DoomInv(ScannedList, ScannedRecs(mark), proc)
  <1>1. \A n \in displays : Fit(ScannedRecs(mark)[n], proc)
    BY ScanRecord DEF DoomInv, Fit
  <1>2. \A n \in ScannedList \ displays : Fit(ScannedRecs(mark)[n], proc)
    BY ScanRecord, FitIdle
  <1> QED
    BY <1>1, <1>2 DEF DoomInv

LEMMA ReapedDoom ==
  ASSUME Types, DoomInv(displays, dpy, proc)
  PROVE  DoomInv(ReapedList, ReapedRecs, proc)
  BY ScanDoom DEF ReapedList, ReapedRecs

LEMMA ReapSessionDoom ==
  ASSUME IInv, CountInv, DoomInv(displays, dpy, proc), NEW p \in Pid, NEW n \in ByPid(p),
         SessionEnded(n, WithoutPid(ReapedRecs[n]), proc[p].code, ReapedList, ReapedRecs, p)
  PROVE  DoomInv(displays', dpy', proc')
  <1> DEFINE ds == ReapedList
             recs == ReapedRecs
             code == proc[p].code
  <1>1. /\ ds \in SUBSET Name /\ recs \in [Name -> DisplayRecord] /\ displays \subseteq ds
        /\ OwnPids(ds, recs)
    BY ReapedCounts DEF IInv, TypeInv
  <1>2. \A m \in displays : recs[m].pid = dpy[m].pid /\ recs[m].status = dpy[m].status
    BY ReapedCounts DEF IInv, TypeInv
  <1>3. n \in displays /\ n \in ds /\ n \in Name /\ recs[n].pid = p /\ p # NoPid
    BY <1>1, <1>2, NamesAssumption DEF ByPid
  <1>4. recs[n].status \in {"running", "zombie"}
    BY <1>1, <1>2, <1>3 DEF IInv, SafeInv, StatusOK, DisplayRecord
  <1>5. DoomInv(ds, recs, proc) /\ Types
    BY ReapedDoom DEF IInv, TypeInv
  <1>6. SessionEnded(n, WithoutPid(recs[n]), code, ds, recs, p)
    OBVIOUS
  <1>12. Untired(recs[n])
    BY <1>3, ReapedType DEF IInv
  <1> HIDE DEF ds, recs, code
  <1>7. \A m \in Name \ {n} : dpy'[m] = recs[m]
    BY <1>1, <1>3, <1>6, <1>12, SessionEndedEffect
  <1>8. Halted(n, ds, recs, p) \/ Restarted(n, code, ds, recs, p)
    BY <1>1, <1>3, <1>6, <1>12, SessionEndedEffect
  <1>9. \A m \in ds \ {n} : recs[m].serverPid # recs[n].serverPid \/ recs[n].serverPid = NoPid
    BY <1>1, <1>3 DEF OwnPids
  <1>10. CASE Halted(n, ds, recs, p)
    <2> DEFINE ps == {NoPid, recs[n].serverPid}
    <2>1. Tells(ps)
      BY <1>5, <1>10, TellsTerminated DEF Halted
    <2>2. ASSUME NEW m \in displays', m # n
          PROVE  m \in ds /\ Fit(dpy'[m], proc')
      <3>1. m \in ds /\ m \in Name /\ dpy'[m] = recs[m] /\ Fit(recs[m], proc)
        BY <1>1, <1>5, <1>7, <1>10, <2>2 DEF Halted, DoomInv
      <3>2. CASE recs[m].serverPid = NoPid
        BY <3>1, <3>2, NamesAssumption DEF Fit, Alive
      <3>3. CASE recs[m].serverPid # NoPid
        <4>1. Abides(recs[m], dpy'[m], ps)
          BY <1>9, <2>2, <3>1, <3>3 DEF Abides
        <4> QED
          BY <2>1, <3>1, <4>1, FitStep
      <3> QED
        BY <3>1, <3>2, <3>3
    <2>3. ASSUME n \in displays' PROVE Fit(dpy'[n], proc')
      <3>1. Abides(recs[n], dpy'[n], ps)
        BY <1>10, <2>3 DEF Halted, Abides, Waiting
      <3> QED
        BY <1>3, <1>5, <2>1, <3>1, FitStep DEF DoomInv
    <2> QED
      BY <2>2, <2>3 DEF DoomInv
  <1>11. CASE Restarted(n, code, ds, recs, p)
    <2>1. recs[n].status = "running" /\ displays' = ds /\ dpy'[n].serverPid = recs[n].serverPid
      BY <1>4, <1>11 DEF Restarted
    <2>2. PICK ps : /\ proc' = Waited(Terminated(ps), p)
                    /\ \/ dpy'[n].status = "notRunning" /\ ps = {}
                       \/ /\ dpy'[n].status = "phoenix" /\ ps = {recs[n].serverPid}
                          /\ recs[n].serverPid # NoPid
      BY <1>11 DEF Restarted
    <2>3. Tells(ps)
      BY <1>5, <2>2, TellsTerminated
    <2>4. \A m \in displays' : m \in ds /\ Abides(recs[m], dpy'[m], ps)
      <3> TAKE m \in displays'
      <3>1. CASE m = n
        BY <2>1, <2>2, <3>1 DEF Abides, Waiting
      <3>2. CASE m # n
        <4>1. dpy'[m] = recs[m] /\ m \in ds
          BY <1>1, <1>7, <2>1, <3>2
        <4>2. recs[m].serverPid \notin ps
          BY <1>9, <2>2, <3>2, <4>1
        <4> QED
          BY <4>1, <4>2 DEF Abides
      <3> QED
        BY <2>1, <3>1, <3>2
    <2> QED
      BY <1>5, <2>3, <2>4, DoomKept
  <1> QED
    BY <1>8, <1>10, <1>11

LEMMA ReapServerDoom ==
  ASSUME IInv, CountInv, DoomInv(displays, dpy, proc), NEW p \in Pid, NEW n \in ByServerPid(p),
         ServerEnded(n, WithoutServer(ReapedRecs[n]), ReapedList, ReapedRecs, p)
  PROVE  DoomInv(displays', dpy', proc')
  <1> DEFINE ds == ReapedList
             recs == ReapedRecs
  <1>1. /\ ds \in SUBSET Name /\ recs \in [Name -> DisplayRecord] /\ displays \subseteq ds
        /\ OwnPids(ds, recs)
    BY ReapedCounts DEF IInv, TypeInv
  <1>2. n \in displays /\ n \in ds
    BY <1>1 DEF ByServerPid
  <1>3. recs[n].status = "running" => recs[n].pid # NoPid
    BY <1>2, ReapedCounts DEF IInv, TypeInv, SafeInv, StatusOK
  <1>4. DoomInv(ds, recs, proc) /\ Types
    BY ReapedDoom DEF IInv, TypeInv
  <1>5. ServerEnded(n, WithoutServer(recs[n]), ds, recs, p)
    OBVIOUS
  <1> HIDE DEF ds, recs
  <1>6. /\ \A m \in Name \ {n} : dpy'[m] = recs[m]
        /\ \/ displays' = ds \ {n} /\ proc' = Waited(proc, p)
           \/ /\ displays' = ds /\ recs[n].status # "zombie" /\ dpy'[n].serverPid = NoPid
              /\ dpy'[n].status = AfterServer(recs[n].status)
              /\ \/ proc' = Waited(Terminated({}), p)
                 \/ recs[n].status = "running" /\ proc' = Waited(Terminated({recs[n].pid}), p)
    <2>1. \A m \in Name \ {n} : dpy'[m] = recs[m]
      BY <1>1, <1>2, <1>5, ServerEndedEffect
    <2>2. Forgotten(n, ds, recs, p) \/ Outlived(n, ds, recs, p)
      BY <1>1, <1>2, <1>5, ServerEndedEffect
    <2> QED
      BY <2>1, <2>2 DEF Forgotten, Outlived
  <1>7. PICK ps : /\ ps = {} \/ (ps = {recs[n].pid} /\ recs[n].pid # NoPid)
                  /\ Tells(ps)
    BY <1>3, <1>4, <1>6, TellsTerminated, TellsNone
  <1>8. \A m \in displays' : m \in ds /\ Abides(recs[m], dpy'[m], ps)
    <2> TAKE m \in displays'
    <2>1. CASE m = n
      <3>1. recs[n].status # "zombie" /\ dpy'[n].serverPid = NoPid
            /\ dpy'[n].status = AfterServer(recs[n].status)
        BY <1>6, <2>1
      <3>2. dpy'[n].status \notin Waiting
        BY <3>1 DEF AfterServer, Waiting
      <3> QED
        BY <1>2, <2>1, <3>1, <3>2 DEF Abides
    <2>2. CASE m # n
      <3>1. m \in ds /\ dpy'[m] = recs[m]
        BY <1>1, <1>6, <2>2
      <3>2. recs[m].serverPid \notin ps
        BY <1>1, <1>2, <1>7, <3>1 DEF OwnPids
      <3> QED
        BY <3>1, <3>2 DEF Abides
    <2> QED
      BY <2>1, <2>2
  <1> QED
    BY <1>4, <1>7, <1>8, DoomKept

LEMMA ReapDoom ==
  ASSUME IInv, CountInv, DoomInv(displays, dpy, proc), NEW p \in Pid, Reap(p)
  PROVE  DoomInv(displays', dpy', proc')
  <1>1. CASE displays' = ReapedList /\ dpy' = ReapedRecs /\ proc' = Waited(proc, p)
    <2>1. DoomInv(ReapedList, ReapedRecs, proc)
      BY ReapedDoom DEF IInv, TypeInv
    <2>2. \A q \in Pid : proc'[q].st = "live" => proc'[q] = proc[q]
      BY <1>1 DEF Waited, NoProcess, IInv, TypeInv, Types
    <2> QED
      BY <1>1, <2>1, <2>2 DEF DoomInv, Fit, Alive
  <1> QED
    BY <1>1, ReapSessionDoom, ReapServerDoom DEF Reap, ReapedList, ReapedRecs

\* The steps that stop displays
LEMMA StopDoom ==
  ASSUME Types, OwnPids(displays, dpy), DoomInv(displays, dpy, proc), NEW ns \in SUBSET displays,
         StopList(ns, displays, dpy), proc' = Terminated(StopPids(ns, dpy))
  PROVE  DoomInv(displays', dpy', proc')
  <1> DEFINE ps == StopPids(ns, dpy) \ {NoPid}
  <1>1. ns \in SUBSET Name /\ displays \in SUBSET Name /\ dpy \in [Name -> DisplayRecord]
    BY DEF Types
  <1>2. displays' \subseteq displays /\ \A n \in displays' \ ns : dpy'[n] = dpy[n]
    BY <1>1, StopEffect
  <1>3. \A n \in displays' \cap ns :
           /\ dpy'[n].status = "zombie" /\ dpy'[n].serverPid = dpy[n].serverPid
           /\ dpy[n].serverPid # NoPid
    BY <1>1, StopEffect
  <1>4. Tells(ps)
    <2>1. Tells(StopPids(ns, dpy))
      BY TellsTerminated
    <2> QED
      BY <2>1, NamesAssumption DEF Tells
  <1>5. \A n \in displays' : n \in displays /\ Abides(dpy[n], dpy'[n], ps)
    <2> TAKE n \in displays'
    <2>1. CASE n \in ns
      <3>1. dpy[n].serverPid \in ps
        BY <1>3, <2>1 DEF StopPids
      <3> QED
        BY <1>2, <1>3, <2>1, <3>1 DEF Abides, Waiting
    <2>2. CASE n \notin ns
      <3>1. n \in displays /\ dpy'[n] = dpy[n]
        BY <1>2, <2>2
      <3>2. dpy[n].serverPid \notin ps
        BY <2>2, <3>1 DEF StopPids, OwnPids
      <3> QED
        BY <3>1, <3>2 DEF Abides
    <2> QED
      BY <2>1, <2>2
  <1> HIDE DEF ps
  <1> QED
    BY <1>4, <1>5, DoomKept

LEMMA ManageDoom ==
  ASSUME IInv, CountInv, DoomInv(displays, dpy, proc), NEW n \in Remote, Manage(n)
  PROVE  DoomInv(displays', dpy', proc')
  <1> DEFINE ps == IF n \in displays THEN {dpy[n].pid} \ {NoPid} ELSE {}
             new == NewDisplay("foreign", "xdmcp")
  <1>1. new.status = "notRunning" /\ new.serverPid = NoPid
    BY DEF NewDisplay
  <1>2. /\ displays' = displays \cup {n} /\ n \in Name
        /\ dpy'[n] = new /\ \A m \in Name \ {n} : dpy'[m] = dpy[m]
        /\ displays \subseteq Name /\ Types
    BY DEF Manage, IInv, TypeInv, Types, Name
  <1> HIDE DEF new
  <1>3. Tells(ps)
    <2>1. Tells(IF n \in displays THEN {dpy[n].pid} ELSE {})
      BY <1>2, TellsTerminated DEF Manage
    <2> QED
      BY <2>1, NamesAssumption DEF Tells
  <1>4. \A m \in displays' \ {n} : Fit(dpy'[m], proc')
    <2> TAKE m \in displays' \ {n}
    <2>1. m \in displays /\ dpy'[m] = dpy[m] /\ Fit(dpy[m], proc)
      BY <1>2 DEF DoomInv
    <2>2. dpy[m].serverPid \notin ps
      BY <2>1 DEF CountInv, OwnPids
    <2>3. Abides(dpy[m], dpy'[m], ps)
      BY <2>1, <2>2 DEF Abides
    <2> HIDE DEF ps
    <2> QED
      BY <1>3, <2>1, <2>3, FitStep
  <1>5. Fit(dpy'[n], proc')
    BY <1>1, <1>2, FitIdle
  <1> QED
    BY <1>4, <1>5 DEF DoomInv

LEMMA ForkDoom ==
  ASSUME IInv, LifeInv, DoomInv(displays, dpy, proc), NEW p \in Pid,
         ForkServer(p) \/ ForkSession(p)
  PROVE  DoomInv(displays', dpy', proc')
  <1>1. /\ cur \in displays /\ cur \in Name /\ displays \subseteq Name /\ displays' = displays
        /\ dpy[cur].status = "notRunning" /\ dpy \in [Name -> DisplayRecord]
        /\ \A n \in displays : dpy[n].serverPid # p
    BY DEF ForkServer, ForkSession, FreshPids, Remembered, IInv, TypeInv, Types, SafeInv, CurInv,
       LifeInv, HandInv, Working
  <1>2. /\ \A n \in Name \ {cur} : dpy'[n] = dpy[n]
        /\ dpy'[cur].status \in {"notRunning", "running"}
        /\ dpy'[cur].serverPid \in {dpy[cur].serverPid, p}
    <2>1. CASE ForkServer(p)
      BY <1>1, <2>1 DEF ForkServer, DisplayRecord
    <2>2. CASE ForkSession(p)
      BY <1>1, <2>2 DEF ForkSession, DisplayRecord
    <2> QED
      BY <2>1, <2>2
  <1>3. ~proc'[p].term /\ \A q \in Pid \ {p} : proc'[q] = proc[q]
    BY DEF ForkServer, ForkSession, Process, IInv, TypeInv, Types
  <1>4. \A n \in displays \ {cur} : Fit(dpy'[n], proc')
    BY <1>1, <1>2, <1>3 DEF DoomInv, Fit, Alive
  <1>5. Fit(dpy'[cur], proc')
    <2>1. Fit(dpy[cur], proc) /\ dpy'[cur].status \notin Waiting /\ dpy[cur].status \notin Waiting
      BY <1>1, <1>2 DEF DoomInv, Waiting
    <2> QED
      BY <1>2, <1>3, <2>1 DEF Fit, Alive
  <1> QED
    BY <1>1, <1>4, <1>5 DEF DoomInv

\* Steps that change no status and no server, and tell nobody to end
LEMMA DoomSame ==
  ASSUME DoomInv(displays, dpy, proc), displays' \subseteq displays,
         \A n \in displays' : dpy'[n].status = dpy[n].status /\ dpy'[n].serverPid = dpy[n].serverPid,
         \A p \in Pid : proc'[p].st = "live" => proc[p].st = "live" /\ proc'[p].term = proc[p].term
  PROVE  DoomInv(displays', dpy', proc')
  BY DEF DoomInv, Fit, Alive

LEMMA DoomStep ==
  ASSUME IInv, CountInv, LifeInv, DoomInv(displays, dpy, proc), [Next]_vars
  PROVE  DoomInv(displays', dpy', proc')
  <1>0. Types
    BY DEF IInv, TypeInv
  <1>1. CASE UNCHANGED <<list, proc>>
    BY <1>1, DoomSame DEF list
  <1>2. CASE Startup \/ RescanServers
    <2>1. displays' = ScannedList /\ proc' = proc /\ \E mark \in BOOLEAN : dpy' = ScannedRecs(mark)
      BY <1>2 DEF Startup, RescanServers
    <2> QED
      BY <1>0, <2>1, ScanDoom
  <1>3. CASE Exit \/ LoopOn \/ WaitForSomething \/ Select \/ Selected \/ OtherPacket \/ Sighup
             \/ WaitForChild \/ Resume \/ Reaped \/ ListDone
    BY <1>1, <1>3 DEF Exit, LoopOn, WaitForSomething, Select, Selected, OtherPacket, Sighup,
       WaitForChild, Resume, Reaped, ListDone, list
  <1>4. CASE ForkServerFails \/ PauseNoChild \/ PauseEnds \/ SleepEnds \/ ForkSessionFails
    BY <1>1, <1>4 DEF ForkServerFails, PauseNoChild, PauseEnds, SleepEnds, ForkSessionFails
  <1>5. ASSUME NEW n \in Name, EditServers(n) PROVE DoomInv(displays', dpy', proc')
    BY <1>1, <1>5 DEF EditServers
  <1>6. ASSUME NEW n \in Remote, Manage(n) PROVE DoomInv(displays', dpy', proc')
    BY <1>6, ManageDoom
  <1>7. ASSUME NEW p \in Pid, Reap(p) PROVE DoomInv(displays', dpy', proc')
    BY <1>7, ReapDoom
  <1>8. ASSUME NEW p \in Pid, ForkServer(p) \/ ForkSession(p)
        PROVE  DoomInv(displays', dpy', proc')
    BY <1>8, ForkDoom
  <1>9. ASSUME NEW p \in Pid, PauseWait(p) \/ ChildExits(p)
        PROVE  DoomInv(displays', dpy', proc')
    <2>1. displays' = displays /\ dpy' = dpy
      BY <1>9 DEF PauseWait, ChildExits, list
    <2>2. \A q \in Pid : proc'[q].st = "live" => proc[q].st = "live" /\ proc'[q].term = proc[q].term
      BY <1>0, <1>9 DEF PauseWait, ChildExits, TakenProcess, NoProcess, Types
    <2> QED
      BY <2>1, <2>2, DoomSame
  <1>10. CASE CheckNothing \/ CheckStart
    <2>1. /\ displays' = displays /\ proc' = proc /\ next \in Name
          /\ dpy' = dpy \/ dpy' = [dpy EXCEPT ![next].state = "old"]
      BY <1>0, <1>10 DEF CheckNothing, CheckStart, Types
    <2>2. \A n \in displays' : dpy'[n].status = dpy[n].status /\ dpy'[n].serverPid = dpy[n].serverPid
      BY <1>0, <2>1 DEF Types, DisplayRecord
    <2> QED
      BY <2>1, <2>2, DoomSame
  <1>11. CASE CheckMissing
    <2>1. {next} \in SUBSET displays
      BY <1>11 DEF CheckMissing, IInv, SafeInv, IterInv, Starting
    <2> QED
      BY <1>0, <1>11, <2>1, StopDoom DEF CheckMissing, CountInv
  <1>12. CASE StopAll
    BY <1>0, <1>12, StopDoom DEF StopAll, CountInv
  <1>13. CASE ServerDisabled
    <2>1. proc' = proc /\ displays' \subseteq displays /\ \A n \in displays' : dpy'[n] = dpy[n]
      BY <1>0, <1>13 DEF ServerDisabled, RemoveDisplay, Types
    <2> QED
      BY <2>1, DoomSame
  <1>14. CASE UNCHANGED vars
    BY <1>1, <1>14 DEF vars
  <1> QED
    BY <1>2, <1>3, <1>4, <1>5, <1>6, <1>7, <1>8, <1>9, <1>10, <1>11, <1>12, <1>13, <1>14
    DEF Next, Master, Environment, Stopped

LEMMA DoomInvariant ==
  ASSUME TermAt \cap Starting = {}
  PROVE  Spec => []DoomInv(displays, dpy, proc)
  <1>1. Init => LifeInv /\ DoomInv(displays, dpy, proc)
    BY LifeInit DEF Init, DoomInv
  <1>2. IInv /\ LifeInv /\ [Next]_vars => LifeInv'
    BY LifeStep
  <1>3. IInv /\ CountInv /\ LifeInv /\ DoomInv(displays, dpy, proc) /\ [Next]_vars
          => DoomInv(displays, dpy, proc)'
    BY DoomStep
  <1> QED
    BY <1>1, <1>2, <1>3, IInvariant, CountInvariant, PTL DEF Spec

\* A display that waits for the end of its server has told that server to
\* end, whatever mixture of ended sessions, crashes, rescans and terminals
\* led there, when SIGTERM does not arrive inside StartDisplay (dm.c:696-728).
THEOREM ServersTold ==
  ASSUME TermAt \cap Starting = {}
  PROVE  Spec => []WaitedServerTold
  <1>1. DoomInv(displays, dpy, proc) => WaitedServerTold
    BY DEF DoomInv, Fit, WaitedServerTold, Waiting, Alive, Live
  <1> QED
    BY <1>1, DoomInvariant, PTL

\* No display has, or is about to start, a session on a server that has been
\* told to end, under the same assumption (dm.c:542-546, 714-728).
THEOREM ServersNotDoomed ==
  ASSUME TermAt \cap Starting = {}
  PROVE  Spec => []NoSessionOnDoomedServer
  <1>1. DoomInv(displays, dpy, proc) => NoSessionOnDoomedServer
    BY DEF DoomInv, Fit, NoSessionOnDoomedServer, Waiting, Alive, Live
  <1> QED
    BY <1>1, DoomInvariant, PTL
-----------------------------------------------------------------------------
(* A display loses a child to serverPause's wait() only *)

\* The list ds with records recs remembers only children procs, or what
\* serverPause took.
Known(ds, recs, procs) ==
    \A n \in ds : \A p \in {recs[n].pid, recs[n].serverPid} \ {NoPid} : procs[p].st # "none"

\* The children that are waited for, if any, are gone.
Takes(gone) == \A p \in Pid \ gone : proc[p].st # "none" => proc'[p].st # "none"

LEMMA KnownKept ==
  ASSUME NEW ds, NEW recs \in [Name -> DisplayRecord], NEW gone, Takes(gone),
         Known(ds, recs, proc), ds \subseteq Name,
         \A n \in displays' : /\ n \in ds
                              /\ {dpy'[n].pid, dpy'[n].serverPid} \ {NoPid}
                                    \subseteq {recs[n].pid, recs[n].serverPid} \ gone
  PROVE  Known(displays', dpy', proc')
  <1> SUFFICES ASSUME NEW n \in displays', NEW p \in {dpy'[n].pid, dpy'[n].serverPid} \ {NoPid}
               PROVE  proc'[p].st # "none"
    BY DEF Known
  <1>1. n \in ds /\ p \in {recs[n].pid, recs[n].serverPid} \ gone /\ p # NoPid
    OBVIOUS
  <1>2. p \in Pid
    BY <1>1 DEF DisplayRecord
  <1>3. proc[p].st # "none"
    BY <1>1 DEF Known
  <1> QED
    BY <1>1, <1>2, <1>3 DEF Takes

LEMMA TakesTerminated ==
  ASSUME Types, NEW ps, NEW p
  PROVE  /\ proc' = Terminated(ps) => Takes({})
         /\ proc' = Waited(Terminated(ps), p) \/ proc' = Waited(proc, p) => Takes({p})
  <1> DEFINE told == Terminated(ps)
  <1>1. \A q \in Pid : told[q].st = proc[q].st
    BY DEF Terminated, Live, Types, ProcessRecord
  <1>2. told \in [Pid -> ProcessRecord]
    BY KilledType
  <1> HIDE DEF told
  <1>3. proc' = told => Takes({})
    BY <1>1 DEF Takes
  <1>4. proc' = Waited(told, p) => Takes({p})
    BY <1>1, <1>2 DEF Takes, Waited
  <1>5. proc' = Waited(proc, p) => Takes({p})
    BY DEF Takes, Waited, Types
  <1> QED
    BY <1>3, <1>4, <1>5 DEF told

LEMMA ScanKnown ==
  ASSUME Types, Known(displays, dpy, proc), NEW mark \in BOOLEAN
  PROVE  Known(ScannedList, ScannedRecs(mark), proc)
  <1>1. \A n \in displays : /\ ScannedRecs(mark)[n].pid = dpy[n].pid
                            /\ ScannedRecs(mark)[n].serverPid = dpy[n].serverPid
    BY ScanRecord
  <1>2. \A n \in ScannedList \ displays : /\ ScannedRecs(mark)[n].pid = NoPid
                                          /\ ScannedRecs(mark)[n].serverPid = NoPid
    BY ScanRecord
  <1> QED
    BY <1>1, <1>2 DEF Known

LEMMA ReapKnown ==
  ASSUME IInv, CountInv, Known(displays, dpy, proc), NEW p \in Pid, Reap(p)
  PROVE  Known(displays', dpy', proc')
  <1> DEFINE ds == ReapedList
             recs == ReapedRecs
  <1>1. /\ ds \in SUBSET Name /\ recs \in [Name -> DisplayRecord] /\ displays \subseteq ds
        /\ OwnPids(ds, recs) /\ Types
    BY ReapedCounts DEF IInv, TypeInv
  <1>2. \A m \in displays : recs[m].pid = dpy[m].pid /\ recs[m].serverPid = dpy[m].serverPid
    BY ReapedCounts DEF IInv, TypeInv
  <1>3. \A m \in ds \ displays : recs[m].pid = NoPid /\ recs[m].serverPid = NoPid
    <2>1. CASE AutoRescan /\ fileModified
      BY <1>1, <2>1, ScanRecord DEF ReapedList, ReapedRecs
    <2>2. CASE ~(AutoRescan /\ fileModified)
      BY <2>2 DEF ReapedList
    <2> QED
      BY <2>1, <2>2
  <1>4. Known(ds, recs, proc) /\ p # NoPid
    BY <1>2, <1>3, NamesAssumption DEF Known
  <1>5. CASE \E n \in ByPid(p) : SessionEnded(n, WithoutPid(recs[n]), proc[p].code, ds, recs, p)
    <2>1. PICK n \in ByPid(p) : SessionEnded(n, WithoutPid(recs[n]), proc[p].code, ds, recs, p)
      BY <1>5
    <2>2. n \in ds /\ recs[n].pid = p
      BY <1>1, <1>2 DEF ByPid
    <2>10. Untired(recs[n])
      BY <1>1, <2>2, ReapedType DEF IInv
    <2> DEFINE code == proc[p].code
    <2> HIDE DEF ds, recs, code
    <2>3. SessionEnded(n, WithoutPid(recs[n]), code, ds, recs, p)
      BY <2>1 DEF code
    <2>4. \A m \in Name \ {n} : dpy'[m] = recs[m]
      BY <1>1, <2>2, <2>3, <2>10, SessionEndedEffect
    <2>5. n \in displays' => dpy'[n].pid = NoPid
      BY <1>1, <2>2, <2>3, <2>10, SessionEndedEffect
    <2>6. Halted(n, ds, recs, p) \/ Restarted(n, code, ds, recs, p)
      BY <1>1, <2>2, <2>3, <2>10, SessionEndedEffect
    <2>7. /\ displays' \subseteq ds
          /\ n \in displays' => dpy'[n].serverPid = recs[n].serverPid
          /\ \E ps : proc' = Waited(Terminated(ps), p)
      BY <2>6 DEF Halted, Restarted
    <2>8. Takes({p})
      BY <1>1, <2>7, TakesTerminated
    <2>9. \A m \in displays' : /\ m \in ds
                               /\ {dpy'[m].pid, dpy'[m].serverPid} \ {NoPid}
                                     \subseteq {recs[m].pid, recs[m].serverPid} \ {p}
      <3> TAKE m \in displays'
      <3>1. m \in ds
        BY <2>7
      <3>2. CASE m = n
        BY <1>1, <1>4, <2>2, <2>5, <2>7, <3>2 DEF OwnPids
      <3>3. CASE m # n
        <4>1. dpy'[m] = recs[m]
          BY <1>1, <2>4, <3>1, <3>3
        <4>2. recs[m].pid # p /\ recs[m].serverPid # p
          BY <1>1, <1>4, <2>2, <3>1, <3>3 DEF OwnPids
        <4> QED
          BY <3>1, <4>1, <4>2
      <3> QED
        BY <3>2, <3>3
    <2> QED
      BY <1>1, <1>4, <2>8, <2>9, KnownKept
  <1>6. CASE /\ ByPid(p) = {}
             /\ \E n \in ByServerPid(p) : ServerEnded(n, WithoutServer(recs[n]), ds, recs, p)
    <2>1. PICK n \in ByServerPid(p) : ServerEnded(n, WithoutServer(recs[n]), ds, recs, p)
      BY <1>6
    <2>2. n \in ds /\ recs[n].serverPid = p /\ recs[n].pid # p
      BY <1>1, <1>2, <1>6 DEF ByServerPid, ByPid
    <2> HIDE DEF ds, recs
    <2>3. /\ \A m \in Name \ {n} : dpy'[m] = recs[m]
          /\ displays' \subseteq ds
          /\ n \in displays' => /\ dpy'[n].pid = recs[n].pid /\ dpy'[n].serverPid = NoPid
          /\ proc' = Waited(proc, p) \/ \E ps : proc' = Waited(Terminated(ps), p)
      <3>1. \A m \in Name \ {n} : dpy'[m] = recs[m]
        BY <1>1, <2>1, <2>2, ServerEndedEffect
      <3>2. Forgotten(n, ds, recs, p) \/ Outlived(n, ds, recs, p)
        BY <1>1, <2>1, <2>2, ServerEndedEffect
      <3> QED
        BY <3>1, <3>2 DEF Forgotten, Outlived
    <2>4. Takes({p})
      BY <1>1, <2>3, TakesTerminated
    <2>5. \A m \in displays' : /\ m \in ds
                               /\ {dpy'[m].pid, dpy'[m].serverPid} \ {NoPid}
                                     \subseteq {recs[m].pid, recs[m].serverPid} \ {p}
      <3> TAKE m \in displays'
      <3>1. m \in ds
        BY <2>3
      <3>2. CASE m = n
        BY <2>2, <2>3, <3>1, <3>2
      <3>3. CASE m # n
        <4>1. dpy'[m] = recs[m]
          BY <1>1, <2>3, <3>1, <3>3
        <4>2. recs[m].pid # p /\ recs[m].serverPid # p
          BY <1>1, <1>4, <2>2, <3>1, <3>3 DEF OwnPids
        <4> QED
          BY <3>1, <4>1, <4>2
      <3> QED
        BY <3>2, <3>3
    <2> QED
      BY <1>1, <1>4, <2>4, <2>5, KnownKept
  <1>7. CASE /\ ByPid(p) = {} /\ ByServerPid(p) = {}
             /\ displays' = ds /\ dpy' = recs /\ proc' = Waited(proc, p)
    <2>1. \A m \in displays : recs[m].pid # p /\ recs[m].serverPid # p
      BY <1>2, <1>7 DEF ByPid, ByServerPid
    <2>2. \A m \in displays' : /\ m \in ds
                               /\ {dpy'[m].pid, dpy'[m].serverPid} \ {NoPid}
                                     \subseteq {recs[m].pid, recs[m].serverPid} \ {p}
      BY <1>3, <1>7, <2>1
    <2>3. Takes({p})
      BY <1>1, <1>7, TakesTerminated
    <2> HIDE DEF ds, recs
    <2> QED
      BY <1>1, <1>4, <2>2, <2>3, KnownKept
  <1> QED
    BY <1>5, <1>6, <1>7 DEF Reap, ReapedList, ReapedRecs

\* Steps that remember nobody new, and wait for nobody remembered
LEMMA KnownSame ==
  ASSUME Types, Known(displays, dpy, proc), NEW gone, Takes(gone),
         \A n \in displays' : /\ n \in displays
                              /\ {dpy'[n].pid, dpy'[n].serverPid} \ {NoPid}
                                    \subseteq {dpy[n].pid, dpy[n].serverPid} \ gone
  PROVE  Known(displays', dpy', proc')
  BY KnownKept DEF Types

LEMMA KnownFork ==
  ASSUME IInv, Known(displays, dpy, proc), NEW p \in Pid, ForkServer(p) \/ ForkSession(p)
  PROVE  Known(displays', dpy', proc')
  <1>1. /\ cur \in displays /\ cur \in Name /\ displays \subseteq Name /\ displays' = displays
        /\ dpy \in [Name -> DisplayRecord]
    BY DEF ForkServer, ForkSession, IInv, TypeInv, Types, SafeInv, CurInv, Working
  <1>2. /\ \A n \in Name \ {cur} : dpy'[n] = dpy[n]
        /\ {dpy'[cur].pid, dpy'[cur].serverPid} \subseteq {dpy[cur].pid, dpy[cur].serverPid, p}
    <2>1. CASE ForkServer(p)
      BY <1>1, <2>1 DEF ForkServer, DisplayRecord
    <2>2. CASE ForkSession(p)
      BY <1>1, <2>2 DEF ForkSession, DisplayRecord
    <2> QED
      BY <2>1, <2>2
  <1>3. proc'[p].st = "live" /\ \A q \in Pid \ {p} : proc'[q] = proc[q]
    BY DEF ForkServer, ForkSession, Process, IInv, TypeInv, Types
  <1> SUFFICES ASSUME NEW n \in displays, NEW q \in {dpy'[n].pid, dpy'[n].serverPid} \ {NoPid}
               PROVE  proc'[q].st # "none"
    BY <1>1 DEF Known
  <1>4. q = p \/ (q \in {dpy[n].pid, dpy[n].serverPid} \ {NoPid})
    BY <1>1, <1>2
  <1>5. q \in Pid
    BY <1>1, <1>4 DEF DisplayRecord
  <1>6. q # p => proc[q].st # "none"
    BY <1>4 DEF Known
  <1> QED
    BY <1>3, <1>5, <1>6

\* What wait() takes in serverPause leaves its trace if it is remembered.
LEMMA KnownPause ==
  ASSUME Types, Known(displays, dpy, proc), NEW p \in Pid, PauseWait(p)
  PROVE  Known(displays', dpy', proc')
  <1>1. displays' = displays /\ dpy' = dpy
    BY DEF PauseWait, list
  <1>2. CASE Remembered(p)
    <2>1. Takes({})
      BY <1>2 DEF PauseWait, Takes, TakenProcess, NoProcess, Types
    <2> QED
      BY <1>1, <2>1, KnownSame
  <1>3. CASE ~Remembered(p)
    <2>1. Takes({p})
      BY <1>3 DEF PauseWait, Takes, Types
    <2>2. \A n \in displays : p \notin {dpy[n].pid, dpy[n].serverPid}
      BY <1>3 DEF Remembered
    <2> QED
      BY <1>1, <2>1, <2>2, KnownSame
  <1> QED
    BY <1>2, <1>3

LEMMA KnownManage ==
  ASSUME Types, Known(displays, dpy, proc), NEW n \in Remote, Manage(n)
  PROVE  Known(displays', dpy', proc')
  <1> DEFINE new == NewDisplay("foreign", "xdmcp")
  <1>1. new.pid = NoPid /\ new.serverPid = NoPid
    BY DEF NewDisplay
  <1>2. /\ displays' = displays \cup {n} /\ n \in Name /\ displays \subseteq Name
        /\ dpy'[n] = new /\ \A m \in Name \ {n} : dpy'[m] = dpy[m]
    BY DEF Manage, Types, Name
  <1>3. Takes({})
    BY TakesTerminated DEF Manage
  <1> HIDE DEF new
  <1> SUFFICES ASSUME NEW m \in displays', NEW q \in {dpy'[m].pid, dpy'[m].serverPid} \ {NoPid}
               PROVE  proc'[q].st # "none"
    BY DEF Known
  <1>4. m \in displays /\ dpy'[m] = dpy[m]
    BY <1>1, <1>2
  <1>5. q \in Pid /\ proc[q].st # "none"
    BY <1>2, <1>4 DEF Known, Types, DisplayRecord
  <1> QED
    BY <1>3, <1>5 DEF Takes

LEMMA KnownStop ==
  ASSUME Types, Known(displays, dpy, proc), CheckMissing \/ StopAll
  PROVE  Known(displays', dpy', proc')
  <1>1. PICK ns \in SUBSET Name : StopList(ns, displays, dpy) /\ proc' = Terminated(StopPids(ns, dpy))
    <2>1. {next} \in SUBSET Name \/ ~CheckMissing
      BY DEF CheckMissing, Types
    <2> QED
      BY <2>1 DEF CheckMissing, StopAll, Types
  <1>2. displays \in SUBSET Name /\ dpy \in [Name -> DisplayRecord]
    BY DEF Types
  <1>3. displays' \subseteq displays /\ \A n \in displays' \ ns : dpy'[n] = dpy[n]
    BY <1>1, <1>2, StopEffect
  <1>4. \A n \in displays' \cap ns : dpy'[n].pid = dpy[n].pid /\ dpy'[n].serverPid = dpy[n].serverPid
    BY <1>1, <1>2, StopEffect
  <1>5. Takes({})
    BY <1>1, <1>2, TakesTerminated
  <1>6. \A n \in displays' : /\ n \in displays
                             /\ {dpy'[n].pid, dpy'[n].serverPid} \ {NoPid}
                                   \subseteq {dpy[n].pid, dpy[n].serverPid} \ {}
    <2> TAKE n \in displays'
    <2>1. CASE n \in ns
      BY <1>3, <1>4, <2>1
    <2>2. CASE n \notin ns
      BY <1>3, <2>2
    <2> QED
      BY <2>1, <2>2
  <1> QED
    BY <1>5, <1>6, KnownSame

LEMMA KnownStep ==
  ASSUME IInv, CountInv, Known(displays, dpy, proc), [Next]_vars
  PROVE  Known(displays', dpy', proc')
  <1>0. Types
    BY DEF IInv, TypeInv
  <1>1. CASE UNCHANGED <<list, proc>>
    BY <1>1 DEF list, Known
  <1>2. CASE Startup \/ RescanServers
    <2>1. /\ displays' = ScannedList /\ proc' = proc
          /\ \E mark \in BOOLEAN : dpy' = ScannedRecs(mark)
      BY <1>2 DEF Startup, RescanServers
    <2> QED
      BY <1>0, <2>1, ScanKnown
  <1>3. CASE Exit \/ LoopOn \/ WaitForSomething \/ Select \/ Selected \/ OtherPacket \/ Sighup
             \/ WaitForChild \/ Resume \/ Reaped \/ ListDone
    BY <1>1, <1>3 DEF Exit, LoopOn, WaitForSomething, Select, Selected, OtherPacket, Sighup,
       WaitForChild, Resume, Reaped, ListDone, list
  <1>4. CASE ForkServerFails \/ PauseNoChild \/ PauseEnds \/ SleepEnds \/ ForkSessionFails
    BY <1>1, <1>4 DEF ForkServerFails, PauseNoChild, PauseEnds, SleepEnds, ForkSessionFails
  <1>5. ASSUME NEW n \in Name, EditServers(n) PROVE Known(displays', dpy', proc')
    BY <1>1, <1>5 DEF EditServers
  <1>6. ASSUME NEW n \in Remote, Manage(n) PROVE Known(displays', dpy', proc')
    BY <1>0, <1>6, KnownManage
  <1>7. ASSUME NEW p \in Pid, Reap(p) PROVE Known(displays', dpy', proc')
    BY <1>7, ReapKnown
  <1>8. ASSUME NEW p \in Pid, ForkServer(p) \/ ForkSession(p) PROVE Known(displays', dpy', proc')
    BY <1>8, KnownFork
  <1>9. ASSUME NEW p \in Pid, PauseWait(p) PROVE Known(displays', dpy', proc')
    BY <1>0, <1>9, KnownPause
  <1>10. ASSUME NEW p \in Pid, ChildExits(p) PROVE Known(displays', dpy', proc')
    <2>1. displays' = displays /\ dpy' = dpy /\ Takes({})
      BY <1>0, <1>10 DEF ChildExits, list, Takes, Types
    <2> QED
      BY <1>0, <2>1, KnownSame
  <1>11. CASE CheckNothing \/ CheckStart
    <2>1. /\ displays' = displays /\ proc' = proc /\ next \in Name
          /\ dpy' = dpy \/ dpy' = [dpy EXCEPT ![next].state = "old"]
      BY <1>0, <1>11 DEF CheckNothing, CheckStart, Types
    <2>2. \A n \in Name : dpy'[n].pid = dpy[n].pid /\ dpy'[n].serverPid = dpy[n].serverPid
      BY <1>0, <2>1 DEF Types, DisplayRecord
    <2> QED
      BY <1>0, <2>1, <2>2 DEF Known, Types
  <1>12. CASE CheckMissing \/ StopAll
    BY <1>0, <1>12, KnownStop
  <1>13. CASE ServerDisabled
    <2>1. proc' = proc /\ displays' \subseteq displays /\ \A n \in displays' : dpy'[n] = dpy[n]
      BY <1>0, <1>13 DEF ServerDisabled, RemoveDisplay, Types
    <2> QED
      BY <2>1 DEF Known
  <1>14. CASE UNCHANGED vars
    BY <1>1, <1>14 DEF vars
  <1> QED
    BY <1>2, <1>3, <1>4, <1>5, <1>6, <1>7, <1>8, <1>9, <1>10, <1>11, <1>12, <1>13, <1>14
    DEF Next, Master, Environment, Stopped

\* For any number of displays and every fault and signal of the model: a display
\* loses the child it waits for to the wait() in serverPause, and to nothing
\* else (dm.c:448-572, 676-708; server.c:206; xdmcp.c:1041-1109).
THEOREM LostToPauseOnly == Spec => []LostOnlyInPause
  <1>1. Init => Known(displays, dpy, proc)
    BY DEF Init, Known
  <1>2. IInv /\ CountInv /\ Known(displays, dpy, proc) /\ [Next]_vars => Known(displays, dpy, proc)'
    BY KnownStep
  <1>3. IInv /\ Known(displays, dpy, proc) => LostOnlyInPause
    <2> SUFFICES ASSUME IInv, Known(displays, dpy, proc), NEW n \in displays,
                        NEW p \in {dpy[n].pid, dpy[n].serverPid} \ {NoPid}
                 PROVE  Waitable(p) \/ Taken(p)
      BY DEF LostOnlyInPause
    <2>1. p \in Pid /\ proc[p] \in ProcessRecord
      BY DEF IInv, TypeInv, Types, DisplayRecord
    <2> QED
      BY <2>1 DEF Known, Waitable, Taken, Live, Dead, ProcessRecord
  <1> QED
    BY <1>1, <1>2, <1>3, IInvariant, CountInvariant, PTL DEF Spec

\* A transient display is listed only as long as it has a session that runs or
\* whose end can still be noticed, as far as fork does not fail; the exception
\* is a session that serverPause's wait() took for another display.  It holds
\* wherever SIGTERM arrives (dm.c:470, 487, 508, 530; server.c:206;
\* xdmcp.c:1032-1109).
THEOREM TransientSettled ==
  ASSUME "forkfail" \notin Env
  PROVE  Spec => []TransientHasSession
  <1>1. TransInv /\ LostOnlyInPause => TransientHasSession
    BY DEF TransInv, LostOnlyInPause, TransientHasSession, Settled, Managing, Starting, Working
  <1>2. Spec => []TransInv
    BY IInvariant, CountInvariant, TransInit, TransStep, PTL DEF Spec
  <1> QED
    BY <1>1, <1>2, LostToPauseOnly, PTL
=============================================================================
