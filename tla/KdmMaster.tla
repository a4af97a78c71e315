----------------------------- MODULE KdmMaster -----------------------------
(***************************************************************************)
(* The master process of kdm (src/kdm): dm.c's main loop, its signal       *)
(* handlers, the reaping of children, the start, stop and restart of       *)
(* displays (dm.c, dpylist.c, file.c), the start of an X server            *)
(* (server.c), and what manage() of xdmcp.c does to the list of displays.  *)
(*                                                                         *)
(* The master is one sequential process with a program counter pc.  Its    *)
(* environment is its children (one X server per local display, one        *)
(* session process per display), signals, the servers file and XDMCP       *)
(* terminals.  Signals arrive between any two steps of the master.         *)
(***************************************************************************)
EXTENDS Naturals

CONSTANTS
    Console,          \* displays the servers file may list as local or foreign
    Remote,           \* displays of terminals: foreign in the file, or XDMCP
    Pid,              \* process ids of children
    NoPid,            \* -1
    NoName,           \* the null display pointer
    StartAttempts,    \* DisplayManager.DISPLAY.startAttempts
    ServerAttempts,   \* DisplayManager.DISPLAY.serverAttempts
    TerminateServer,  \* DisplayManager.DISPLAY.terminateServer
    AutoRescan,       \* DisplayManager.autoRescan
    ExitCode,         \* the exit statuses of sessions that occur
    Env,              \* the environment actions that occur
    TermAt            \* the master's control points at which SIGTERM may arrive

Name == Console \cup Remote

SessionCodes == {"OBEYSESS", "REMANAGE", "UNMANAGE", "RESERVER",
                 "OPENFAILED", "SIGTERM", "other"}

EnvActions == {"hup", "edit", "xdmcp", "crash", "startup", "forkfail",
               "early"}

\* What the master is doing inside main(), by the call it is in.
Idle     == {"loop", "wait", "preselect", "select", "selected",
             "waitchild", "suspend", "reap"}
Working  == {"startServer", "pause", "sleep", "fork"}   \* inside StartDisplay
Starting == {"check"} \cup Working
Control  == {"init"} \cup Idle \cup Starting \cup {"exited", "wild"}

\* What SIGTERM may interrupt: StartDisplay, or the way to sigsuspend
Interrupted == {"StartDisplay", "waiting", "other"}

ASSUME NamesAssumption == /\ Console \cap Remote = {}
                          /\ NoName \notin Console \cup Remote
                          /\ NoPid \notin Pid
ASSUME ResourcesAssumption == /\ StartAttempts \in Nat \ {0}
                              /\ ServerAttempts \in Nat      \* 0: without end
                              /\ TerminateServer \in BOOLEAN
                              /\ AutoRescan \in BOOLEAN
ASSUME EnvAssumption == /\ ExitCode \subseteq SessionCodes
                        /\ Env \subseteq EnvActions
                        /\ TermAt \subseteq (Idle \cup Starting)

VARIABLES
    displays,      \* the names on dpylist.c's list
    dpy,           \* their struct display
    servers,       \* what the servers file says of each name
    fileModified,  \* its mtime differs from ServersModTime
    proc,          \* the children, by process id
    rescan,        \* Rescan
    childReady,    \* ChildReady
    handlers,      \* SIGHUP's and SIGCHLD's handlers are installed
    sockets,       \* AnyWellKnownSockets()
    shutdown,      \* history: what SIGTERM interrupted, or "no"
    pc,            \* where the master is
    cur,           \* the display StartDisplays is at
    next, todo,    \* ForEachDisplay's saved next pointer, and the rest
    caller,        \* who called StartDisplays, or StartDisplay
    attempt,       \* StartServer's i
    failures       \* history: OPENFAILED exits of a display's sessions in a row

list    == <<displays, dpy>>
file    == <<servers, fileModified>>
flags   == <<rescan, childReady, handlers, sockets, shutdown>>
iterate == <<cur, next, todo, caller>>
counts  == <<attempt, failures>>
vars    == <<list, file, proc, flags, pc, iterate, attempt, failures>>
-----------------------------------------------------------------------------
(* Records *)

NewDisplay(location, origin) ==
    [location |-> location, origin |-> origin, status |-> "notRunning",
     state |-> "new", pid |-> NoPid, serverPid |-> NoPid, startTries |-> 0]

NoDisplay == NewDisplay("foreign", "xdmcp")   \* a name that is not listed

Process(kind) == [st |-> "live", kind |-> kind, term |-> FALSE, code |-> "other"]
NoProcess     == [st |-> "none", kind |-> "session", term |-> FALSE, code |-> "other"]
TakenProcess  == [NoProcess EXCEPT !.st = "taken"]

Live(p) == p \in Pid /\ proc[p].st = "live"
Dead(p) == p \in Pid /\ proc[p].st = "dead"   \* a zombie, not yet waited for

\* The kernel has no child p any more.  History: it is "taken" when a wait() of
\* serverPause has taken the exit status of a child that a display remembers.
Gone(p) == proc[p].st \in {"none", "taken"}

Remembered(p) == \E n \in displays : dpy[n].pid = p \/ dpy[n].serverPid = p

\* A process id is not used again while a display still remembers it: the
\* kernel hands them out in turn.
FreshPids == {p \in Pid : Gone(p) /\ ~Remembered(p)}

\* Running out of process ids is a failure of fork.
ForkMayFail == "forkfail" \in Env \/ FreshPids = {}
CanFork     == "forkfail" \in Env \/ FreshPids # {}

ByPid(p)       == {n \in displays : dpy[n].pid = p}
ByServerPid(p) == {n \in displays : dpy[n].serverPid = p}

\* kill (pid, SIGTERM) for each of ps: no effect on who is no longer there.
Terminated(ps) ==
    [p \in Pid |-> IF p \in ps /\ Live(p) THEN [proc[p] EXCEPT !.term = TRUE] ELSE proc[p]]

Waited(procs, p) == [procs EXCEPT ![p] = NoProcess]
-----------------------------------------------------------------------------
(* Displays are stopped, restarted and forgotten *)

\* RemoveDisplay (n), in the list ds with records recs
RemoveDisplay(n, ds, recs) ==
    /\ displays' = ds \ {n}
    /\ dpy' = [recs EXCEPT ![n] = NoDisplay]

\* Mutant: a stopped display is not marked.
StopListRace(ns, ds, recs) ==
    LET gone == {n \in ns : recs[n].serverPid = NoPid}
    IN  /\ displays' = ds \ gone
        /\ dpy' = [n \in Name |-> IF n \in gone THEN NoDisplay ELSE recs[n]]

\* StopDisplay of all of ns, without killing anything yet
StopList(ns, ds, recs) ==
    LET gone == {n \in ns : recs[n].serverPid = NoPid}
    IN  /\ displays' = ds \ gone
        /\ dpy' = [n \in Name |-> IF n \in gone THEN NoDisplay
                                  ELSE IF n \in ns THEN [recs[n] EXCEPT !.status = "zombie"]
                                  ELSE recs[n]]

\* Mutant: only the servers are told to end.
StopPidsServers(ns, recs) == {recs[n].serverPid : n \in ns}

\* the processes StopDisplay of ns sends SIGTERM to
StopPids(ns, recs) == {recs[n].pid : n \in ns} \cup {recs[n].serverPid : n \in ns}

\* StopDisplay (n), n's record being r, once its session p has been waited for
StopDisplay(n, r, ds, recs, p) ==
    LET new == [recs EXCEPT ![n] = r]
    IN  /\ StopList({n}, ds, new)
        /\ proc' = Waited(Terminated(StopPids({n}, new)), p)

\* Mutant: no test for a server.
RestartDisplayAlways(n, r, force, ds, recs, p) ==
    LET reserve == force \/ TerminateServer
    IN  /\ displays' = ds
        /\ dpy' = [recs EXCEPT ![n] = [r EXCEPT !.status = IF reserve THEN "phoenix"
                                                           ELSE "notRunning"]]
        /\ proc' = Waited(Terminated(IF reserve THEN {r.serverPid} ELSE {}), p)

\* RestartDisplay (n, force), n's record being r, and the children procs
RestartDisplay(n, r, force, ds, recs, p) ==
    LET reserve == r.serverPid # NoPid /\ (force \/ TerminateServer)
    IN  /\ displays' = ds
        /\ dpy' = [recs EXCEPT ![n] = [r EXCEPT !.status = IF reserve THEN "phoenix"
                                                           ELSE "notRunning"]]
        /\ proc' = Waited(Terminated(IF reserve THEN {r.serverPid} ELSE {}), p)
-----------------------------------------------------------------------------
(* The servers file *)

\* Mutants: a display that is found again is revived; one that is listed is
\* not found.
ScannedRecsRevive(mark) ==
    [n \in Name |->
       IF servers[n] = "absent"
       THEN IF mark /\ n \in displays THEN [dpy[n] EXCEPT !.state = "missing"] ELSE dpy[n]
       ELSE IF n \in displays
            THEN [dpy[n] EXCEPT !.state = "old", !.location = servers[n], !.origin = "file",
                                !.status = IF @ = "zombie" THEN "notRunning" ELSE @]
            ELSE NewDisplay(servers[n], "file")]
ScannedRecsAnew(mark) ==
    [n \in Name |->
       IF servers[n] = "absent"
       THEN IF mark /\ n \in displays THEN [dpy[n] EXCEPT !.state = "missing"] ELSE dpy[n]
       ELSE NewDisplay(servers[n], "file")]

\* ForEachDisplay (MarkDisplay) and ScanServers(): every listed display the
\* file does not name is missing, whatever its origin; a named one is old,
\* and takes the file's type; the others are new.
ScannedList == displays \cup {n \in Name : servers[n] # "absent"}
ScannedRecs(mark) ==
    [n \in Name |->
       IF servers[n] = "absent"
       THEN IF mark /\ n \in displays THEN [dpy[n] EXCEPT !.state = "missing"] ELSE dpy[n]
       ELSE IF n \in displays
            THEN [dpy[n] EXCEPT !.state = "old", !.location = servers[n], !.origin = "file"]
            ELSE NewDisplay(servers[n], "file")]

\* StartDisplays(): ForEachDisplay (CheckDisplayStatus) over the list ds
StartDisplays(ds, who) ==
    /\ pc' = "check" /\ caller' = who /\ cur' = NoName
    /\ \/ ds = {} /\ next' = NoName /\ todo' = {}
       \/ next' \in ds /\ todo' = ds \ {next'}

Startup ==
    /\ pc = "init"
    /\ displays' = ScannedList /\ dpy' = ScannedRecs(FALSE)
    /\ StartDisplays(displays', "main")
    /\ UNCHANGED <<file, proc, flags, counts>>
-----------------------------------------------------------------------------
(* main's loop and WaitForSomething *)

Exit ==
    /\ pc = "loop" /\ ~sockets /\ displays = {}
    /\ pc' = "exited"
    /\ UNCHANGED <<list, file, proc, flags, iterate, counts>>

LoopOn ==
    /\ pc = "loop" /\ (sockets \/ displays # {}) /\ ~rescan
    /\ pc' = "wait"
    /\ UNCHANGED <<list, file, proc, flags, iterate, counts>>

\* RescanServers(): it does not set ServersModTime
RescanServers ==
    /\ pc = "loop" /\ (sockets \/ displays # {}) /\ rescan
    /\ displays' = ScannedList /\ dpy' = ScannedRecs(TRUE)
    /\ StartDisplays(displays', "rescan")
    /\ UNCHANGED <<file, proc, flags, counts>>

\* The test of ChildReady, some time before the call of select
WaitForSomething ==
    /\ pc = "wait"
    /\ pc' = IF sockets /\ ~childReady THEN "preselect" ELSE "waitchild"
    /\ UNCHANGED <<list, file, proc, flags, iterate, counts>>

\* On a socket StopAll has closed since, select fails at once.
Select ==
    /\ pc = "preselect"
    /\ pc' = IF sockets THEN "select" ELSE "selected"
    /\ UNCHANGED <<list, file, proc, flags, iterate, counts>>

Selected ==
    /\ pc = "selected"
    /\ pc' = IF childReady THEN "waitchild" ELSE "loop"
    /\ UNCHANGED <<list, file, proc, flags, iterate, counts>>

\* A MANAGE that manage() accepts, from the terminal n: the display of that
\* name is stopped, a new one replaces it, and StartDisplay is called.
\* Precondition of the model: no display of a terminal has a server of ours.
\* CanFork bounds the sessions that terminals leave behind.
Manage(n) ==
    /\ pc = "select" /\ sockets /\ "xdmcp" \in Env /\ CanFork
    /\ displays' = displays \cup {n}
    /\ dpy' = [dpy EXCEPT ![n] = NewDisplay("foreign", "xdmcp")]
    /\ proc' = Terminated(IF n \in displays THEN {dpy[n].pid} ELSE {})
    /\ pc' = "fork" /\ caller' = "manage" /\ cur' = n /\ next' = NoName /\ todo' = {}
    /\ UNCHANGED <<file, flags, counts>>

\* select returns for any other packet
OtherPacket ==
    /\ pc = "select" /\ sockets /\ "xdmcp" \in Env
    /\ pc' = "selected"
    /\ UNCHANGED <<list, file, proc, flags, iterate, counts>>
-----------------------------------------------------------------------------
(* WaitForChild *)

\* With SIGCHLD and SIGHUP blocked: go on at once, or sigsuspend
WaitForChild ==
    /\ pc = "waitchild"
    /\ IF childReady \/ rescan THEN pc' = "reap" /\ childReady' = FALSE
                               ELSE pc' = "suspend" /\ UNCHANGED childReady
    /\ UNCHANGED <<list, file, proc, rescan, handlers, sockets, shutdown, iterate, counts>>

Resume ==
    /\ pc = "suspend" /\ (childReady \/ rescan)
    /\ pc' = "reap" /\ childReady' = FALSE
    /\ UNCHANGED <<list, file, proc, rescan, handlers, sockets, shutdown, iterate, counts>>

\* Mutants: transient displays are started again; one try more is allowed;
\* the tries are not counted from the last good session on.
OverStopped(r) == r.status = "zombie"
LastTryLate(r) == r.startTries >= StartAttempts
OpenedKeeps(r) == r

\* A session of a transient display, or of one that is being stopped, is not
\* started again.
Over(r) == r.origin = "xdmcp" \/ r.status = "zombie"

LastTry(r)  == r.startTries + 1 >= StartAttempts
Failed(r)   == [r EXCEPT !.startTries = @ + 1]
Opened(r)   == [r EXCEPT !.startTries = 0]

\* The session process p of display n, with record r, ended with status code.
\* The case analysis of WaitForChild, after d->pid = -1.
SessionEnded(n, r, code, ds, recs, p) ==
    \/ /\ code \in {"UNMANAGE", "other"}
       /\ StopDisplay(n, r, ds, recs, p)
    \/ /\ code = "OPENFAILED"    \* the last try is counted before it stops the display
       /\ IF Over(r) THEN StopDisplay(n, r, ds, recs, p)
          ELSE IF LastTry(r) THEN StopDisplay(n, Failed(r), ds, recs, p)
          ELSE RestartDisplay(n, Failed(r), TRUE, ds, recs, p)
    \/ /\ code \in {"OBEYSESS", "REMANAGE"}
       /\ IF Over(r) THEN StopDisplay(n, Opened(r), ds, recs, p)
          ELSE RestartDisplay(n, Opened(r), FALSE, ds, recs, p)
    \/ /\ code \in {"RESERVER", "SIGTERM"}
       /\ IF Over(r) THEN StopDisplay(n, Opened(r), ds, recs, p)
          ELSE RestartDisplay(n, Opened(r), TRUE, ds, recs, p)

\* Mutants: a running display is taken for a phoenix; a phoenix stays one.
AfterServerAny(status)  == IF status \in {"phoenix", "running"} THEN "notRunning" ELSE status
AfterServerNone(status) == status

AfterServer(status) == IF status = "phoenix" THEN "notRunning" ELSE status

\* The server process p of display n, with record r, ended.
ServerEnded(n, r, ds, recs, p) ==
    \/ /\ r.status = "zombie"
       /\ RemoveDisplay(n, ds, recs)
       /\ proc' = Waited(proc, p)
    \/ /\ r.status # "zombie"
       /\ displays' = ds
       /\ dpy' = [recs EXCEPT ![n] = [r EXCEPT !.status = AfterServer(r.status)]]
       /\ proc' = Waited(Terminated(IF r.status = "running" THEN {r.pid} ELSE {}), p)

WithoutPid(r) == [r EXCEPT !.pid = NoPid]

\* Mutant: d->serverPid = -1 is forgotten.
WithoutServerKeeps(r) == r
WithoutServer(r)      == [r EXCEPT !.serverPid = NoPid]

\* One turn of the waitpid loop, RescanIfMod included.
Reap(p) ==
    LET again == AutoRescan /\ fileModified
        ds    == IF again THEN ScannedList ELSE displays
        recs  == IF again THEN ScannedRecs(TRUE) ELSE dpy
    IN  /\ pc = "reap" /\ Dead(p)
        /\ fileModified' = (fileModified /\ ~again)
        /\ \/ \E n \in ByPid(p) :
                 SessionEnded(n, WithoutPid(recs[n]), proc[p].code, ds, recs, p)
           \/ /\ ByPid(p) = {}
              /\ \E n \in ByServerPid(p) :
                    ServerEnded(n, WithoutServer(recs[n]), ds, recs, p)
           \/ /\ ByPid(p) = {} /\ ByServerPid(p) = {}    \* unknown child
              /\ displays' = ds /\ dpy' = recs
              /\ proc' = Waited(proc, p)
        /\ failures' = [n \in Name |-> IF n \notin ByPid(p) THEN failures[n]
                                    ELSE IF n \notin displays' \/ proc[p].code # "OPENFAILED" THEN 0
                                    ELSE IF failures[n] < StartAttempts THEN failures[n] + 1
                                    ELSE StartAttempts]
        /\ UNCHANGED <<servers, flags, pc, iterate, attempt>>

\* Mutant: waitpid is called once, not in a loop.
ReapedOnce ==
    /\ pc = "reap"
    /\ StartDisplays(displays, "wait")
    /\ UNCHANGED <<list, file, proc, flags, counts>>

Reaped ==
    /\ pc = "reap" /\ \A p \in Pid : ~Dead(p)
    /\ StartDisplays(displays, "wait")
    /\ UNCHANGED <<list, file, proc, flags, counts>>
-----------------------------------------------------------------------------
(* StartDisplays, StartDisplay and StartServer *)

Advance ==
    /\ cur' = next
    /\ \/ todo = {} /\ next' = NoName /\ todo' = {}
       \/ next' \in todo /\ todo' = todo \ {next'}
    /\ UNCHANGED caller

\* CheckDisplayStatus: nothing to do for the display
CheckNothing ==
    /\ pc = "check" /\ next # NoName
    /\ \/ dpy[next].origin = "xdmcp" /\ UNCHANGED dpy
       \/ /\ dpy[next].origin = "file" /\ dpy[next].state # "missing"
          /\ dpy[next].status # "notRunning"
          /\ dpy' = [dpy EXCEPT ![next].state = "old"]
    /\ Advance
    /\ UNCHANGED <<displays, file, proc, flags, pc, counts>>

CheckMissing ==
    /\ pc = "check" /\ next # NoName
    /\ dpy[next].origin = "file" /\ dpy[next].state = "missing"
    /\ StopList({next}, displays, dpy)
    /\ proc' = Terminated(StopPids({next}, dpy))
    /\ Advance
    /\ UNCHANGED <<file, flags, pc, counts>>

\* StartDisplay, as far as the call of StartServer or of fork
CheckStart ==
    /\ pc = "check" /\ next # NoName
    /\ dpy[next].origin = "file" /\ dpy[next].state # "missing"
    /\ dpy[next].status = "notRunning"
    /\ dpy' = [dpy EXCEPT ![next].state = "old"]
    /\ Advance
    /\ pc' = IF dpy[next].location = "local" /\ dpy[next].serverPid = NoPid
             THEN "startServer" ELSE "fork"
    /\ attempt' = 0
    /\ UNCHANGED <<displays, file, proc, flags, failures>>

MayRetry == ServerAttempts = 0 \/ attempt < ServerAttempts

\* StartServerOnce: fork
ForkServer(p) ==
    /\ pc = "startServer" /\ MayRetry
    /\ p \in FreshPids
    /\ proc' = [proc EXCEPT ![p] = Process("server")]
    /\ dpy' = [dpy EXCEPT ![cur].serverPid = p]
    /\ pc' = "pause"
    /\ UNCHANGED <<displays, file, flags, iterate, counts>>

ForkServerFails ==
    /\ pc = "startServer" /\ MayRetry
    /\ ForkMayFail
    /\ pc' = "sleep"
    /\ UNCHANGED <<list, file, proc, flags, iterate, counts>>

\* serverPause: wait() returns p.  The test that p is the server also wants
\* errno = ECHILD, which is what an earlier call happened to leave there.
PauseWait(p) ==
    /\ pc = "pause" /\ Dead(p)
    /\ proc' = [proc EXCEPT ![p] = IF Remembered(p) THEN TakenProcess ELSE NoProcess]
    /\ pc' \in IF dpy[cur].serverPid = p THEN {"pause", "sleep"} ELSE {"pause"}
    /\ UNCHANGED <<list, file, flags, iterate, counts>>

\* serverPause: there is no child left to wait for
PauseNoChild ==
    /\ pc = "pause" /\ \A p \in Pid : Gone(p)
    /\ pc' = "sleep"
    /\ UNCHANGED <<list, file, proc, flags, iterate, counts>>

\* serverPause: SIGALRM after openDelay seconds, or SIGUSR1 from a server
PauseEnds ==
    /\ pc = "pause"
    /\ pc' = "fork"
    /\ UNCHANGED <<list, file, proc, flags, iterate, counts>>

\* StartServer: sleep (openDelay), i++
SleepEnds ==
    /\ pc = "sleep"
    /\ attempt' = IF ServerAttempts = 0 THEN 0 ELSE attempt + 1
    /\ pc' = "startServer"
    /\ UNCHANGED <<list, file, proc, flags, iterate, failures>>

\* StartServer has failed serverAttempts times
ServerDisabled ==
    /\ pc = "startServer" /\ ~MayRetry
    /\ RemoveDisplay(cur, displays, dpy)
    /\ pc' = "check"
    /\ UNCHANGED <<file, proc, flags, iterate, counts>>

\* StartDisplay: fork of the session process
ForkSession(p) ==
    /\ pc = "fork" /\ p \in FreshPids
    /\ proc' = [proc EXCEPT ![p] = Process("session")]
    /\ dpy' = [dpy EXCEPT ![cur] = [@ EXCEPT !.pid = p, !.status = "running"]]
    /\ pc' = "check"
    /\ UNCHANGED <<displays, file, flags, iterate, counts>>

ForkSessionFails ==
    /\ pc = "fork"
    /\ ForkMayFail
    /\ pc' = "check"
    /\ UNCHANGED <<list, file, proc, flags, iterate, counts>>

\* The end of ForEachDisplay, and the return to the caller
ListDone ==
    /\ pc = "check" /\ next = NoName
    /\ pc' = CASE caller = "rescan" -> "wait"
               [] caller = "manage" -> "selected"
               [] OTHER -> "loop"
    /\ rescan' = (rescan /\ caller # "rescan")
    /\ handlers' = (handlers \/ caller = "main")
    /\ UNCHANGED <<list, file, proc, childReady, sockets, shutdown, iterate, counts>>
-----------------------------------------------------------------------------
(* The environment *)

Managing == pc \notin {"exited", "wild"}

\* StopAll, the handler of SIGTERM.  It frees displays the interrupted code
\* may be using: what follows then is undefined ("wild").
StopAll ==
    /\ pc \in TermAt /\ shutdown = "no"
    /\ shutdown' = CASE pc \in Working -> "StartDisplay"
                     [] pc \in {"wait", "waitchild"} -> "waiting"
                     [] OTHER -> "other"
    /\ sockets' = FALSE
    /\ StopList(displays, displays, dpy)
    /\ proc' = Terminated(StopPids(displays, dpy))
    /\ todo' = todo \cap displays'
    /\ pc' = CASE pc = "select" -> "selected"
               [] pc = "suspend" -> "reap"
               [] pc = "check" /\ next \notin displays' \cup {NoName} -> "wild"
               [] pc \in Working /\ ~({cur, next} \subseteq displays' \cup {NoName}) -> "wild"
               [] OTHER -> pc
    /\ childReady' = (childReady /\ pc # "suspend")
    /\ UNCHANGED <<file, rescan, handlers, cur, next, caller, counts>>

\* SIGHUP: RescanNotify
Sighup ==
    /\ Managing /\ handlers /\ "hup" \in Env
    /\ rescan' = TRUE
    /\ pc' = IF pc = "select" THEN "selected" ELSE pc
    /\ UNCHANGED <<list, servers, fileModified, proc, childReady, handlers, sockets, shutdown, iterate, counts>>

\* A child ends; SIGCHLD runs ChildNotify once it is installed.  A server
\* that nobody told to end may crash, or fail during serverPause already.
ChildExits(p) ==
    /\ Managing /\ Live(p) /\ (handlers \/ "early" \in Env)
    /\ proc[p].kind = "server" =>
          \/ proc[p].term
          \/ IF pc = "pause" /\ dpy[cur].serverPid = p THEN "startup" \in Env ELSE "crash" \in Env
    /\ \E c \in IF proc[p].kind = "session" THEN ExitCode ELSE {"other"} :
          proc' = [proc EXCEPT ![p] = [st |-> "dead", kind |-> proc[p].kind,
                                       term |-> proc[p].term, code |-> c]]
    /\ childReady' = (childReady \/ handlers)
    /\ pc' = IF pc = "select" /\ handlers THEN "selected" ELSE pc
    /\ UNCHANGED <<list, file, rescan, handlers, sockets, shutdown, iterate, counts>>

\* Somebody edits the servers file
EditServers(n) ==
    /\ Managing /\ pc # "init" /\ "edit" \in Env
    /\ \E t \in {"absent", "foreign"} \cup (IF n \in Console THEN {"local"} ELSE {}) :
          t # servers[n] /\ servers' = [servers EXCEPT ![n] = t]
    /\ fileModified' = TRUE
    /\ UNCHANGED <<list, proc, flags, pc, iterate, counts>>
-----------------------------------------------------------------------------
Init ==
    /\ displays = {} /\ dpy = [n \in Name |-> NoDisplay]
    /\ servers \in [Name -> {"absent", "local", "foreign"}]
    /\ \A n \in Remote : servers[n] # "local"
    /\ fileModified = FALSE
    /\ proc = [p \in Pid |-> NoProcess]
    /\ rescan = FALSE /\ childReady = FALSE /\ handlers = FALSE /\ shutdown = "no"
    /\ sockets = ("xdmcp" \in Env)
    /\ pc = "init" /\ cur = NoName /\ next = NoName /\ todo = {} /\ caller = "main"
    /\ attempt = 0 /\ failures = [n \in Name |-> 0]

Master ==
    \/ Startup \/ Exit \/ LoopOn \/ RescanServers
    \/ WaitForSomething \/ Select \/ Selected
    \/ WaitForChild \/ Resume \/ Reaped
    \/ \E p \in Pid : Reap(p) \/ ForkServer(p) \/ PauseWait(p) \/ ForkSession(p)
    \/ CheckNothing \/ CheckMissing \/ CheckStart \/ ListDone
    \/ ForkServerFails \/ PauseNoChild \/ PauseEnds \/ SleepEnds \/ ServerDisabled
    \/ ForkSessionFails

Environment ==
    \/ StopAll \/ Sighup \/ OtherPacket
    \/ \E n \in Remote : Manage(n)
    \/ \E n \in Name : EditServers(n)
    \/ \E p \in Pid : ChildExits(p)

\* kdm has exited, or its behaviour is no longer defined
Stopped == ~Managing /\ UNCHANGED vars

Next == Master \/ Environment \/ Stopped

Spec == Init /\ [][Next]_vars
-----------------------------------------------------------------------------
(* Types *)

DisplayRecord ==
    [location : {"local", "foreign"}, origin : {"file", "xdmcp"},
     status : {"running", "notRunning", "zombie", "phoenix"},
     state : {"new", "old", "missing"}, pid : Pid \cup {NoPid},
     serverPid : Pid \cup {NoPid}, startTries : 0 .. StartAttempts]

ProcessRecord ==
    [st : {"none", "live", "dead", "taken"}, kind : {"server", "session"},
     term : BOOLEAN, code : SessionCodes]

Types ==
    /\ displays \subseteq Name
    /\ dpy \in [Name -> DisplayRecord]
    /\ servers \in [Name -> {"absent", "local", "foreign"}]
    /\ fileModified \in BOOLEAN
    /\ proc \in [Pid -> ProcessRecord]
    /\ rescan \in BOOLEAN /\ childReady \in BOOLEAN /\ handlers \in BOOLEAN
    /\ sockets \in BOOLEAN /\ shutdown \in {"no"} \cup Interrupted
    /\ pc \in Control
    /\ cur \in Name \cup {NoName} /\ next \in Name \cup {NoName} /\ todo \subseteq Name
    /\ caller \in {"main", "rescan", "wait", "manage"}
    /\ attempt \in 0 .. ServerAttempts
    /\ failures \in [Name -> 0 .. StartAttempts]

\* startTries reaches startAttempts in the record of a display that the last
\* try has stopped, and in no other.
TriesOK == \A n \in Name : dpy[n].status # "zombie" => dpy[n].startTries < StartAttempts

\* Every variable has its type; startTries reaches startAttempts only in a
\* record that is being stopped, and i of StartServer never passes
\* serverAttempts (dm.c:496, server.c:143).
TypeOK == Types /\ TriesOK
-----------------------------------------------------------------------------
(* Safety *)

\* Every X server that is alive is the serverPid of a listed display, so that
\* its death will be seen: no retry of StartServer, removal of a display or
\* MANAGE of a terminal forgets a server (dm.c:696-708, server.c:136-151).
NoOrphanServer ==
    \A p \in Pid : Live(p) /\ proc[p].kind = "server" => ByServerPid(p) # {}

\* A session nobody told to end is the pid of a listed display: the master
\* never loses track of a login it should restart after (dm.c:467-523, 676).
NoOrphanSession ==
    Managing => \A p \in Pid :
        Live(p) /\ proc[p].kind = "session" /\ ~proc[p].term => ByPid(p) # {}

\* The status of a display agrees with its processes: a second session is
\* never forked over one the master still waits for, and a running display
\* has a session to wait for (dm.c:574-592, 714-728).
StatusMatchesPid ==
    \A n \in displays : /\ dpy[n].status \in {"notRunning", "phoenix"} => dpy[n].pid = NoPid
                        /\ dpy[n].status = "running" => dpy[n].pid # NoPid

\* A display that waits for its server's end has a server, and the server
\* has been told to end: it is not waited for in vain (dm.c:696-728).
WaitedServerTold ==
    \A n \in displays : dpy[n].status \in {"zombie", "phoenix"} =>
        /\ dpy[n].serverPid # NoPid
        /\ Live(dpy[n].serverPid) => proc[dpy[n].serverPid].term

\* No session runs, or is about to start, on a server that the master has
\* told to end (dm.c:542-546: a phoenix becomes notRunning only afterwards).
NoSessionOnDoomedServer ==
    \A n \in displays : dpy[n].status \in {"running", "notRunning"} =>
        (Live(dpy[n].serverPid) => ~proc[dpy[n].serverPid].term)

\* What a display waits for has not been waited for by somebody else: every
\* remembered process id is that of a child (dm.c:467, server.c:202-218).
Waitable(p) == Live(p) \/ Dead(p)
NoLostChild ==
    Managing /\ pc \notin Starting =>
        \A n \in displays : \A p \in {dpy[n].pid, dpy[n].serverPid} \ {NoPid} : Waitable(p)

\* A display loses a child it waits for in one place only: the wait() in
\* serverPause, of this display or another (server.c:206).  Whatever else reaps,
\* stops, restarts, reads again or replaces displays keeps every remembered
\* process id that of a child (dm.c:448-572, 676-708; xdmcp.c:1041-1109).
Taken(p) == p \in Pid /\ proc[p].st = "taken"
LostOnlyInPause ==
    \A n \in displays : \A p \in {dpy[n].pid, dpy[n].serverPid} \ {NoPid} :
        Waitable(p) \/ Taken(p)

\* A transient display is listed only as long as it has a session that runs,
\* or whose end the master can still notice; the exception is a session whose
\* exit serverPause's wait() took for another display, which is listed until
\* the terminal asks again (dm.c:470, 487, 508, 530; server.c:206;
\* xdmcp.c:1032-1109).
TransientHasSession ==
    Managing /\ pc \notin Starting =>
        \A n \in displays : dpy[n].origin = "xdmcp" =>
            Waitable(dpy[n].pid) \/ Taken(dpy[n].pid)

\* A display the file lists is given up only for a reason the manual names:
\* its session asked for that, startAttempts sessions in a row could not open
\* it, or its server could not be started (dm.c:471-523, 646-651; xdm.man:418-420).
GivenUp(n) == n \in displays /\ dpy[n].status # "zombie"
              /\ (n \notin displays' \/ dpy'[n].status = "zombie")
Cause(n) ==
    \/ pc = "startServer" /\ ~MayRetry
    \/ \E p \in Pid : /\ dpy[n].pid = p
                      /\ \/ proc[p].code \in {"UNMANAGE", "other"}
                         \/ proc[p].code = "OPENFAILED" /\ failures[n] + 1 >= StartAttempts
DisabledOnlyForCause ==
    [][\A n \in Name :
          GivenUp(n) /\ dpy[n].origin = "file" /\ dpy'[n].state # "missing" /\ shutdown' = "no"
             => dpy[n].state = "missing" \/ Cause(n)]_vars
-----------------------------------------------------------------------------
(* Liveness *)

\* The master keeps running, and a process told to end does so: xdm's
\* session handles SIGTERM (session.c:466-487), and an X server exits on it.
Fairness == /\ WF_vars(Master)
            /\ \A p \in Pid : WF_vars(proc[p].term /\ ChildExits(p))

FairSpec == Spec /\ Fairness

\* SIGTERM is only half obeyed in two cases, besides "wild": StopAll ran inside
\* StartDisplay, which went on to start what StopAll had marked (dm.c:383); or
\* main sleeps in sigsuspend and nobody is left to wake it, because it was on
\* its way there and StopAll left no display (dm.c:438), or because the end of
\* a child went by unnoticed (dm.c:198, server.c:206).
StartedAfterTerm == shutdown = "StartDisplay" /\ \E n \in displays : dpy[n].status # "zombie"
AsleepForEver ==
    /\ pc = "suspend" /\ ~childReady /\ \A p \in Pid : ~Live(p)
    /\ \/ shutdown = "waiting" /\ displays = {}
       \/ \E p \in Pid : Remembered(p) /\ (Dead(p) \/ Taken(p))

\* "catch a SIGTERM, kill all displays and exit" (dm.c:368-370), wherever in
\* main the signal arrives, but for these.
TermExits == shutdown # "no" ~> \/ pc \in {"exited", "wild"}
                                \/ StartedAfterTerm \/ AsleepForEver

\* "notice that a child has died and may need another sub-daemon started"
\* (dm.c:391-394): every child that ends once the handlers are installed is
\* waited for, and one that ended before as soon as another signal is noticed.
\* Nothing is claimed once kdm has exited or is undefined.
Reapable(p) == Dead(p) ~> ~Dead(p) \/ ~Managing
DeadChildReaped ==
    \A p \in Pid : /\ [](handlers /\ Live(p) => Reapable(p))
                   /\ Dead(p) /\ childReady ~> ~Dead(p) \/ ~Managing
-----------------------------------------------------------------------------
(* What the administrator sees of all this *)

Phase == [n \in Name |-> IF n \notin displays THEN "off"
                         ELSE CASE dpy[n].status = "running" -> "session"
                                [] dpy[n].status = "zombie"  -> "ending"
                                [] OTHER                     -> "idle"]

Life == INSTANCE DisplayLife WITH phase <- Phase

\* The master keeps what DisplayLife promises: whatever ends, fails or is read
\* again, a session starts on an idle display only, and one that is being
\* given up is never revived (dm.c:448-598, 640-682; file.c:205-215).
LifeSpec == Life!Spec

\* And a display that has no session gets one, or is removed: it is never left
\* between sessions, wherever in main SIGTERM arrives, unless the master sleeps
\* for ever, or waits for a server whose end serverPause took without noticing
\* (dm.c:542-546, 574-592, 714-728; server.c:215).
DisplaySettles ==
    \A n \in Name : Phase[n] \in {"idle", "ending"}
                       ~> Phase[n] \in {"off", "session"} \/ AsleepForEver \/ Taken(dpy[n].serverPid)
=============================================================================
