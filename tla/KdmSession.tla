----------------------------- MODULE KdmSession -----------------------------
(***************************************************************************)
(* The process kdm forks for the session of one display: it opens the      *)
(* display, greets, starts the user's client, pings the server while the   *)
(* client runs, and ends with the exit status the master acts on           *)
(* (src/kdm/session.c, with server.c, reset.c and kgreeter.cpp).           *)
(*                                                                         *)
(* Its signal handlers leave by longjmp whatever it is doing: SIGTERM,     *)
(* which the master sends, for the abort of the session; SIGALRM for what  *)
(* the alarm was set for, and an alarm that was not cancelled jumps back   *)
(* to where it was set.  A jump to a function that has been left is        *)
(* undefined: the process is wild, and nothing is said of it from there on.*)
(***************************************************************************)
EXTENDS Naturals

CONSTANTS
    Kinds,     \* of displays: "local", "foreign" (in the file), "xdmcp"
    MaxTerm    \* bound: how often the master sends SIGTERM

ASSUME KindsAssumption == Kinds \subseteq {"local", "foreign", "xdmcp"}
ASSUME TermAssumption == MaxTerm \in Nat

VARIABLES
    kind,      \* the display's location and origin
    pc,        \* where the process is
    login,     \* GreetUser has returned, and SIGTERM is caught
    client,    \* the user's client: its process, and what it was told
    known,     \* clientPid is set
    got,       \* pid = clientPid, in ManageSession
    alarm,     \* the handler of the alarm that is set
    pingIO,    \* PingServer's handler of I/O errors has been left installed
    tries,     \* AbortClient's i
    code,      \* the exit status
    resets,    \* history: how often the reset script has been forked
    unforked,  \* history: how often its fork has failed
    terms,     \* history: SIGTERMs the process got
    stray      \* history: an alarm has gone off outside of what it was set for

child == <<client, known, got>>
clock == <<alarm, pingIO, stray>>
past  == <<resets, unforked, terms>>
vars  == <<kind, pc, login, child, clock, tries, code, past>>

Greeting == {"open", "secure", "greet", "startup"}
Session  == {"start", "forked", "loop", "wait", "waited", "ping"}
Aborting == {"kill", "killwait"}
Ending   == {"reset", "resetting", "exit", "resetServer", "drop"}
Running  == Greeting \cup Session \cup Aborting \cup Ending
-----------------------------------------------------------------------------
(* The greeter: SIGTERM still has its default action *)

\* exit(): the parent is the master.
Exits(c) == pc' = "exited" /\ code' = c /\ UNCHANGED <<login, alarm>>

\* SessionExit with the status c
SessionExit(c) == pc' = "exit" /\ code' = c

WaitForServer ==
    /\ pc = "open"
    /\ \/ pc' = "secure" /\ UNCHANGED <<code, login, alarm>>
       \/ Exits("OPENFAILED")
    /\ UNCHANGED <<kind, child, pingIO, stray, tries, past>>

\* The server or the keyboard may not be grabbed in time.
SecureDisplay ==
    /\ pc = "secure"
    /\ \/ pc' = "greet" /\ UNCHANGED code
       \/ SessionExit("RESERVER")
    /\ UNCHANGED <<kind, login, child, clock, tries, past>>

\* The user logs in, or presses a button of the shutdown dialog, or the
\* display fails.
Greet ==
    /\ pc = "greet"
    /\ \/ pc' = "startup" /\ UNCHANGED <<code, login, alarm>>
       \/ \E c \in {"UNMANAGE", "RESERVER"} : Exits(c)
    /\ UNCHANGED <<kind, child, pingIO, stray, tries, past>>

\* The startup script decides.  Then SIGTERM is caught.
Startup ==
    /\ pc = "startup"
    /\ \/ pc' = "start" /\ login' = TRUE /\ UNCHANGED code
       \/ SessionExit("OBEYSESS") /\ UNCHANGED login
    /\ UNCHANGED <<kind, child, clock, tries, past>>
-----------------------------------------------------------------------------
(* The session *)

\* Mutant: without a client there is nothing to reset.
StartClientHasty ==
    /\ pc = "start"
    /\ \/ pc' = "forked" /\ client' = [client EXCEPT !.st = "young"] /\ UNCHANGED code
       \/ SessionExit("OBEYSESS") /\ UNCHANGED client
    /\ UNCHANGED <<kind, login, known, got, clock, tries, past>>

\* fork () may fail.
StartClient ==
    /\ pc = "start"
    /\ \/ pc' = "forked" /\ client' = [client EXCEPT !.st = "young"] /\ UNCHANGED code
       \/ pc' = "reset" /\ code' = "OBEYSESS" /\ UNCHANGED client
    /\ UNCHANGED <<kind, login, known, got, clock, tries, past>>

SetClientPid ==
    /\ pc = "forked"
    /\ pc' = "loop" /\ known' = TRUE
    /\ UNCHANGED <<kind, login, client, got, clock, tries, code, past>>

\* Only displays of other hosts are pinged.
Loop ==
    /\ pc = "loop"
    /\ pc' = "wait" /\ alarm' = IF kind = "local" THEN "off" ELSE "catchAlrm"
    /\ UNCHANGED <<kind, login, child, pingIO, stray, tries, code, past>>

\* wait () has an answer at once when there is no child to wait for.
Wait ==
    /\ pc = "wait" /\ client.st \in {"zombie", "reaped"}
    /\ pc' = "waited" /\ got' = (client.st = "zombie")
    /\ client' = [client EXCEPT !.st = "reaped"]
    /\ UNCHANGED <<kind, login, known, clock, tries, code, past>>

\* What follows a return to the loop, the client having been waited for or not
Continue ==
    IF got THEN pc' = "reset" /\ code' = "OBEYSESS"
    ELSE pc' = "loop" /\ UNCHANGED code

Waited ==
    /\ pc = "waited"
    /\ alarm' = "off" /\ Continue
    /\ UNCHANGED <<kind, login, child, pingIO, stray, tries, past>>

\* XSync returns.
PingAnswered ==
    /\ pc = "ping"
    /\ alarm' = "off" /\ Continue
    /\ UNCHANGED <<kind, login, child, pingIO, stray, tries, past>>

\* Mutant: the client is not ended.
SessionPingFailedIdle ==
    /\ pc' = "reset" /\ code' = "RESERVER" /\ tries' = 0 /\ alarm' = "off"
    /\ UNCHANGED <<kind, login, child, pingIO, past>>

SessionPingFailed ==
    /\ pc' = "kill" /\ code' = "RESERVER" /\ tries' = 0 /\ alarm' = "off"
    /\ UNCHANGED <<kind, login, child, pingIO, past>>

\* The connection is lost.
PingLostIOErr == pc = "ping" /\ SessionPingFailed /\ UNCHANGED stray
-----------------------------------------------------------------------------
(* AbortClient *)

\* Mutant: nothing ends the wait for a client that ignores SIGTERM.
KillPatient ==
    /\ pc = "kill" /\ known
    /\ \/ /\ client.st \in {"live", "zombie"}
          /\ client' = IF client.st # "live" THEN client
                       ELSE [client EXCEPT !.told = IF tries = 0 THEN "term" ELSE "kill"]
          /\ pc' = "killwait" /\ alarm' = "off"
       \/ /\ client.st \in {"young", "reaped"}
          /\ client' = IF client.st # "young" THEN client
                       ELSE [client EXCEPT !.told = "missed"]
          /\ pc' = "reset" /\ UNCHANGED alarm
    /\ UNCHANGED <<kind, login, known, got, pingIO, stray, tries, code, past>>

\* killpg: a client that has not yet made its own process group is missed,
\* and with nobody there AbortClient returns without cancelling the alarm.
Kill ==
    /\ pc = "kill" /\ known
    /\ \/ /\ client.st \in {"live", "zombie"}
          /\ client' = IF client.st # "live" THEN client
                       ELSE [client EXCEPT !.told = IF tries = 0 THEN "term" ELSE "kill"]
          /\ pc' = "killwait" /\ alarm' = "waitAbort"
       \/ /\ client.st \in {"young", "reaped"}
          /\ client' = IF client.st # "young" THEN client
                       ELSE [client EXCEPT !.told = "missed"]
          /\ pc' = "reset" /\ UNCHANGED alarm
    /\ UNCHANGED <<kind, login, known, got, pingIO, stray, tries, code, past>>

\* With clientPid still 0 the signal goes to the process itself, whose
\* handler jumps back here.
KillSelf == pc = "kill" /\ ~known /\ UNCHANGED vars

\* Mutant: five times
NextTryMore == /\ tries' = tries + 1 /\ alarm' = "off"
               /\ pc' = IF tries = 4 THEN "reset" ELSE "kill"

NextTry == /\ tries' = IF tries = 3 THEN tries ELSE tries + 1
           /\ alarm' = "off"
           /\ pc' = IF tries = 3 THEN "reset" ELSE "kill"

\* wait () returns the client, or a reset script that a SIGTERM left behind.
KillWait ==
    /\ pc = "killwait"
    /\ \/ /\ client.st = "zombie"
          /\ client' = [client EXCEPT !.st = "reaped"]
          /\ pc' = "reset" /\ alarm' = "off" /\ UNCHANGED tries
       \/ resets > 0 /\ NextTry /\ UNCHANGED client
    /\ UNCHANGED <<kind, login, known, got, pingIO, stray, code, past>>
-----------------------------------------------------------------------------
(* The end *)

\* source () of the reset script: with no process left for it, runAndWait
\* returns as if the script had failed, and ManageSession does not look.
StartReset ==
    /\ pc = "reset"
    /\ \/ pc' = "resetting" /\ resets' = resets + 1 /\ UNCHANGED unforked
       \/ pc' = "exit" /\ unforked' = unforked + 1 /\ UNCHANGED resets
    /\ UNCHANGED <<kind, login, child, clock, tries, code, terms>>

\* The script ends, and wait () may meet a client that was missed before.
EndReset ==
    /\ pc = "resetting"
    /\ pc' = "exit"
    /\ \/ UNCHANGED client
       \/ client.st = "zombie" /\ client' = [client EXCEPT !.st = "reaped"]
    /\ UNCHANGED <<kind, login, known, got, clock, tries, code, past>>

\* The user's authorization is removed in a session only.
Leave == IF login THEN "drop" ELSE "exited"

\* A local server gets a signal; a foreign display loses its windows, as
\* long as thirty seconds allow.
ResetServer ==
    /\ pc = "exit"
    /\ IF kind = "foreign" THEN pc' = "resetServer" /\ alarm' = "abortReset"
       ELSE pc' = Leave /\ UNCHANGED alarm
    /\ UNCHANGED <<kind, login, child, pingIO, stray, tries, code, past>>

pseudoReset ==
    /\ pc = "resetServer"
    /\ \/ pc' = Leave /\ alarm' = "off" /\ UNCHANGED <<code, login>>
       \/ ~pingIO /\ Exits("RESERVER")
       \/ pingIO /\ pc' = "wild" /\ UNCHANGED <<code, login, alarm>>
    /\ UNCHANGED <<kind, child, pingIO, stray, tries, past>>

\* setuid (verify.uid), RemoveUserAuthorization, exit
RemoveAuth ==
    /\ pc = "drop"
    /\ pc' = "exited"
    /\ UNCHANGED <<kind, login, child, clock, tries, code, past>>
-----------------------------------------------------------------------------
(* Signals *)

\* catchTerm; the alarm stays set.
Sigterm ==
    /\ pc \in Running /\ terms < MaxTerm
    /\ terms' = terms + 1
    /\ IF login THEN pc' = "kill" /\ tries' = 0 /\ code' = "OBEYSESS"
       ELSE pc' = "exited" /\ code' = "SIGTERM" /\ UNCHANGED tries
    /\ pingIO' = (pingIO \/ pc = "ping")
    /\ UNCHANGED <<kind, login, child, alarm, stray, resets, unforked>>

Wild == pc' = "wild" /\ UNCHANGED <<kind, login, child, pingIO, tries, code, past>>

\* The alarm of the loop: PingServer is called.  wait () may have returned the
\* client without the result having been stored.
CatchAlrm ==
    /\ pc \in Running /\ alarm = "catchAlrm"
    /\ pc' = "ping" /\ alarm' = "pingLost"
    /\ got' \in IF pc = "waited" THEN {FALSE, got} ELSE {got}
    /\ stray' = (stray \/ pc # "wait")
    /\ UNCHANGED <<kind, login, client, known, pingIO, tries, code, past>>

PingLostSig ==
    /\ pc \in Running /\ alarm = "pingLost"
    /\ IF pc = "ping" THEN SessionPingFailed ELSE Wild /\ alarm' = "off"
    /\ stray' = (stray \/ pc # "ping")

WaitAbort ==
    /\ pc \in Running /\ alarm = "waitAbort"
    /\ \/ /\ pc = "killwait" /\ NextTry
          /\ UNCHANGED <<kind, login, child, pingIO, stray, code, past>>
       \/ pc # "killwait" /\ Wild /\ alarm' = "off" /\ stray' = TRUE

AbortReset ==
    /\ pc \in Running /\ alarm = "abortReset"
    /\ \/ /\ pc = "resetServer" /\ pc' = Leave
          /\ UNCHANGED <<kind, login, child, pingIO, stray, tries, code, past>>
       \/ pc # "resetServer" /\ Wild /\ stray' = TRUE
    /\ alarm' = "off"
-----------------------------------------------------------------------------
(* The client *)

\* CleanUpChild gives it a process group of its own; or the change of the
\* user fails and it returns from StartClient to run the reset script itself.
ClientRuns ==
    /\ client.st = "young"
    /\ \/ client' = [client EXCEPT !.st = "live"] /\ UNCHANGED <<resets, unforked>>
       \/ /\ client' = [st |-> "zombie", told |-> "failed"]
          /\ \/ resets' = resets + 1 /\ UNCHANGED unforked
             \/ unforked' = unforked + 1 /\ UNCHANGED resets
    /\ UNCHANGED <<kind, pc, login, known, got, clock, tries, code, terms>>

ClientEnds ==
    /\ client.st = "live"
    /\ client' = [client EXCEPT !.st = "zombie"]
    /\ UNCHANGED <<kind, pc, login, known, got, clock, tries, code, past>>
-----------------------------------------------------------------------------
Init == /\ kind \in Kinds
        /\ pc = "open" /\ login = FALSE
        /\ client = [st |-> "none", told |-> "no"] /\ known = FALSE /\ got = FALSE
        /\ alarm = "off" /\ pingIO = FALSE /\ tries = 0 /\ code = "OBEYSESS"
        /\ resets = 0 /\ unforked = 0 /\ terms = 0 /\ stray = FALSE

Greeter == WaitForServer \/ SecureDisplay \/ Greet \/ Startup

ManageSession == \/ StartClient \/ SetClientPid \/ Loop \/ Wait \/ Waited \/ PingAnswered
                 \/ Kill \/ KillSelf \/ KillWait
                 \/ StartReset \/ EndReset \/ ResetServer \/ pseudoReset \/ RemoveAuth

Alarm == CatchAlrm \/ PingLostSig \/ WaitAbort \/ AbortReset

\* Nothing comes after the exit.
Over == pc \in {"exited", "wild"} /\ UNCHANGED vars

Next == \/ Greeter \/ ManageSession \/ PingLostIOErr \/ Sigterm \/ Alarm
        \/ ClientRuns \/ ClientEnds \/ Over

Spec == Init /\ [][Next]_vars

\* The process runs, alarms go off, a client that was killed ends; an alarm of
\* minutes does not for ever come before a wait () that returns at once.
FairSpec == /\ Spec
            /\ WF_vars(ManageSession) /\ SF_vars(Wait) /\ WF_vars(WaitAbort)
            /\ WF_vars(ClientRuns) /\ WF_vars(client.told = "kill" /\ ClientEnds)
-----------------------------------------------------------------------------
(* Properties *)

\* AbortClient tries four times, and the status is one the master knows
\* (session.c:319-350, dm.c:452-535).
TypeOK ==
    /\ kind \in Kinds
    /\ pc \in Running \cup {"exited", "wild"}
    /\ login \in BOOLEAN /\ known \in BOOLEAN /\ got \in BOOLEAN
    /\ client \in [st : {"none", "young", "live", "zombie", "reaped"},
                   told : {"no", "term", "kill", "missed", "failed"}]
    /\ alarm \in {"off", "catchAlrm", "pingLost", "waitAbort", "abortReset"}
    /\ pingIO \in BOOLEAN /\ stray \in BOOLEAN
    /\ tries \in 0..3
    /\ code \in {"OBEYSESS", "UNMANAGE", "RESERVER", "OPENFAILED", "SIGTERM"}
    /\ resets \in Nat /\ unforked \in Nat /\ terms \in 0..MaxTerm

Finished == client.st \in {"none", "zombie", "reaped"} \/ client.told \in {"kill", "missed"}

\* The reset script runs, and the session exits, only when its client has
\* ended or was killed, whatever signals come in whatever order; but for a
\* client that was told before it had a process group (session.c:486-495).
ClientFirst == login /\ pc \in Ending \cup {"exited"} => Finished

\* A session that was logged in to does not exit before it has run the reset
\* script or failed to fork it: in the second case the script is not run
\* (session.c:962-965).  It tries once unless SIGTERM comes; a child that
\* cannot become the user tries too (session.c:354-364, 492-495, 678-735).
ResetRuns ==
    LET scripts == IF client.told = "failed" THEN 2 ELSE 1 IN
    pc = "exited" /\ login =>
        /\ resets + unforked >= scripts
        /\ terms = 0 => resets + unforked = scripts

Spins == pc = "kill" /\ ~known

\* When the client has ended, or SIGTERM came, the session exits: this is what
\* the master takes for granted.  What is excepted are alarms that go off
\* out of place, and SIGTERM before clientPid is set (session.c:316-350, 442-495).
SessionEnds ==
    client.st \in {"zombie", "reaped"} \/ terms > 0 ~> pc \in {"exited", "wild"} \/ stray \/ Spins
=============================================================================
