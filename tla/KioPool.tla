------------------------------- MODULE KioPool ------------------------------
(***************************************************************************)
(* kfm's I/O server (src/kfm/kioserver.cpp), its jobs (kiojob.cpp) and the *)
(* slave processes that do their work (kioslave/main.cpp), which talk to   *)
(* kfm over one socket each (kioserver_ipc.cpp).                           *)
(*                                                                         *)
(* kfm is one process: each of its actions handles one message, timer or   *)
(* user command, and every call made from there is part of the action.     *)
(* The calls are operators from a state of the pool to the next one.       *)
(* Messages of a slave are read in the order in which it wrote them.       *)
(***************************************************************************)
EXTENDS Naturals, Sequences, FiniteSets, SequencesExt

CONSTANTS
    Job,       \* the KIOJobs that may be created
    Quiet,     \* those of the HTML cache: display (FALSE), redirections ignored
    Viewed,    \* those of a window's KFMJob, which follows redirections itself
    Later,     \* the ones among them that it creates to go on, and that bound this
    Slave,     \* the slave processes that may be forked
    NoSlave,   \* the null pointer
    MaxFiles,  \* the requests one job makes, before cleanUp
    Env        \* what may go wrong or be commanded

EnvActions == {"error", "silent", "dismiss", "redirect", "cancel", "die", "execfail",
               "timer"}

ASSUME JobsAssumption == /\ Quiet \subseteq Job /\ Viewed \subseteq Job
                         /\ Quiet \cap Viewed = {} /\ Later \subseteq Viewed
ASSUME SlavesAssumption == NoSlave \notin Slave
ASSUME FilesAssumption == MaxFiles \in Nat \ {0}
ASSUME EnvAssumption == Env \subseteq EnvActions

VARIABLE pool   \* free, waiting: KIOServer's lists; job, slave: the objects
-----------------------------------------------------------------------------
(* Records *)

\* A job's state: "asked" has a slave and waits for its process id, "busy"
\* for the end of a request, "cleaning" for that of cleanUp; "wild" is a
\* deleted job whose code still runs.  The job is connected to done on times,
\* once for each start(), has left requests to make, shows so many dialogs,
\* knows of an error, and has emitted finished told times.  A window's job
\* may be listing a place, unless it is known to load a file.  An answer is
\* lost that the slave or the user never gives.
NewJob == [st |-> "new", slave |-> NoSlave, on |-> 0, left |-> 0, dialog |-> 0,
           error |-> FALSE, told |-> 0, file |-> FALSE, lost |-> FALSE]

\* A slave: its process and socket, the messages to it and from it, each with
\* the job they are about.
NoProcess  == [st |-> "none", inbox |-> <<>>, outbox |-> <<>>]
Gone       == [NoProcess EXCEPT !.st = "gone"]
Unborn     == [NoProcess EXCEPT !.st = "unborn"]
Msg(op, j) == [op |-> op, job |-> j]

Send(p, j, op) == [p EXCEPT !.slave[p.job[j].slave].inbox = Append(@, Msg(op, j))]

\* The job whose slots are connected to the slave s, if any
Listeners(s) == {j \in Job : pool.job[j].slave = s}

Unused == {s \in Slave : pool.slave[s].st = "none"}
-----------------------------------------------------------------------------
(* KIOServer *)

\* Mutant: the job starts at once, without asking for the process id.
DoItNow(p, j, s) ==
    Send([p EXCEPT !.job[j].st = "busy", !.job[j].slave = s, !.job[j].on = 1,
                   !.job[j].left = @ - 1], j, "work")

\* KIOJob::doIt
DoIt(p, j, s) ==
    Send([p EXCEPT !.job[j].st = "asked", !.job[j].slave = s], j, "getPID")

\* Mutant: the job stays in the list of those that wait.
FreeSlaveKeeps(p, s) ==
    IF p.waiting = <<>> THEN [p EXCEPT !.free = @ \cup {s}]
    ELSE DoIt(p, Head(p.waiting), s)

\* newSlave2 and freeSlave
FreeSlave(p, s) ==
    IF p.waiting = <<>> THEN [p EXCEPT !.free = @ \cup {s}]
    ELSE DoIt([p EXCEPT !.waiting = Tail(@)], Head(p.waiting), s)

\* Mutant: no slave is forked when there are others, which may become free.
GetSlaveWaits(p, j, s) ==
    IF p.free = {} THEN [p EXCEPT !.waiting = Append(@, j), !.job[j].st = "waiting",
                                  !.slave[s].st = IF Unused = Slave THEN "starting" ELSE @]
    ELSE DoIt([p EXCEPT !.free = @ \ {s}], j, s)

\* getSlave, with runNewSlave when no slave is free; s is the slave taken or
\* forked
GetSlave(p, j, s) ==
    IF p.free = {} THEN [p EXCEPT !.waiting = Append(@, j), !.job[j].st = "waiting",
                                  !.slave[s].st = "starting"]
    ELSE DoIt([p EXCEPT !.free = @ \ {s}], j, s)
Available(p) == IF p.free = {} THEN Unused ELSE p.free

\* removeJob
RemoveJob(p, j) == [p EXCEPT !.waiting = RemoveFirst(@, j)]

\* Mutant: slotSlaveClosed does not look for the slave among the free ones.
DeleteSlaveFree(p, s) == [p EXCEPT !.slave[s] = Gone]

\* The destructor of KIOSlaveIPC, and slotSlaveClosed of the server
DeleteSlave(p, s) == [p EXCEPT !.free = @ \ {s}, !.slave[s] = Gone]
-----------------------------------------------------------------------------
(* KIOJob *)

\* delete this; the code that shows a dialog goes on in the deleted job.
Freed(p, j, st) == [p EXCEPT !.job[j].st = IF p.job[j].dialog > 0 THEN "wild" ELSE st,
                            !.job[j].slave = NoSlave]

\* Emitting finished, and delete this
Ended(p, j) == Freed([p EXCEPT !.job[j].told = @ + 1], j, "done")

\* done()
Done(p, j) ==
    LET q == RemoveJob(p, j)
        s == q.job[j].slave
    IN  Ended(IF s = NoSlave THEN q ELSE FreeSlave(q, s), j)

\* cancel(), done() included
Cancel(p, j) ==
    LET q == RemoveJob(p, j)
        s == q.job[j].slave
        r == IF s = NoSlave THEN q ELSE DeleteSlave(q, s)
    IN  Done([r EXCEPT !.job[j].slave = NoSlave], j)

\* The destructor of a job that has not ended
DeleteJob(p, j) ==
    LET s == p.job[j].slave
        q == IF s = NoSlave THEN p ELSE FreeSlave(p, s)
    IN  Freed(RemoveJob(q, j), j, "deleted")

Request(p, j)    == Send([p EXCEPT !.job[j].st = "busy", !.job[j].left = @ - 1], j, "work")
AskCleanUp(p, j) == Send([p EXCEPT !.job[j].st = "cleaning"], j, "cleanUp")

\* slaveIsReady() of a job that has been started
SlaveIsReady(p, j) ==
    CASE p.job[j].st = "cleaning"                       -> Done(p, j)
      [] p.job[j].st = "busy" /\ p.job[j].left = 0     -> AskCleanUp(p, j)
      [] p.job[j].st \in {"asked", "busy"} /\ p.job[j].left > 0 -> Request(p, j)

\* The same before start(): started and cleanedUp are not initialised.
ReadyEarly(p, j) == {Done(p, j), AskCleanUp(p, j), Request(p, j)}

\* start(): whether a listing was made is forgotten (started).
Started(p, j) ==
    SlaveIsReady([p EXCEPT !.job[j].on = @ + 1, !.job[j].st = "busy",
                           !.job[j].left = IF j \in Viewed THEN 1 ELSE @], j)

Requests(p, j, n) ==
    [p EXCEPT !.job[j].st = "busy", !.job[j].left = @ - n,
              !.slave[p.job[j].slave].inbox = @ \o [i \in 1 .. n |-> Msg("work", j)]]

\* Mutant: whether requests are left is not looked at.
AllReadyUnchecked(p, j) ==
    IF p.job[j].st = "cleaning" THEN Done(p, j) ELSE Requests(p, j, p.job[j].on)

\* The signal done calls slaveIsReady() once for every connection the job has
\* made: it asks for so many files, for cleanUp after the last, and is done
\* after that.
AllReady(p, j) ==
    LET on   == p.job[j].on
        left == p.job[j].left
    IN  IF p.job[j].st = "cleaning" THEN Done(p, j)
        ELSE IF on <= left THEN Requests(p, j, on)
        ELSE LET q == AskCleanUp(Requests(p, j, left), j)
             IN  IF on = left + 1 THEN q ELSE Done(q, j)

-----------------------------------------------------------------------------
(* Jobs are started and cancelled *)

\* A job of the file manager or the cache, and openFileOrDir for a window
Start(j) ==
    /\ j \notin Later /\ pool.job[j].st = "new"
    /\ \E s \in Available(pool), n \in (IF j \in Viewed THEN {1} ELSE 1 .. MaxFiles) :
          pool' = GetSlave([pool EXCEPT !.job[j].left = n], j, s)

\* The Cancel button, KFMJob::stop, HTMLCache::stop.  The HTML cache has
\* forgotten a job that reported an error (htmlcache.cpp:139).
UserCancels(j) ==
    /\ "cancel" \in Env
    /\ pool.job[j].st \in {"waiting", "asked", "busy", "cleaning"} /\ pool.job[j].dialog = 0
    /\ ~(j \in Quiet /\ pool.job[j].error)
    /\ pool' = Cancel(pool, j)

\* slotTimer: a slave has been idle for more than ten seconds
SlotTimer(s) ==
    /\ "timer" \in Env /\ s \in pool.free
    /\ pool' = DeleteSlave(pool, s)
-----------------------------------------------------------------------------
(* A message of the slave s is read *)

Reads(s, op) == pool.slave[s].outbox # <<>> /\ Head(pool.slave[s].outbox).op = op
Read(s)      == [pool EXCEPT !.slave[s].outbox = Tail(@)]
Connected(j) == pool.job[j].on > 0

\* No job is connected to the signal.
Dropped(s) == \A j \in Listeners(s) : ~Connected(j)

\* setPID: start()
StartJob(s) ==
    /\ Reads(s, "pid")
    /\ \/ \E j \in Listeners(s) : pool' = Started(Read(s), j)
       \/ Listeners(s) = {} /\ pool' = Read(s)

\* done: a job listens once start() has been called
SlaveDone(s) ==
    /\ Reads(s, "done")
    /\ \/ \E j \in Listeners(s) : Connected(j) /\ pool' = AllReady(Read(s), j)
       \/ Dropped(s) /\ pool' = Read(s)

\* fatalError and processError: a quiet job only tells its client.  Of the
\* others some errors end the job, some ask the user: KFMJob::slotError has
\* made a window's job show them too.
FatalError(s) ==
    /\ Reads(s, "error")
    /\ \/ /\ Listeners(s) = {}
          /\ pool' = Read(s)
       \/ \E j \in Listeners(s) \cap Quiet :
             pool' = [Read(s) EXCEPT !.job[j].error = TRUE]
       \/ \E j \in Listeners(s) \ Quiet :
             pool' \in {Done(Read(s), j), [Read(s) EXCEPT !.job[j].dialog = @ + 1]}

\* The place could not be listed, and no entry of it was seen: slotError
\* cancels the job and opens the place as a file.
OpenAsFile(s) ==
    /\ Reads(s, "error")
    /\ \E j \in Listeners(s) \cap Viewed, k \in Later :
          /\ ~pool.job[j].file /\ pool.job[k].st = "new"
          /\ LET q == Cancel([Read(s) EXCEPT !.job[k].left = 1, !.job[k].file = TRUE], j)
             IN  \E t \in Available(q) : pool' = GetSlave(q, k, t)

\* The user has answered the dialog of processError or of KRenameWin, or has
\* closed it: then nothing is done.
Answer(j) ==
    /\ pool.job[j].dialog > 0 /\ pool.job[j].st # "wild"
    /\ LET p == [pool EXCEPT !.job[j].dialog = @ - 1]
       IN  \/ pool' \in {Done(p, j)} \cup (IF pool.job[j].st = "asked" THEN ReadyEarly(p, j)
                                           ELSE {SlaveIsReady(p, j)})
           \/ "dismiss" \in Env /\ pool' = [p EXCEPT !.job[j].lost = TRUE]

\* redirection: KFMJob deletes the job and starts another for the new place.
\* It ignores one to a local file, and other jobs ignore all.
Redirection(s) ==
    /\ Reads(s, "redirect")
    /\ \/ \E j \in Listeners(s) \cap Viewed, k \in Later :
             /\ Connected(j) /\ pool.job[k].st = "new"
             /\ LET q == DeleteJob([Read(s) EXCEPT !.job[k].left = 1], j)
                IN  \E t \in Available(q) : pool' = GetSlave(q, k, t)
       \/ pool' = Read(s)


\* closeEvent: KIOSlaveIPC is deleted, and KIOJob::slotSlaveClosed cancels
\* the job.
CloseEvent(s) ==
    /\ pool.slave[s].st = "dead" /\ pool.slave[s].outbox = <<>>
    /\ LET q == DeleteSlave(pool, s)
       IN  \/ Listeners(s) = {} /\ pool' = q
           \/ \E j \in Listeners(s) :
                 pool' = Cancel([q EXCEPT !.job[j].slave = NoSlave, !.job[j].error = TRUE], j)
-----------------------------------------------------------------------------
(* Slave processes *)

\* A forked slave connects: newSlave
Connect(s) ==
    /\ pool.slave[s].st = "starting"
    /\ pool' = FreeSlave([pool EXCEPT !.slave[s].st = "up"], s)

\* fork or exec failed, or the slave found no server
ExecFails(s) ==
    /\ "execfail" \in Env /\ pool.slave[s].st = "starting"
    /\ pool' = [pool EXCEPT !.slave[s] = Unborn]

Asked(s, op) == /\ pool.slave[s].st = "up" /\ pool.slave[s].inbox # <<>>
                /\ Head(pool.slave[s].inbox).op = op
Tell(s, op)  == [pool EXCEPT !.slave[s].outbox = Append(@, Msg(op, Head(pool.slave[s].inbox).job)),
                             !.slave[s].inbox = Tail(@)]

SendPID(s) == Asked(s, "getPID") /\ pool' = Tell(s, "pid")
CleanUp(s) == Asked(s, "cleanUp") /\ pool' = Tell(s, "done")

\* copy, get, list, ...: after fatalError they return without done.  del says
\* nothing at all of a malformed nested URL, and no window or cache deletes.
Work(s) ==
    LET j == Head(pool.slave[s].inbox).job
    IN  /\ Asked(s, "work")
        /\ \/ pool' = Tell(s, "done")
           \/ "error" \in Env /\ pool' = Tell(s, "error")
           \/ /\ "silent" \in Env /\ j \notin Quiet \cup Viewed
              /\ pool' = [pool EXCEPT !.slave[s].inbox = Tail(@), !.job[j].lost = TRUE]

Redirected == {m \in Slave \X (1 .. 9) : /\ m[2] \in DOMAIN pool.slave[m[1]].outbox
                                         /\ pool.slave[m[1]].outbox[m[2]].op = "redirect"}

\* a redirection first; the request goes on at the new place
Redirects(s) ==
    /\ "redirect" \in Env /\ Asked(s, "work")
    /\ Cardinality(Redirected) < Cardinality({k \in Later : pool.job[k].st = "new"})
    /\ pool' = [pool EXCEPT !.slave[s].outbox =
                   Append(@, Msg("redirect", Head(pool.slave[s].inbox).job))]

Dies(s) ==
    /\ "die" \in Env /\ pool.slave[s].st = "up"
    /\ pool' = [pool EXCEPT !.slave[s].st = "dead", !.slave[s].inbox = <<>>]
-----------------------------------------------------------------------------
Init == pool = [free |-> {}, waiting |-> <<>>, job |-> [j \in Job |-> NewJob],
                slave |-> [s \in Slave |-> NoProcess]]

Reading(s) == \/ StartJob(s) \/ SlaveDone(s) \/ FatalError(s) \/ OpenAsFile(s)
              \/ Redirection(s) \/ CloseEvent(s)
Serving(s) == Connect(s) \/ SendPID(s) \/ CleanUp(s) \/ Work(s)

Next ==
    \/ \E j \in Job : Start(j) \/ UserCancels(j) \/ Answer(j)
    \/ \E s \in Slave : Reading(s) \/ Serving(s) \/ SlotTimer(s)
    \/ \E s \in Slave : ExecFails(s) \/ Redirects(s) \/ Dies(s)

Spec == Init /\ [][Next]_pool
-----------------------------------------------------------------------------
(* Types *)

JobState == {"new", "waiting", "asked", "busy", "cleaning", "done", "deleted", "wild"}
Message  == [op : {"getPID", "work", "cleanUp", "pid", "done", "error", "redirect"}, job : Job]

JobRecord   == [st : JobState, slave : Slave \cup {NoSlave}, on : Nat, left : 0 .. MaxFiles,
                dialog : Nat, error : BOOLEAN, told : Nat, file : BOOLEAN, lost : BOOLEAN]
SlaveRecord == [st : {"none", "starting", "up", "dead", "gone", "unborn"},
                inbox : Seq(Message), outbox : Seq(Message)]

\* Every list, job and slave has its type.
TypeOK == pool \in [free : SUBSET Slave, waiting : Seq(Job), job : [Job -> JobRecord],
                    slave : [Slave -> SlaveRecord]]
-----------------------------------------------------------------------------
(* Safety *)

\* A slave is lent to one job at a time, is never in the list of free slaves
\* meanwhile, and nobody keeps a pointer to a deleted one (kioserver.cpp:773-
\* 797, 815-823; kiojob.cpp:64-77, 1967-2041).
Exclusive ==
    /\ \A j, k \in Job : pool.job[j].slave = pool.job[k].slave /\ j # k
                           => pool.job[j].slave = NoSlave
    /\ \A j \in Job : pool.job[j].slave \notin pool.free
    /\ \A s \in (pool.free \cup {pool.job[j].slave : j \in Job}) \ {NoSlave} :
          pool.slave[s].st \in {"up", "dead"}

\* A job that has been started hears of its own requests only: a slave that
\* is handed back in the middle of its work answers getPID after everything
\* else, and a job listens from then on (kiojob.cpp:1207-1217, 1633-1644).
OwnAnswers ==
    \A j \in Job : pool.job[j].on > 0 /\ pool.job[j].slave # NoSlave =>
        LET s == pool.slave[pool.job[j].slave]
        IN  \A m \in {s.inbox[i] : i \in DOMAIN s.inbox} \cup {s.outbox[i] : i \in DOMAIN s.outbox} :
               m.job = j

\* finished is emitted once, whatever ends the job (kiojob.cpp:1967-2041,
\* 2107-2118), and a job in the list of waiting jobs has not ended.
EndsOnce ==
    /\ \A j \in Job : pool.job[j].told <= 1
    /\ \A i \in DOMAIN pool.waiting : pool.job[pool.waiting[i]].st = "waiting"

\* For every job that waits a slave is on its way, unless one could not be
\* started: a job never waits for another job's end (kioserver.cpp:785-797).
SlaveComing ==
    Len(pool.waiting) <= Cardinality({s \in Slave : pool.slave[s].st \in {"starting", "unborn"}})
-----------------------------------------------------------------------------
(* Liveness *)

\* kfm handles what it can read, slaves that live do their work, and users
\* answer dialogs.
Fairness == /\ \A s \in Slave : WF_pool(Reading(s)) /\ WF_pool(Serving(s))
            /\ \A j \in Job : WF_pool(Answer(j))

FairSpec == Spec /\ Fairness

Ending(j) ==
    pool.job[j].st # "new"
        ~> pool.job[j].st \in {"done", "deleted", "wild"} \/ pool.job[j].lost

=============================================================================
