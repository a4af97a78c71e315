------------------------------ MODULE HtmlCache -----------------------------
(***************************************************************************)
(* kfm's cache of the images and pages a window shows (src/kfm/            *)
(* htmlcache.cpp).  Every view has an instance of HTMLCache; the jobs that *)
(* load URLs and the cached files are shared by all of them.               *)
(*                                                                         *)
(* kfm is one process: every action is one signal with all the calls made  *)
(* from it.  A job that has ended is a free object again.  The program     *)
(* keeps the object of one that ended in an error (kiojob.cpp:1511), but   *)
(* no list holds it and it is disconnected: to the cache it is gone.       *)
(***************************************************************************)
EXTENDS Naturals, Sequences, FiniteSets

CONSTANTS
    View,     \* the views, each with its instance
    Url,
    Job,      \* the HTMLCacheJob objects
    NoJob,    \* the state of one that does not exist
    MaxJobs,  \* MAX_JOBS
    MaxTodo,  \* bounds on the URLs a view has queued when it asks for more and
    MaxWait   \* on the times it is noted as waiting for the one it asks for

ASSUME MaxJobsAssumption == MaxJobs \in Nat \ {0}
ASSUME NoJobAssumption == NoJob \notin [url : Url, owner : View]

VARIABLES
    open,     \* instanceList
    cache,    \* what the views share and what each of them keeps, see Init
    enabled,  \* bCacheEnabled
    asked     \* asked[v]: the URLs v wants and was not told of: for the properties

vars == <<open, cache, enabled, asked>>
-----------------------------------------------------------------------------
Free == {k \in Job : cache.job[k] = NoJob}

\* Mutant: the entry is not looked for.
LessAlways(count, u) == [count EXCEPT ![u] = @ - 1]

\* Removing one of the entries of a URL
Less(count, u) == [count EXCEPT ![u] = IF @ > 0 THEN @ - 1 ELSE 0]

NoWaiting == [u \in Url |-> 0]

\* The URL is loaded already: urlLoaded is emitted at once.
Cached(c, u) == enabled /\ c.file[u] # "none"

Loading(c, u) == {j \in c.static : c.job[j].url = u}

\* new HTMLCacheJob, and its entries in the lists
NewJob(c, v, u, k) == [c EXCEPT !.waiting[v][u] = @ + 1, !.job[k] = [url |-> u, owner |-> v],
                                !.static = @ \cup {k}, !.inst[v] = @ \cup {k}]

\* Mutant: only the instance's own jobs are looked at.
RequestOwn(c, v, u, k) ==
    IF Cached(c, u) \/ Loading(c, u) \cap c.inst[v] # {} THEN c
    ELSE IF Cardinality(c.inst[v]) = MaxJobs
         THEN [c EXCEPT !.waiting[v][u] = @ + 1, !.todo[v] = Append(@, u)]
         ELSE NewJob(c, v, u, k)

\* slotURLRequest of the instance v; k is the new job, if there is one.
Request(c, v, u, k) ==
    IF Cached(c, u) \/ Loading(c, u) # {} THEN c
    ELSE IF Cardinality(c.inst[v]) = MaxJobs
         THEN [c EXCEPT !.waiting[v][u] = @ + 1, !.todo[v] = Append(@, u)]
         ELSE NewJob(c, v, u, k)

\* What is left of asked when the views in vs are told of u
Told(a, vs, u) == [v \in View |-> IF v \in vs THEN a[v] \ {u} ELSE a[v]]

Waiters(c, u) == {v \in open : c.waiting[v][u] > 0}

\* Mutant: the instance's own list keeps the job.
UnlistedKept(c, j, file) ==
    LET u == c.job[j].url
    IN  [c EXCEPT !.file[u] = IF file = "none" THEN @ ELSE file,
                  !.waiting = [w \in View |-> IF w \in Waiters(c, u) THEN Less(@[w], u) ELSE @[w]],
                  !.static = @ \ {j}]

\* slotJobFinished up to the queue: the file there is now, the instances that
\* are told, the lists.
Unlisted(c, j, file) ==
    LET u == c.job[j].url
        v == c.job[j].owner
    IN  [c EXCEPT !.file[u] = IF file = "none" THEN @ ELSE file,
                  !.waiting = [w \in View |-> IF w \in Waiters(c, u) THEN Less(@[w], u) ELSE @[w]],
                  !.static = @ \ {j}, !.inst[v] = @ \ {j}]

\* slotJobFinished, and then the job is deleted.
Finished(c, a, j, file) ==
    LET u == c.job[j].url
        v == c.job[j].owner
        d == Unlisted(c, j, file)
        b == Told(a, Waiters(c, u), u)
        q == d.todo[v]
    IN  IF q = <<>> THEN cache' = [d EXCEPT !.job[j] = NoJob] /\ asked' = b
        ELSE \E k \in Free :
                /\ cache' = [Request([d EXCEPT !.todo[v] = Tail(q)], v, Head(q), k) EXCEPT !.job[j] = NoJob]
                /\ asked' = IF Cached(d, Head(q)) THEN Told(b, {v}, Head(q)) ELSE b
-----------------------------------------------------------------------------
\* The widget of v asks for u.
Ask(v, u) ==
    /\ v \in open /\ Len(cache.todo[v]) < MaxTodo /\ cache.waiting[v][u] < MaxWait
    /\ \E k \in Free : cache' = Request(cache, v, u, k)
    /\ asked' = [asked EXCEPT ![v] = IF Cached(cache, u) THEN @ \ {u} ELSE @ \cup {u}]
    /\ UNCHANGED <<open, enabled>>

\* cancel() of a job: of the file a part is there, or nothing.
KillJob(c, a, j) == \E file \in {"none", "part"} : Finished(c, a, j, file)

\* slotCancelURLRequest
Cancel(v, u) ==
    LET c == [cache EXCEPT !.waiting[v] = Less(@, u)]
        a == [asked EXCEPT ![v] = @ \ {u}]
    IN  /\ v \in open
        /\ \/ /\ Waiters(c, u) # {} \/ Loading(c, u) = {}
              /\ cache' = c /\ asked' = a
           \/ /\ Waiters(c, u) = {}
              /\ \E j \in Loading(c, u) : KillJob(c, a, j)
        /\ UNCHANGED <<open, enabled>>

\* A job has copied everything; an empty file does not count.
JobFinished(j) ==
    /\ j \in cache.static
    /\ \E file \in {"none", "full"} : Finished(cache, asked, j, file)
    /\ UNCHANGED <<open, enabled>>

\* Mutant: slotError only removes the job.
JobErrorSilent(j) ==
    /\ j \in cache.static
    /\ cache' = [cache EXCEPT !.static = @ \ {j}, !.inst[cache.job[j].owner] = @ \ {j}, !.job[j] = NoJob]
    /\ UNCHANGED <<open, enabled, asked>>

\* slotError: the job is forgotten.
JobError(j) ==
    /\ j \in cache.static /\ KillJob(cache, asked, j)
    /\ UNCHANGED <<open, enabled>>

\* stop(): the jobs are disconnected, so nobody is told.
Stopped(v) == [cache EXCEPT !.static = @ \ cache.inst[v], !.inst[v] = {},
                            !.job = [j \in Job |-> IF j \in cache.inst[v] THEN NoJob ELSE @[j]]]

\* KfmView::slotStop, after the widget has cancelled what it asked for
Stop(v) ==
    /\ v \in open
    /\ cache' = Stopped(v) /\ asked' = [asked EXCEPT ![v] = {}]
    /\ UNCHANGED <<open, enabled>>

\* The view is closed: slotStop, and the instance is deleted.
Close(v) ==
    /\ v \in open /\ open' = open \ {v}
    /\ cache' = [Stopped(v) EXCEPT !.todo[v] = <<>>, !.waiting[v] = NoWaiting]
    /\ asked' = [asked EXCEPT ![v] = {}]
    /\ UNCHANGED enabled

Open(v) ==
    /\ v \notin open /\ open' = open \cup {v}
    /\ UNCHANGED <<cache, enabled, asked>>

\* slotCheckinURL: a page that was loaded otherwise
Checkin(u) ==
    /\ open # {} /\ cache' = [cache EXCEPT !.file[u] = "full"]
    /\ UNCHANGED <<open, enabled, asked>>

\* clear(): every file that could be unlinked
Clear(us) ==
    /\ cache' = [cache EXCEPT !.file = [u \in Url |-> IF u \in us THEN "none" ELSE @[u]]]
    /\ UNCHANGED <<open, enabled, asked>>

EnableCache(b) ==
    /\ enabled' = b
    /\ UNCHANGED <<open, cache, asked>>
-----------------------------------------------------------------------------
Init ==
    /\ open = {} /\ enabled \in BOOLEAN /\ asked = [v \in View |-> {}]
    /\ cache = [file    |-> [u \in Url |-> "none"],
                static  |-> {},
                job     |-> [j \in Job |-> NoJob],
                inst    |-> [v \in View |-> {}],
                waiting |-> [v \in View |-> NoWaiting],
                todo    |-> [v \in View |-> <<>>]]

Next ==
    \/ \E v \in View, u \in Url : Ask(v, u) \/ Cancel(v, u)
    \/ \E v \in View : Open(v) \/ Stop(v) \/ Close(v)
    \/ \E j \in Job : JobFinished(j) \/ JobError(j)
    \/ \E u \in Url : Checkin(u)
    \/ \E us \in SUBSET Url : Clear(us)
    \/ \E b \in BOOLEAN : EnableCache(b)

Spec == Init /\ [][Next]_vars
-----------------------------------------------------------------------------
\* The types of a state of the lists
CacheType == [file : [Url -> {"none", "part", "full"}], static : SUBSET Job,
              job : [Job -> [url : Url, owner : View] \cup {NoJob}], inst : [View -> SUBSET Job],
              waiting : [View -> [Url -> Nat]], todo : [View -> Seq(Url)]]

\* Every list, counter and job has its type.
TypeOK ==
    /\ open \subseteq View /\ enabled \in BOOLEAN /\ asked \in [View -> SUBSET Url]
    /\ cache \in CacheType

\* Two instances never load the same URL at the same time (htmlcache.h:64).
LoadedOnce == \A i, j \in cache.static : cache.job[i].url = cache.job[j].url => i = j

\* The jobs of all lists exist and have not ended, an instance's own jobs are
\* those of the list of all jobs, "always a subset" (htmlcache.h:220-224), and
\* MAX_JOBS bounds them, whatever ends a job (htmlcache.cpp:134-190, 245-260).
ListsAgree ==
    /\ \A j \in Job : j \in cache.static <=> cache.job[j] # NoJob
    /\ \A v \in View : cache.inst[v] = {j \in cache.static : cache.job[j].owner = v}
    /\ \A v \in View : Cardinality(cache.inst[v]) <= MaxJobs

\* v is noted as waiting for u, and somebody is going to load it.
Coming(v, u) == Loading(cache, u) # {} \/ \E i \in DOMAIN cache.todo[v] : cache.todo[v][i] = u
Waits(v, u)  == v \in open /\ u \in asked[v] /\ cache.waiting[v][u] > 0

\* A view whose job loads u stops or is closed: stop() cancels its own jobs and
\* never looks for other views that wait for them (htmlcache.cpp:245-260), though
\* deleting an instance is to delete only the "jobs only needed by this instance"
\* (htmlcache.h:79-81).
JobStopped(u) == \E w \in View : (Stop(w) \/ Close(w)) /\ Loading(cache, u) \cap cache.inst[w] # {}

\* What a view noted as waiting waits for stays loaded by a job, or queued, until
\* the view is told of it or gives it up, whatever ends the jobs: cancels, errors,
\* other views' requests and their stops, but for a stop of the view whose job it
\* is (htmlcache.cpp:70-202).  That the queue is served is not claimed.
WaiterKept ==
    [][\A v \in View, u \in Url :
          Waits(v, u) /\ Coming(v, u) /\ ~JobStopped(u)
             => (Waits(v, u) /\ Coming(v, u))' \/ (u \notin asked'[v])]_vars

\* "If two instances of HTMLCache request the same URL and ine instance cancels
\* the request, then the job wont be canceled" (htmlcache.h:156-157).
SharedJobKept ==
    [][\A v, w \in View, u \in Url :
          Cancel(v, u) /\ v # w /\ u \in asked[w] => Loading(cache, u) \subseteq cache'.static]_vars

=============================================================================
