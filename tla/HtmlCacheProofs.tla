--------------------------- MODULE HtmlCacheProofs --------------------------
(* Proofs about kfm's cache: its lists agree, no URL is loaded twice and no  *)
(* waiting view is forgotten, for any views, URLs, jobs and limit.           *)
EXTENDS HtmlCache, FiniteSetTheorems, TLAPS

\* The lists of c, when the jobs in gone have left them and are still to be
\* deleted
Agrees(c, gone) ==
    /\ c \in CacheType
    /\ \A j \in Job : j \in c.static <=> c.job[j] # NoJob /\ j \notin gone
    /\ \A v \in View : c.inst[v] = {j \in c.static : c.job[j].owner = v}
    /\ \A v \in View : IsFiniteSet(c.inst[v]) /\ Cardinality(c.inst[v]) <= MaxJobs
    /\ \A i, j \in c.static : c.job[i].url = c.job[j].url => i = j

Inv == /\ open \subseteq View /\ enabled \in BOOLEAN /\ asked \in [View -> SUBSET Url]
       /\ Agrees(cache, {})
-----------------------------------------------------------------------------
LEMMA LessType == ASSUME NEW count \in [Url -> Nat], NEW u \in Url
                  PROVE  Less(count, u) \in [Url -> Nat]
  BY DEF Less

\* A job that is on no list has a record, and it is no longer one of NoJob.
LEMMA JobExists ==
  ASSUME NEW c, NEW gone, Agrees(c, gone), NEW j \in c.static
  PROVE  j \in Job /\ c.job[j] \in [url : Url, owner : View] /\ j \notin gone
  BY DEF Agrees, CacheType

LEMMA NewJobAgrees ==
  ASSUME NEW c, NEW gone, Agrees(c, gone), NEW v \in View, NEW u \in Url,
         NEW k \in Job, c.job[k] = NoJob, k \notin gone,
         Loading(c, u) = {}, Cardinality(c.inst[v]) # MaxJobs
  PROVE  Agrees(NewJob(c, v, u, k), gone)
<1> SUFFICES ASSUME NEW d, d = NewJob(c, v, u, k) PROVE Agrees(d, gone)
  OBVIOUS
<1> DEFINE r == [url |-> u, owner |-> v]
<1>0. c \in CacheType /\ r \in [url : Url, owner : View] /\ r # NoJob
  BY NoJobAssumption DEF Agrees
<1>1. /\ d.file = c.file /\ d.static = c.static \cup {k} /\ d.job = [c.job EXCEPT ![k] = r]
      /\ d.inst = [c.inst EXCEPT ![v] = c.inst[v] \cup {k}] /\ d.todo = c.todo
      /\ d.waiting = [c.waiting EXCEPT ![v] = [c.waiting[v] EXCEPT ![u] = c.waiting[v][u] + 1]]
  BY <1>0 DEF NewJob, CacheType
<1>2. d \in CacheType
  <2>1. d.waiting \in [View -> [Url -> Nat]]
    BY <1>0, <1>1 DEF CacheType
  <2>2. d.job \in [Job -> [url : Url, owner : View] \cup {NoJob}] /\ d.inst \in [View -> SUBSET Job]
    BY <1>0, <1>1 DEF CacheType
  <2>3. d = [c EXCEPT !.waiting = d.waiting, !.job = d.job, !.static = d.static, !.inst = d.inst]
    BY <1>1 DEF NewJob
  <2> QED BY <1>0, <1>1, <2>1, <2>2, <2>3 DEF CacheType
<1>3. k \notin c.static
  BY DEF Agrees
<1>4. \A j \in Job : j \in d.static <=> d.job[j] # NoJob /\ j \notin gone
  BY <1>0, <1>1 DEF Agrees, CacheType
<1>5. \A w \in View : d.inst[w] = {j \in d.static : d.job[j].owner = w}
  <2> SUFFICES ASSUME NEW w \in View PROVE d.inst[w] = {j \in d.static : d.job[j].owner = w}
    OBVIOUS
  <2>1. c.inst[w] = {j \in c.static : c.job[j].owner = w}
    BY DEF Agrees
  <2>2. \A j \in c.static : d.job[j] = c.job[j]
    BY <1>0, <1>1, <1>3 DEF CacheType
  <2>3. d.job[k].owner = v
    BY <1>0, <1>1 DEF CacheType
  <2> QED BY <1>0, <1>1, <2>1, <2>2, <2>3 DEF CacheType
<1>6. \A w \in View : IsFiniteSet(d.inst[w]) /\ Cardinality(d.inst[w]) <= MaxJobs
  <2> SUFFICES ASSUME NEW w \in View PROVE IsFiniteSet(d.inst[w]) /\ Cardinality(d.inst[w]) <= MaxJobs
    OBVIOUS
  <2>1. IsFiniteSet(c.inst[w]) /\ Cardinality(c.inst[w]) <= MaxJobs
    BY DEF Agrees
  <2>2. CASE w # v
    BY <1>0, <1>1, <2>1, <2>2 DEF CacheType
  <2>3. CASE w = v
    <3>1. d.inst[w] = c.inst[v] \cup {k} /\ k \notin c.inst[v]
      <4>1. d.inst[v] = c.inst[v] \cup {k}
        BY <1>0, <1>1 DEF CacheType
      <4>2. c.inst[v] \subseteq c.static
        BY DEF Agrees
      <4> QED BY <1>3, <2>3, <4>1, <4>2
    <3>2. IsFiniteSet(d.inst[w]) /\ Cardinality(d.inst[w]) = Cardinality(c.inst[v]) + 1
      <4>1. /\ IsFiniteSet(c.inst[v] \cup {k})
            /\ Cardinality(c.inst[v] \cup {k}) = Cardinality(c.inst[v]) + 1
        BY <2>1, <2>3, <3>1, FS_AddElement
      <4> QED BY <3>1, <4>1
    <3>3. Cardinality(c.inst[v]) \in Nat
      BY <2>1, <2>3, FS_CardinalityType
    <3> QED BY <2>1, <2>3, <3>2, <3>3, MaxJobsAssumption
  <2> QED BY <2>2, <2>3
<1>7. \A i, j \in d.static : d.job[i].url = d.job[j].url => i = j
  <2>1. \A j \in c.static : d.job[j] = c.job[j] /\ c.job[j].url # u
    BY <1>0, <1>1, <1>3 DEF CacheType, Loading
  <2>2. d.job[k].url = u
    BY <1>0, <1>1 DEF CacheType
  <2> QED BY <1>1, <2>1, <2>2 DEF Agrees
<1> QED BY <1>2, <1>4, <1>5, <1>6, <1>7 DEF Agrees

LEMMA RequestAgrees ==
  ASSUME NEW c, NEW gone, Agrees(c, gone), NEW v \in View, NEW u \in Url,
         NEW k \in Job, c.job[k] = NoJob, k \notin gone
  PROVE  Agrees(Request(c, v, u, k), gone)
<1>1. CASE Cached(c, u) \/ Loading(c, u) # {}
  BY <1>1 DEF Request
<1>2. CASE ~(Cached(c, u) \/ Loading(c, u) # {}) /\ Cardinality(c.inst[v]) # MaxJobs
  BY <1>2, NewJobAgrees DEF Request
<1>3. CASE ~(Cached(c, u) \/ Loading(c, u) # {}) /\ Cardinality(c.inst[v]) = MaxJobs
  <2> DEFINE d == [c EXCEPT !.waiting[v][u] = @ + 1, !.todo[v] = Append(@, u)]
  <2>1. Request(c, v, u, k) = d
    BY <1>3 DEF Request
  <2>2. c \in CacheType
    BY DEF Agrees
  <2>3. /\ d.static = c.static /\ d.job = c.job /\ d.inst = c.inst /\ d.file = c.file
        /\ d.waiting = [c.waiting EXCEPT ![v] = [c.waiting[v] EXCEPT ![u] = c.waiting[v][u] + 1]]
        /\ d.todo = [c.todo EXCEPT ![v] = Append(c.todo[v], u)]
    BY <2>2 DEF CacheType
  <2>4. d.waiting \in [View -> [Url -> Nat]] /\ d.todo \in [View -> Seq(Url)]
    BY <2>2, <2>3 DEF CacheType
  <2>5. d \in CacheType
    BY <2>2, <2>3, <2>4 DEF CacheType
  <2>6. Agrees(d, gone)
    BY <2>3, <2>5 DEF Agrees
  <2> QED BY <2>1, <2>6
<1> QED BY <1>1, <1>2, <1>3

\* slotJobFinished takes j from the lists.
LEMMA UnlistedAgrees ==
  ASSUME NEW c, Agrees(c, {}), NEW j \in c.static, NEW file \in {"none", "part", "full"}
  PROVE  Agrees(Unlisted(c, j, file), {j})
<1> SUFFICES ASSUME NEW d, d = Unlisted(c, j, file) PROVE Agrees(d, {j})
  OBVIOUS
<1> DEFINE u == c.job[j].url
           v == c.job[j].owner
<1>1. c \in CacheType /\ j \in Job /\ u \in Url /\ v \in View
  BY DEF Agrees, CacheType
<1>2. /\ d.file = [c.file EXCEPT ![u] = IF file = "none" THEN c.file[u] ELSE file]
      /\ d.static = c.static \ {j} /\ d.job = c.job /\ d.todo = c.todo
      /\ d.inst = [c.inst EXCEPT ![v] = c.inst[v] \ {j}]
      /\ d.waiting = [w \in View |-> IF w \in Waiters(c, u) THEN Less(c.waiting[w], u) ELSE c.waiting[w]]
  BY <1>1 DEF Unlisted, CacheType
<1>3. d \in CacheType
  <2>1. d.waiting \in [View -> [Url -> Nat]]
    <3> SUFFICES ASSUME NEW w \in View PROVE d.waiting[w] \in [Url -> Nat]
      BY <1>2
    <3>1. c.waiting[w] \in [Url -> Nat]
      BY <1>1 DEF CacheType
    <3> QED BY <1>1, <1>2, <3>1, LessType
  <2>2. d.file \in [Url -> {"none", "part", "full"}] /\ d.inst \in [View -> SUBSET Job]
    BY <1>1, <1>2 DEF CacheType
  <2> QED BY <1>1, <1>2, <2>1, <2>2 DEF CacheType, Unlisted
<1>4. \A w \in View : d.inst[w] = {i \in d.static : d.job[i].owner = w}
  <2> SUFFICES ASSUME NEW w \in View PROVE d.inst[w] = {i \in d.static : d.job[i].owner = w}
    OBVIOUS
  <2>1. c.inst[w] = {i \in c.static : c.job[i].owner = w}
    BY DEF Agrees
  <2>2. d.inst[w] = IF w = v THEN c.inst[w] \ {j} ELSE c.inst[w]
    BY <1>1, <1>2 DEF CacheType
  <2> QED BY <1>2, <2>1, <2>2
<1>5. \A w \in View : IsFiniteSet(d.inst[w]) /\ Cardinality(d.inst[w]) <= MaxJobs
  <2> SUFFICES ASSUME NEW w \in View PROVE IsFiniteSet(d.inst[w]) /\ Cardinality(d.inst[w]) <= MaxJobs
    OBVIOUS
  <2>1. IsFiniteSet(c.inst[w]) /\ Cardinality(c.inst[w]) <= MaxJobs
    BY DEF Agrees
  <2>2. d.inst[w] \subseteq c.inst[w]
    BY <1>1, <1>2 DEF CacheType
  <2>3. /\ IsFiniteSet(d.inst[w]) /\ Cardinality(d.inst[w]) \in Nat
        /\ Cardinality(d.inst[w]) <= Cardinality(c.inst[w]) /\ Cardinality(c.inst[w]) \in Nat
    BY <2>1, <2>2, FS_Subset, FS_CardinalityType
  <2> QED BY <2>1, <2>3, MaxJobsAssumption
<1>6. \A i \in Job : i \in d.static <=> d.job[i] # NoJob /\ i \notin {j}
  BY <1>2 DEF Agrees
<1>7. \A i, k \in d.static : d.job[i].url = d.job[k].url => i = k
  BY <1>2 DEF Agrees
<1> QED BY <1>3, <1>4, <1>5, <1>6, <1>7 DEF Agrees

\* The job that has left the lists is deleted.
LEMMA DeleteAgrees ==
  ASSUME NEW c, NEW j \in Job, Agrees(c, {j})
  PROVE  Agrees([c EXCEPT !.job[j] = NoJob], {})
<1> SUFFICES ASSUME NEW d, d = [c EXCEPT !.job[j] = NoJob] PROVE Agrees(d, {})
  OBVIOUS
<1>1. c \in CacheType /\ j \notin c.static
  BY DEF Agrees
<1>2. /\ d.job = [c.job EXCEPT ![j] = NoJob] /\ d.static = c.static /\ d.inst = c.inst
      /\ d.file = c.file /\ d.todo = c.todo /\ d.waiting = c.waiting
  BY <1>1 DEF CacheType
<1>3. d.job \in [Job -> [url : Url, owner : View] \cup {NoJob}]
  BY <1>1, <1>2 DEF CacheType
<1>4. d \in CacheType
  BY <1>1, <1>2, <1>3 DEF CacheType
<1>5. \A i \in d.static : d.job[i] = c.job[i]
  BY <1>1, <1>2 DEF CacheType
<1>6. \A i \in Job : i \in d.static <=> d.job[i] # NoJob /\ i \notin {}
  BY <1>1, <1>2 DEF Agrees, CacheType
<1>7. \A w \in View : d.inst[w] = {i \in d.static : d.job[i].owner = w}
  BY <1>2, <1>5 DEF Agrees
<1>8. \A i, k \in d.static : d.job[i].url = d.job[k].url => i = k
  BY <1>2, <1>5 DEF Agrees
<1>9. \A w \in View : IsFiniteSet(d.inst[w]) /\ Cardinality(d.inst[w]) <= MaxJobs
  BY <1>2 DEF Agrees
<1> QED BY <1>4, <1>6, <1>7, <1>8, <1>9 DEF Agrees

\* Only the counters of waiting, the queue or the files change.
LEMMA SameLists ==
  ASSUME NEW c, NEW d, NEW gone, Agrees(c, gone), d \in CacheType,
         d.static = c.static, d.job = c.job, d.inst = c.inst
  PROVE  Agrees(d, gone)
  BY DEF Agrees

LEMMA ToldType ==
  ASSUME NEW a \in [View -> SUBSET Url], NEW vs, NEW u
  PROVE  Told(a, vs, u) \in [View -> SUBSET Url]
  BY DEF Told

\* slotJobFinished, with the next URL of the queue
LEMMA FinishedAgrees ==
  ASSUME NEW c, Agrees(c, {}), c.job = cache.job, NEW a \in [View -> SUBSET Url],
         NEW j \in c.static, NEW file \in {"none", "part", "full"}, Finished(c, a, j, file)
  PROVE  Agrees(cache', {}) /\ asked' \in [View -> SUBSET Url]
<1> DEFINE u == c.job[j].url
           v == c.job[j].owner
           d == Unlisted(c, j, file)
           b == Told(a, Waiters(c, u), u)
           q == d.todo[v]
<1>1. c \in CacheType /\ j \in Job /\ u \in Url /\ v \in View /\ c.job[j] # NoJob
  BY DEF Agrees, CacheType
<1>2. Agrees(d, {j}) /\ d.job = c.job /\ d \in CacheType
  <2>1. Agrees(d, {j})
    BY UnlistedAgrees
  <2>2. d.job = c.job
    BY <1>1 DEF Unlisted, CacheType
  <2> QED BY <2>1, <2>2 DEF Agrees
<1>3. b \in [View -> SUBSET Url]
  BY ToldType
<1>4. CASE q = <<>>
  <2>1. cache' = [d EXCEPT !.job[j] = NoJob] /\ asked' = b
    BY <1>4 DEF Finished
  <2> QED BY <1>1, <1>2, <1>3, <2>1, DeleteAgrees
<1>5. CASE q # <<>>
  <2> DEFINE e == [d EXCEPT !.todo[v] = Tail(q)]
  <2>1. PICK k \in Free :
           /\ cache' = [Request(e, v, Head(q), k) EXCEPT !.job[j] = NoJob]
           /\ asked' = IF Cached(d, Head(q)) THEN Told(b, {v}, Head(q)) ELSE b
    BY <1>5 DEF Finished
  <2>2. q \in Seq(Url) /\ Head(q) \in Url /\ Tail(q) \in Seq(Url)
    BY <1>1, <1>2, <1>5 DEF CacheType
  <2>3. /\ e.static = d.static /\ e.job = d.job /\ e.inst = d.inst /\ e.file = d.file
        /\ e.waiting = d.waiting /\ e.todo = [d.todo EXCEPT ![v] = Tail(q)] /\ e \in CacheType
    <3>1. [d.todo EXCEPT ![v] = Tail(q)] \in [View -> Seq(Url)]
      BY <1>1, <1>2, <2>2 DEF CacheType
    <3> QED BY <1>1, <1>2, <3>1 DEF CacheType
  <2>4. Agrees(e, {j})
    BY <1>2, <2>3, SameLists
  <2>5. k \in Job /\ e.job[k] = NoJob /\ k \notin {j}
    BY <1>1, <1>2, <2>3 DEF Free
  <2>6. Agrees(Request(e, v, Head(q), k), {j})
    BY <1>1, <2>2, <2>4, <2>5, RequestAgrees
  <2>7. Agrees(cache', {})
    BY <1>1, <2>1, <2>6, DeleteAgrees
  <2>8. asked' \in [View -> SUBSET Url]
    BY <1>3, <2>1, ToldType
  <2> QED BY <2>7, <2>8
<1> QED BY <1>4, <1>5

LEMMA KillAgrees ==
  ASSUME NEW c, Agrees(c, {}), c.job = cache.job, NEW a \in [View -> SUBSET Url],
         NEW j \in c.static, KillJob(c, a, j)
  PROVE  Agrees(cache', {}) /\ asked' \in [View -> SUBSET Url]
  BY FinishedAgrees DEF KillJob

\* stop()
LEMMA StoppedAgrees ==
  ASSUME Agrees(cache, {}), NEW v \in View
  PROVE  Agrees(Stopped(v), {})
<1> SUFFICES ASSUME NEW d, d = Stopped(v) PROVE Agrees(d, {})
  OBVIOUS
<1>1. cache \in CacheType
  BY DEF Agrees
<1>2. /\ d.static = cache.static \ cache.inst[v] /\ d.inst = [cache.inst EXCEPT ![v] = {}]
      /\ d.job = [j \in Job |-> IF j \in cache.inst[v] THEN NoJob ELSE cache.job[j]]
      /\ d.file = cache.file /\ d.todo = cache.todo /\ d.waiting = cache.waiting
  BY <1>1 DEF Stopped, CacheType
<1>3. d \in CacheType
  <2>1. d.inst \in [View -> SUBSET Job]
    BY <1>1, <1>2 DEF CacheType
  <2>2. d.job \in [Job -> [url : Url, owner : View] \cup {NoJob}]
    BY <1>1, <1>2 DEF CacheType
  <2> QED BY <1>1, <1>2, <2>1, <2>2 DEF CacheType, Stopped
<1>4. \A j \in d.static : j \in cache.static /\ j \in Job /\ d.job[j] = cache.job[j]
  BY <1>1, <1>2 DEF CacheType
<1>5. \A j \in Job : j \in d.static <=> d.job[j] # NoJob /\ j \notin {}
  BY <1>2 DEF Agrees
<1>6. \A w \in View : d.inst[w] = {j \in d.static : d.job[j].owner = w}
  <2> SUFFICES ASSUME NEW w \in View PROVE d.inst[w] = {j \in d.static : d.job[j].owner = w}
    OBVIOUS
  <2>1. /\ cache.inst[w] = {j \in cache.static : cache.job[j].owner = w}
        /\ cache.inst[v] = {j \in cache.static : cache.job[j].owner = v}
    BY DEF Agrees
  <2>2. d.inst[w] = IF w = v THEN {} ELSE cache.inst[w]
    BY <1>1, <1>2 DEF CacheType
  <2> QED BY <1>2, <1>4, <2>1, <2>2
<1>7. \A w \in View : IsFiniteSet(d.inst[w]) /\ Cardinality(d.inst[w]) <= MaxJobs
  <2>1. \A w \in View : d.inst[w] = {} \/ d.inst[w] = cache.inst[w]
    BY <1>1, <1>2 DEF CacheType
  <2>2. IsFiniteSet({}) /\ Cardinality({}) <= MaxJobs
    BY FS_EmptySet, MaxJobsAssumption
  <2> QED BY <2>1, <2>2 DEF Agrees
<1>8. \A i, j \in d.static : d.job[i].url = d.job[j].url => i = j
  BY <1>4 DEF Agrees
<1> QED BY <1>3, <1>5, <1>6, <1>7, <1>8 DEF Agrees
-----------------------------------------------------------------------------
LEMMA InitInv == Init => Inv
<1> SUFFICES ASSUME Init PROVE Inv
  OBVIOUS
<1>1. cache \in CacheType
  BY DEF Init, CacheType, NoWaiting
<1>2. IsFiniteSet({}) /\ Cardinality({}) <= MaxJobs
  BY FS_EmptySet, MaxJobsAssumption
<1> QED BY <1>1, <1>2 DEF Init, Inv, Agrees

LEMMA NextInv == Inv /\ [Next]_vars => Inv'
<1> SUFFICES ASSUME Inv, [Next]_vars PROVE Inv'
  OBVIOUS
<1> DEFINE Others == open \subseteq View /\ enabled \in BOOLEAN /\ asked \in [View -> SUBSET Url]
<1>1. cache \in CacheType /\ Agrees(cache, {}) /\ Others
  BY DEF Inv, Agrees
<1> SUFFICES Agrees(cache', {}) /\ Others'
  BY DEF Inv, Agrees, CacheType
<1>2. ASSUME NEW v \in View, NEW u \in Url, Ask(v, u) PROVE Agrees(cache', {}) /\ Others'
  <2>1. PICK k \in Free : cache' = Request(cache, v, u, k)
    BY <1>2 DEF Ask
  <2>2. Agrees(cache', {})
    BY <1>1, <2>1, RequestAgrees DEF Free
  <2> QED BY <1>1, <1>2, <2>2 DEF Ask
<1>3. ASSUME NEW v \in View, NEW u \in Url, Cancel(v, u) PROVE Agrees(cache', {}) /\ Others'
  <2> DEFINE c == [cache EXCEPT !.waiting[v] = Less(cache.waiting[v], u)]
             a == [asked EXCEPT ![v] = asked[v] \ {u}]
  <2>1. /\ c \in CacheType /\ c.static = cache.static /\ c.job = cache.job /\ c.inst = cache.inst
    <3>1. Less(cache.waiting[v], u) \in [Url -> Nat]
      BY <1>1, LessType DEF CacheType
    <3> QED BY <1>1, <3>1 DEF CacheType
  <2>2. Agrees(c, {}) /\ a \in [View -> SUBSET Url]
    BY <1>1, <2>1, SameLists
  <2>3. CASE cache' = c /\ asked' = a
    BY <1>1, <1>3, <2>2, <2>3 DEF Cancel
  <2>4. ASSUME NEW j \in Loading(c, u), KillJob(c, a, j) PROVE Agrees(cache', {}) /\ Others'
    <3>1. j \in c.static
      BY DEF Loading
    <3> QED BY <1>1, <1>3, <2>1, <2>2, <2>4, <3>1, KillAgrees DEF Cancel
  <2> QED BY <1>3, <2>3, <2>4 DEF Cancel
<1>4. ASSUME NEW v \in View, Open(v) PROVE Agrees(cache', {}) /\ Others'
  BY <1>1, <1>4 DEF Open
<1>5. ASSUME NEW v \in View, Stop(v) PROVE Agrees(cache', {}) /\ Others'
  BY <1>1, <1>5, StoppedAgrees DEF Stop
<1>6. ASSUME NEW v \in View, Close(v) PROVE Agrees(cache', {}) /\ Others'
  <2> DEFINE c == Stopped(v)
  <2>1. Agrees(c, {}) /\ c \in CacheType
    BY <1>1, StoppedAgrees DEF Agrees
  <2>2. cache' = [c EXCEPT !.todo[v] = <<>>, !.waiting[v] = NoWaiting]
    BY <1>6 DEF Close
  <2>3. NoWaiting \in [Url -> Nat]
    BY DEF NoWaiting
  <2> HIDE DEF c
  <2>4. /\ cache' \in CacheType /\ cache'.static = c.static /\ cache'.job = c.job
        /\ cache'.inst = c.inst
    <3>1. /\ [c.todo EXCEPT ![v] = <<>>] \in [View -> Seq(Url)]
          /\ [c.waiting EXCEPT ![v] = NoWaiting] \in [View -> [Url -> Nat]]
      BY <2>1, <2>3 DEF CacheType
    <3>2. cache' = [c EXCEPT !.todo = [c.todo EXCEPT ![v] = <<>>],
                             !.waiting = [c.waiting EXCEPT ![v] = NoWaiting]]
      BY <2>2
    <3> QED BY <2>1, <3>1, <3>2 DEF CacheType
  <2>5. Agrees(cache', {})
    BY <2>1, <2>4, SameLists
  <2> QED BY <1>1, <1>6, <2>5 DEF Close
<1>7. ASSUME NEW j \in Job, JobFinished(j) PROVE Agrees(cache', {}) /\ Others'
  BY <1>1, <1>7, FinishedAgrees DEF JobFinished
<1>8. ASSUME NEW j \in Job, JobError(j) PROVE Agrees(cache', {}) /\ Others'
  BY <1>1, <1>8, KillAgrees DEF JobError
<1>9. ASSUME NEW u \in Url, Checkin(u) PROVE Agrees(cache', {}) /\ Others'
  <2>1. /\ cache' \in CacheType /\ cache'.static = cache.static /\ cache'.job = cache.job
        /\ cache'.inst = cache.inst
    BY <1>1, <1>9 DEF Checkin, CacheType
  <2> QED BY <1>1, <1>9, <2>1, SameLists DEF Checkin
<1>10. ASSUME NEW us \in SUBSET Url, Clear(us) PROVE Agrees(cache', {}) /\ Others'
  <2> DEFINE f == [u \in Url |-> IF u \in us THEN "none" ELSE cache.file[u]]
  <2>0. cache' = [cache EXCEPT !.file = f] /\ f \in [Url -> {"none", "part", "full"}]
    BY <1>1, <1>10 DEF Clear, CacheType
  <2> HIDE DEF f
  <2>1. /\ cache' \in CacheType /\ cache'.static = cache.static /\ cache'.job = cache.job
        /\ cache'.inst = cache.inst
    BY <1>1, <2>0 DEF CacheType
  <2> QED BY <1>1, <1>10, <2>1, SameLists DEF Clear
<1>11. ASSUME NEW b \in BOOLEAN, EnableCache(b) PROVE Agrees(cache', {}) /\ Others'
  BY <1>1, <1>11 DEF EnableCache
<1>12. CASE UNCHANGED vars
  BY <1>1, <1>12 DEF vars
<1> QED BY <1>2, <1>3, <1>4, <1>5, <1>6, <1>7, <1>8, <1>9, <1>10, <1>11, <1>12 DEF Next

\* The lists agree with each other, and no URL has two jobs, in every state:
\* what the theorems below read off (htmlcache.cpp:70-202).
THEOREM Invariant == Spec => []Inv
<1>1. Init => Inv
  BY InitInv
<1>2. Inv /\ [Next]_vars => Inv'
  BY NextInv
<1> QED BY <1>1, <1>2, PTL DEF Spec

\* Every list, counter and job of the cache keeps its type, for any views,
\* URLs and limits.
THEOREM CacheTypeCorrect == Spec => []TypeOK
<1>1. Inv => TypeOK
  BY DEF Inv, Agrees, TypeOK
<1> QED BY <1>1, Invariant, PTL

\* No URL is loaded by two jobs at a time, whatever views ask for and however
\* jobs end (htmlcache.cpp:70-190).
THEOREM NeverTwice == Spec => []LoadedOnce
<1>1. Inv => LoadedOnce
  BY DEF Inv, Agrees, LoadedOnce
<1> QED BY <1>1, Invariant, PTL

\* The lists of jobs agree and never hold a job that has ended, and no view
\* ever has more than MAX_JOBS of them.
THEOREM ListsAlwaysAgree == Spec => []ListsAgree
<1>1. Inv => ListsAgree
  BY DEF Inv, Agrees, ListsAgree
<1> QED BY <1>1, Invariant, PTL
-----------------------------------------------------------------------------
(* A view that waits is not forgotten *)

\* v is noted as waiting for u in c, and somebody is going to load it.
Wanted(c, v, u) ==
    /\ c.waiting[v][u] > 0
    /\ Loading(c, u) # {} \/ \E i \in DOMAIN c.todo[v] : c.todo[v][i] = u

\* d has no fewer jobs, notes and queued URLs than c.
Grows(c, d) ==
    /\ \A j \in c.static : j \in d.static /\ d.job[j].url = c.job[j].url
    /\ \A v \in View, u \in Url : d.waiting[v][u] >= c.waiting[v][u]
    /\ \A v \in View : d.todo[v] = c.todo[v] \/ \E x \in Url : d.todo[v] = Append(c.todo[v], x)

LEMMA Appended ==
  ASSUME NEW q \in Seq(Url), NEW x \in Url
  PROVE  /\ \A i \in DOMAIN q : i \in DOMAIN Append(q, x) /\ Append(q, x)[i] = q[i]
         /\ \E i \in DOMAIN Append(q, x) : Append(q, x)[i] = x
<1>1. DOMAIN q = 1 .. Len(q) /\ DOMAIN Append(q, x) = 1 .. Len(q) + 1 /\ Len(q) \in Nat
  OBVIOUS
<1>2. Append(q, x)[Len(q) + 1] = x /\ \A i \in 1 .. Len(q) : Append(q, x)[i] = q[i]
  OBVIOUS
<1>3. Len(q) + 1 \in DOMAIN Append(q, x)
  BY <1>1
<1> QED BY <1>1, <1>2, <1>3

LEMMA GrowsWanted ==
  ASSUME NEW c, NEW d, c \in CacheType, d \in CacheType, Grows(c, d),
         NEW v \in View, NEW u \in Url, Wanted(c, v, u)
  PROVE  Wanted(d, v, u)
<1>1. d.waiting[v][u] > 0
  <2>1. c.waiting[v][u] \in Nat /\ d.waiting[v][u] \in Nat
    BY DEF CacheType
  <2> QED BY <2>1 DEF Grows, Wanted
<1>2. Loading(c, u) # {} => Loading(d, u) # {}
  BY DEF Loading, Grows
<1>3. ASSUME NEW i \in DOMAIN c.todo[v], c.todo[v][i] = u
      PROVE  \E k \in DOMAIN d.todo[v] : d.todo[v][k] = u
  <2>1. c.todo[v] \in Seq(Url)
    BY DEF CacheType
  <2> QED BY <1>3, <2>1, Appended DEF Grows
<1> QED BY <1>1, <1>2, <1>3 DEF Wanted

\* A request only adds, and what it is for is coming then.
LEMMA RequestGrows ==
  ASSUME NEW c, NEW gone, Agrees(c, gone), NEW v \in View, NEW u \in Url,
         NEW k \in Job, c.job[k] = NoJob
  PROVE  /\ Grows(c, Request(c, v, u, k))
         /\ \/ Cached(c, u) \/ Loading(Request(c, v, u, k), u) # {}
            \/ Request(c, v, u, k).todo[v] = Append(c.todo[v], u)
<1> DEFINE d == Request(c, v, u, k)
<1>1. c \in CacheType /\ k \notin c.static
  BY DEF Agrees
<1>2. CASE Cached(c, u) \/ Loading(c, u) # {}
  <2>1. d = c
    BY <1>2 DEF Request
  <2> HIDE DEF d
  <2>2. Grows(c, d)
    BY <1>1, <2>1 DEF Grows, CacheType
  <2> QED BY <1>2, <2>1, <2>2 DEF d
<1>3. CASE ~(Cached(c, u) \/ Loading(c, u) # {}) /\ Cardinality(c.inst[v]) = MaxJobs
  <2>1. d = [c EXCEPT !.waiting[v][u] = @ + 1, !.todo[v] = Append(@, u)]
    BY <1>3 DEF Request
  <2>2. /\ d.static = c.static /\ d.job = c.job
        /\ d.waiting = [c.waiting EXCEPT ![v] = [c.waiting[v] EXCEPT ![u] = c.waiting[v][u] + 1]]
        /\ d.todo = [c.todo EXCEPT ![v] = Append(c.todo[v], u)]
    BY <1>1, <2>1 DEF CacheType
  <2> HIDE DEF d
  <2>3. d.todo[v] = Append(c.todo[v], u) /\ \A w \in View \ {v} : d.todo[w] = c.todo[w]
    BY <1>1, <2>2 DEF CacheType
  <2>4. \A w \in View, x \in Url : d.waiting[w][x] >= c.waiting[w][x]
    BY <1>1, <2>2 DEF CacheType
  <2>5. Grows(c, d)
    BY <2>2, <2>3, <2>4 DEF Grows
  <2> QED BY <2>3, <2>5 DEF d
<1>4. CASE ~(Cached(c, u) \/ Loading(c, u) # {}) /\ Cardinality(c.inst[v]) # MaxJobs
  <2> DEFINE r == [url |-> u, owner |-> v]
  <2>1. d = NewJob(c, v, u, k)
    BY <1>4 DEF Request
  <2>2. /\ d.static = c.static \cup {k} /\ d.job = [c.job EXCEPT ![k] = r] /\ d.todo = c.todo
        /\ d.waiting = [c.waiting EXCEPT ![v] = [c.waiting[v] EXCEPT ![u] = c.waiting[v][u] + 1]]
    BY <1>1, <2>1 DEF NewJob, CacheType
  <2> HIDE DEF d
  <2>3. k \in Loading(d, u)
    BY <1>1, <2>2 DEF Loading, CacheType
  <2>4. Grows(c, d)
    <3>1. \A j \in c.static : j \in d.static /\ d.job[j].url = c.job[j].url
      BY <1>1, <2>2 DEF CacheType
    <3>2. \A w \in View, x \in Url : d.waiting[w][x] >= c.waiting[w][x]
      BY <1>1, <2>2 DEF CacheType
    <3>3. \A w \in View : d.todo[w] = c.todo[w]
      BY <2>2
    <3> QED BY <3>1, <3>2, <3>3 DEF Grows
  <2> QED BY <2>3, <2>4 DEF d
<1> QED BY <1>2, <1>3, <1>4

\* The end of a job for another URL, and the URL it takes from the queue
LEMMA FinishedWanted ==
  ASSUME NEW c, Agrees(c, {}), c.job = cache.job, NEW a \in [View -> SUBSET Url],
         NEW j \in c.static, NEW file \in {"none", "part", "full"}, Finished(c, a, j, file),
         NEW v \in View, NEW u \in Url, c.job[j].url # u, Wanted(c, v, u), u \in asked'[v]
  PROVE  Wanted(cache', v, u)
<1> DEFINE x == c.job[j].url
           w == c.job[j].owner
           d == Unlisted(c, j, file)
           b == Told(a, Waiters(c, x), x)
           q == d.todo[w]
<1>1. c \in CacheType /\ j \in Job /\ x \in Url /\ w \in View /\ x # u /\ c.job[j] # NoJob
  BY DEF Agrees, CacheType
<1>2. /\ Agrees(d, {j}) /\ d \in CacheType /\ d.job = c.job /\ d.todo = c.todo
      /\ d.static = c.static \ {j}
      /\ d.waiting = [y \in View |-> IF y \in Waiters(c, x) THEN Less(c.waiting[y], x)
                                     ELSE c.waiting[y]]
  <2>1. Agrees(d, {j}) /\ d \in CacheType
    BY UnlistedAgrees DEF Agrees
  <2> QED BY <1>1, <2>1 DEF Unlisted, CacheType
<1>3. d.waiting[v][u] = c.waiting[v][u]
  <2>1. c.waiting[v] \in [Url -> Nat]
    BY <1>1 DEF CacheType
  <2>2. Less(c.waiting[v], x)[u] = c.waiting[v][u]
    BY <1>1, <2>1 DEF Less
  <2> QED BY <1>2, <2>2
<1>4. Loading(d, u) = Loading(c, u)
  BY <1>1, <1>2 DEF Loading
<1>5. Wanted(d, v, u)
  BY <1>2, <1>3, <1>4 DEF Wanted
<1>6. ASSUME NEW e, Agrees(e, {j}), Wanted(e, v, u), cache' = [e EXCEPT !.job[j] = NoJob]
      PROVE  Wanted(cache', v, u)
  <2>1. e \in CacheType /\ j \notin e.static
    BY <1>1, <1>6 DEF Agrees
  <2>2. /\ cache'.job = [e.job EXCEPT ![j] = NoJob] /\ cache'.static = e.static
        /\ cache'.todo = e.todo /\ cache'.waiting = e.waiting
    BY <1>6, <2>1 DEF CacheType
  <2>3. \A i \in e.static : cache'.job[i] = e.job[i]
    BY <2>1, <2>2 DEF CacheType
  <2>4. Loading(cache', u) = Loading(e, u)
    BY <2>2, <2>3 DEF Loading
  <2> QED BY <1>6, <2>2, <2>4 DEF Wanted
<1>7. CASE q = <<>>
  <2>1. cache' = [d EXCEPT !.job[j] = NoJob]
    BY <1>7 DEF Finished
  <2> QED BY <1>2, <1>5, <1>6, <2>1
<1>8. CASE q # <<>>
  <2> DEFINE e == [d EXCEPT !.todo[w] = Tail(q)]
  <2>1. PICK k \in Free :
           /\ cache' = [Request(e, w, Head(q), k) EXCEPT !.job[j] = NoJob]
           /\ asked' = IF Cached(d, Head(q)) THEN Told(b, {w}, Head(q)) ELSE b
    BY <1>8 DEF Finished
  <2>2. q \in Seq(Url) /\ Head(q) \in Url /\ Tail(q) \in Seq(Url)
    BY <1>1, <1>2, <1>8 DEF CacheType
  <2>3. /\ e.static = d.static /\ e.job = d.job /\ e.inst = d.inst /\ e.file = d.file
        /\ e.waiting = d.waiting /\ e.todo = [d.todo EXCEPT ![w] = Tail(q)] /\ e \in CacheType
    <3>1. [d.todo EXCEPT ![w] = Tail(q)] \in [View -> Seq(Url)]
      BY <1>1, <1>2, <2>2 DEF CacheType
    <3> QED BY <1>1, <1>2, <3>1 DEF CacheType
  <2>4. Agrees(e, {j})
    BY <1>2, <2>3, SameLists
  <2>5. k \in Job /\ e.job[k] = NoJob /\ k \notin {j}
    BY <1>1, <1>2, <2>3 DEF Free
  <2> DEFINE h == Head(q)
             r == Request(e, w, h, k)
  <2>6. Cached(e, Head(q)) <=> Cached(d, Head(q))
    BY <2>3 DEF Cached
  <2>7. w \in View /\ h \in Url
    BY <1>1, <2>2
  <2> HIDE DEF e, d, b, h, w
  <2>8. Agrees(r, {j}) /\ r \in CacheType
    <3>1. Agrees(r, {j})
      BY <2>4, <2>5, <2>7, RequestAgrees
    <3> QED BY <3>1 DEF Agrees
  <2>9. Grows(e, r) /\ (Cached(e, h) \/ Loading(r, h) # {} \/ r.todo[w] = Append(e.todo[w], h))
    BY <2>4, <2>5, <2>7, RequestGrows
  <2> HIDE DEF r
  <2> USE DEF h
  <2>10. CASE w # v \/ Head(q) # u
    <3>1. \A i \in DOMAIN d.todo[v] : d.todo[v][i] = u =>
             \E n \in DOMAIN e.todo[v] : e.todo[v][n] = u
      <4> SUFFICES ASSUME NEW i \in DOMAIN d.todo[v], d.todo[v][i] = u
                   PROVE  \E n \in DOMAIN e.todo[v] : e.todo[v][n] = u
        OBVIOUS
      <4>1. CASE w # v
        <5>1. e.todo[v] = d.todo[v]
          BY <1>2, <2>3, <4>1 DEF CacheType
        <5> QED BY <5>1
      <4>2. CASE w = v
        <5>1. e.todo[v] = Tail(q) /\ d.todo[v] = q
          BY <1>1, <1>2, <2>3, <4>2 DEF CacheType
        <5>2. i \in 2 .. Len(q)
          BY <2>2, <2>10, <4>2, <5>1
        <5>3. i - 1 \in DOMAIN Tail(q) /\ Tail(q)[i - 1] = u
          BY <2>2, <5>1, <5>2
        <5> QED BY <5>1, <5>3
      <4> QED BY <4>1, <4>2
    <3>2. Loading(e, u) = Loading(d, u) /\ e.waiting[v][u] > 0
      BY <1>5, <2>3 DEF Loading, Wanted
    <3>3. Wanted(e, v, u)
      BY <1>5, <3>1, <3>2 DEF Wanted
    <3>4. Wanted(r, v, u)
      BY <2>3, <2>8, <2>9, <3>3, GrowsWanted
    <3> QED BY <1>6, <2>1, <2>8, <3>4 DEF r
  <2>11. CASE w = v /\ Head(q) = u
    <3>1. ~Cached(d, u)
      <4>1. b \in [View -> SUBSET Url]
        BY ToldType DEF b
      <4> QED BY <2>1, <2>11, <4>1 DEF Told
    <3>2. r.waiting[v][u] > 0
      <4>1. r.waiting[v][u] >= e.waiting[v][u]
        BY <2>9 DEF Grows
      <4>2. e.waiting[v][u] \in Nat /\ r.waiting[v][u] \in Nat /\ e.waiting[v][u] > 0
        BY <1>5, <2>3, <2>8 DEF CacheType, Wanted
      <4> QED BY <4>1, <4>2
    <3>3. Loading(r, u) # {} \/ \E i \in DOMAIN r.todo[v] : r.todo[v][i] = u
      <4>1. e.todo[v] \in Seq(Url)
        BY <2>3 DEF CacheType
      <4> QED BY <2>9, <2>6, <2>11, <3>1, <4>1, Appended
    <3>4. Wanted(r, v, u)
      BY <3>2, <3>3 DEF Wanted
    <3> QED BY <1>6, <2>1, <2>8, <3>4 DEF r
  <2> QED BY <2>10, <2>11
<1> QED BY <1>7, <1>8

LEMMA KillWanted ==
  ASSUME NEW c, Agrees(c, {}), c.job = cache.job, NEW a \in [View -> SUBSET Url],
         NEW j \in c.static, KillJob(c, a, j),
         NEW v \in View, NEW u \in Url, c.job[j].url # u, Wanted(c, v, u), u \in asked'[v]
  PROVE  Wanted(cache', v, u)
  BY FinishedWanted DEF KillJob

\* What has been told is not asked for any more.
LEMMA FinishedTold ==
  ASSUME NEW c, NEW a \in [View -> SUBSET Url], NEW j, NEW file, Finished(c, a, j, file),
         NEW v \in View, NEW u \in Url,
         u \notin a[v] \/ (u = c.job[j].url /\ v \in Waiters(c, u))
  PROVE  u \notin asked'[v]
<1> DEFINE x == c.job[j].url
           d == Unlisted(c, j, file)
           b == Told(a, Waiters(c, x), x)
           w == c.job[j].owner
           h == Head(d.todo[w])
<1>1. u \notin b[v]
  BY DEF Told
<1>2. asked' = b \/ asked' = Told(b, {w}, h)
  BY DEF Finished
<1> HIDE DEF b, w, h
<1>3. Told(b, {w}, h)[v] \in {b[v], b[v] \ {h}}
  BY DEF Told
<1> QED BY <1>1, <1>2, <1>3

\* The stop of a view whose jobs load other URLs
LEMMA StoppedWanted ==
  ASSUME Agrees(cache, {}), NEW w \in View, NEW v \in View, NEW u \in Url, Wanted(cache, v, u),
         Loading(cache, u) \cap cache.inst[w] = {}
  PROVE  Wanted(Stopped(w), v, u)
<1> SUFFICES ASSUME NEW d, d = Stopped(w) PROVE Wanted(d, v, u)
  OBVIOUS
<1>1. /\ d.static = cache.static \ cache.inst[w]
      /\ d.job = [j \in Job |-> IF j \in cache.inst[w] THEN NoJob ELSE cache.job[j]]
      /\ d.todo = cache.todo /\ d.waiting = cache.waiting
  BY DEF Stopped, Agrees, CacheType
<1>2. Loading(cache, u) \subseteq Loading(d, u)
  <2> SUFFICES ASSUME NEW j \in Loading(cache, u) PROVE j \in Loading(d, u)
    OBVIOUS
  <2>1. j \in cache.static /\ cache.job[j].url = u /\ j \notin cache.inst[w]
    BY DEF Loading
  <2>2. j \in Job
    BY <2>1 DEF Agrees, CacheType
  <2> QED BY <1>1, <2>1, <2>2 DEF Loading
<1> QED BY <1>1, <1>2 DEF Wanted

LEMMA WaiterStep ==
  ASSUME Inv, Next, NEW v \in View, NEW u \in Url, Waits(v, u), Coming(v, u), ~JobStopped(u)
  PROVE  (v \in open' /\ Wanted(cache', v, u)) \/ u \notin asked'[v]
<1> SUFFICES ASSUME u \in asked'[v] PROVE v \in open' /\ Wanted(cache', v, u)
  OBVIOUS
<1>1. /\ Agrees(cache, {}) /\ cache \in CacheType /\ asked \in [View -> SUBSET Url]
      /\ v \in open /\ u \in asked[v] /\ Wanted(cache, v, u)
  BY DEF Inv, Agrees, Waits, Coming, Wanted
<1>2. ASSUME NEW w \in View, NEW x \in Url, Ask(w, x)
      PROVE  v \in open' /\ Wanted(cache', v, u)
  <2>1. PICK k \in Free : cache' = Request(cache, w, x, k)
    BY <1>2 DEF Ask
  <2>2. k \in Job /\ cache.job[k] = NoJob /\ k \notin {}
    BY DEF Free
  <2>3. Grows(cache, cache') /\ cache' \in CacheType
    <3>1. Grows(cache, Request(cache, w, x, k))
      BY <1>1, <2>2, RequestGrows
    <3>2. Agrees(Request(cache, w, x, k), {})
      BY <1>1, <2>2, RequestAgrees
    <3> QED BY <2>1, <3>1, <3>2 DEF Agrees
  <2> QED BY <1>1, <1>2, <2>3, GrowsWanted DEF Ask
<1>3. ASSUME NEW w \in View, NEW x \in Url, Cancel(w, x)
      PROVE  v \in open' /\ Wanted(cache', v, u)
  <2> DEFINE c == [cache EXCEPT !.waiting[w] = Less(cache.waiting[w], x)]
             a == [asked EXCEPT ![w] = asked[w] \ {x}]
  <2>1. /\ c \in CacheType /\ c.static = cache.static /\ c.job = cache.job
        /\ c.inst = cache.inst /\ c.todo = cache.todo
        /\ c.waiting = [cache.waiting EXCEPT ![w] = Less(cache.waiting[w], x)]
    <3>1. Less(cache.waiting[w], x) \in [Url -> Nat]
      BY <1>1, LessType DEF CacheType
    <3> QED BY <1>1, <3>1 DEF CacheType
  <2>2. /\ open' = open
        /\ \/ cache' = c /\ asked' = a
           \/ Waiters(c, x) = {} /\ \E j \in Loading(c, x) : KillJob(c, a, j)
    BY <1>3 DEF Cancel
  <2>3. a \in [View -> SUBSET Url] /\ (w = v /\ x = u => u \notin a[v])
    BY <1>1
  <2> HIDE DEF c, a
  <2>4. Agrees(c, {})
    BY <1>1, <2>1, SameLists
  <2>5. ~(w = v /\ x = u)
    <3>1. ASSUME NEW j, KillJob(c, a, j), u \notin a[v] PROVE u \notin asked'[v]
      BY <2>3, <3>1, FinishedTold DEF KillJob
    <3> QED BY <2>2, <2>3, <3>1
  <2>6. c.waiting[v][u] = cache.waiting[v][u]
    <3>1. cache.waiting \in [View -> [Url -> Nat]]
      BY <1>1 DEF CacheType
    <3>2. x # u => Less(cache.waiting[w], x)[u] = cache.waiting[w][u]
      BY <3>1 DEF Less
    <3> QED BY <2>1, <2>5, <3>1, <3>2
  <2>7. Loading(c, u) = Loading(cache, u)
    BY <2>1 DEF Loading
  <2>8. Wanted(c, v, u)
    BY <1>1, <2>1, <2>6, <2>7 DEF Wanted
  <2>9. ASSUME NEW j \in Loading(c, x), KillJob(c, a, j), Waiters(c, x) = {}
        PROVE  Wanted(cache', v, u)
    <3>1. x # u
      BY <1>1, <2>8, <2>9 DEF Waiters, Wanted
    <3>2. j \in c.static /\ c.job[j].url # u
      BY <3>1 DEF Loading
    <3> QED BY <2>1, <2>3, <2>4, <2>8, <2>9, <3>2, KillWanted
  <2> QED BY <1>1, <2>2, <2>8, <2>9
<1>4. ASSUME NEW j \in cache.static, NEW file \in {"none", "part", "full"},
             Finished(cache, asked, j, file)
      PROVE  Wanted(cache', v, u)
  <2>1. cache.job[j].url # u
    BY <1>1, <1>4, FinishedTold DEF Waiters, Wanted
  <2> QED BY <1>1, <1>4, <2>1, FinishedWanted
<1>5. ASSUME NEW j \in Job, JobFinished(j) \/ JobError(j)
      PROVE  v \in open' /\ Wanted(cache', v, u)
  BY <1>1, <1>4, <1>5 DEF JobFinished, JobError, KillJob
<1>6. ASSUME NEW w \in View, Open(w) PROVE v \in open' /\ Wanted(cache', v, u)
  BY <1>1, <1>6 DEF Open
<1>7. ASSUME cache'.static = cache.static, cache'.job = cache.job, cache'.todo = cache.todo,
             cache'.waiting = cache.waiting, open' = open
      PROVE  v \in open' /\ Wanted(cache', v, u)
  BY <1>1, <1>7 DEF Wanted, Loading
<1>8. ASSUME NEW x \in Url, Checkin(x) PROVE v \in open' /\ Wanted(cache', v, u)
  BY <1>1, <1>7, <1>8 DEF Checkin, CacheType
<1>9. ASSUME NEW us \in SUBSET Url, Clear(us) PROVE v \in open' /\ Wanted(cache', v, u)
  BY <1>1, <1>7, <1>9 DEF Clear, CacheType
<1>10. ASSUME NEW e \in BOOLEAN, EnableCache(e) PROVE v \in open' /\ Wanted(cache', v, u)
  BY <1>7, <1>10 DEF EnableCache
<1>11. ASSUME NEW w \in View, Stop(w) PROVE v \in open' /\ Wanted(cache', v, u)
  BY <1>1, <1>11, StoppedWanted DEF Stop, JobStopped
<1>12. ASSUME NEW w \in View, Close(w) PROVE v \in open' /\ Wanted(cache', v, u)
  <2>1. w # v
    BY <1>1, <1>12 DEF Close
  <2>2. Wanted(Stopped(w), v, u)
    BY <1>1, <1>12, StoppedWanted DEF JobStopped
  <2> DEFINE s == Stopped(w)
  <2>3. s \in CacheType
    BY <1>1, StoppedAgrees DEF Agrees
  <2>4. v \in open' /\ cache' = [s EXCEPT !.todo[w] = <<>>, !.waiting[w] = NoWaiting]
    BY <1>1, <1>12, <2>1 DEF Close
  <2> HIDE DEF s
  <2>5. /\ cache'.static = s.static /\ cache'.job = s.job
        /\ cache'.todo[v] = s.todo[v] /\ cache'.waiting[v] = s.waiting[v]
    BY <2>1, <2>3, <2>4 DEF CacheType
  <2> QED BY <2>2, <2>4, <2>5 DEF Wanted, Loading, s
<1> QED BY <1>2, <1>3, <1>5, <1>6, <1>8, <1>9, <1>10, <1>11, <1>12 DEF Next

\* What a view is noted to wait for stays loaded or queued until the view is told
\* of it or gives it up: no job that ends or is cancelled, no request of another
\* view and no stop of one makes it be forgotten, except the stop of the view whose
\* job loads it, for any views, URLs and limits (htmlcache.cpp:70-202, 245-260).
THEOREM WaitersKept == Spec => WaiterKept
<1>1. Inv /\ [Next]_vars =>
        [\A v \in View, u \in Url :
            Waits(v, u) /\ Coming(v, u) /\ ~JobStopped(u)
               => (Waits(v, u) /\ Coming(v, u))' \/ (u \notin asked'[v])]_vars
  <2> SUFFICES ASSUME Inv, Next, NEW v \in View, NEW u \in Url, Waits(v, u), Coming(v, u),
                      ~JobStopped(u)
               PROVE  (Waits(v, u) /\ Coming(v, u))' \/ (u \notin asked'[v])
    OBVIOUS
  <2>1. (v \in open' /\ Wanted(cache', v, u)) \/ u \notin asked'[v]
    BY WaiterStep
  <2> QED BY <2>1 DEF Wanted, Waits, Coming
<1> QED BY <1>1, Invariant, PTL DEF Spec, WaiterKept
=============================================================================
