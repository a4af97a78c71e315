---------------------------- MODULE KioPoolProofs ---------------------------
(***************************************************************************)
(* Proofs about kfm's I/O server: for any jobs, slaves, numbers of files   *)
(* and faults, a slave serves one job at a time, every job ends once, and  *)
(* for a job that waits a slave is on its way.                             *)
(***************************************************************************)
EXTENDS KioPool, SequenceTheorems, FiniteSetTheorems, TLAPS

PoolType == [free : SUBSET Slave, waiting : Seq(Job), job : [Job -> JobRecord],
             slave : [Slave -> SlaveRecord]]

\* A job has a slave in these states only, it waits with a request to make,
\* shows dialogs while it has a slave or after it was deleted, and has not
\* ended before it says so.
Serving3 == {"asked", "busy", "cleaning"}

JobOK(r) ==
    /\ r.slave # NoSlave <=> r.st \in Serving3
    /\ r.st \in {"waiting", "asked"} => r.left > 0
    /\ r.st \in {"new", "waiting", "asked"} => r.on = 0
    /\ r.dialog > 0 => r.st \in Serving3 \cup {"wild"}
    /\ r.told <= 1 /\ (r.told = 1 => r.st \in {"done", "wild"})

\* The job j alone has the slave s, when the jobs in gone are not looked at.
Holds(p, gone, j, s) ==
    /\ s \in Slave \ p.free /\ p.slave[s].st \in {"up", "dead"}
    /\ \A k \in Job \ (gone \cup {j}) : p.job[k].slave # s

InWaiting(p) == {p.waiting[i] : i \in 1 .. Len(p.waiting)}
Forked(p) == {s \in Slave : p.slave[s].st \in {"starting", "unborn"}}

\* The lists and objects of p agree, when the jobs in gone have left the list
\* and are going to forget their slaves.
Lists(p, gone) ==
    /\ p \in PoolType
    /\ \A j \in Job \ gone : /\ JobOK(p.job[j])
                             /\ p.job[j].slave # NoSlave => Holds(p, gone, j, p.job[j].slave)
    /\ \A s \in p.free : p.slave[s].st \in {"up", "dead"}
    /\ \A i \in 1 .. Len(p.waiting) :
          /\ p.waiting[i] \notin gone /\ p.job[p.waiting[i]].st = "waiting"
          /\ \A k \in 1 .. Len(p.waiting) : p.waiting[i] = p.waiting[k] => i = k
    /\ IsFiniteSet(Forked(p))

\* A slave is on its way for every job in the list.
Agrees(p, gone) == Lists(p, gone) /\ Len(p.waiting) <= Cardinality(Forked(p))

Inv == Agrees(pool, {})
-----------------------------------------------------------------------------
LEMMA RemoveFirstAbsent ==
  ASSUME NEW S, NEW s \in Seq(S), NEW e, \A i \in 1 .. Len(s) : s[i] # e
  PROVE  RemoveFirst(s, e) = s
  BY DEF RemoveFirst

LEMMA RemoveFirstOnce ==
  ASSUME NEW S, NEW s \in Seq(S), NEW n \in 1 .. Len(s),
         \A i \in 1 .. Len(s) : s[i] = s[n] => i = n
  PROVE  /\ RemoveFirst(s, s[n]) \in Seq(S)
         /\ Len(RemoveFirst(s, s[n])) = Len(s) - 1
         /\ \A i \in 1 .. Len(s) - 1 :
               RemoveFirst(s, s[n])[i] = IF i < n THEN s[i] ELSE s[i + 1]
<1>1. SelectInSeq(s, LAMBDA v : v = s[n]) = n
  <2>1. {i \in 1 .. Len(s) : s[i] = s[n]} = {n}
    OBVIOUS
  <2>2. Min({n}) = n
    BY DEF Min
  <2> QED
    BY <2>1, <2>2 DEF SelectInSeq
<1>2. RemoveFirst(s, s[n]) = SubSeq(s, 1, n - 1) \o SubSeq(s, n + 1, Len(s))
  BY <1>1 DEF RemoveFirst, RemoveAt
<1>3. /\ SubSeq(s, 1, n - 1) \in Seq(S) /\ SubSeq(s, n + 1, Len(s)) \in Seq(S)
      /\ Len(SubSeq(s, 1, n - 1)) = n - 1 /\ Len(SubSeq(s, n + 1, Len(s))) = Len(s) - n
      /\ \A i \in 1 .. n - 1 : SubSeq(s, 1, n - 1)[i] = s[i]
      /\ \A i \in 1 .. Len(s) - n : SubSeq(s, n + 1, Len(s))[i] = s[n + i]
  OBVIOUS
<1> DEFINE a == SubSeq(s, 1, n - 1)
           b == SubSeq(s, n + 1, Len(s))
<1> HIDE DEF a, b
<1>4. a \in Seq(S) /\ b \in Seq(S) /\ Len(a) = n - 1 /\ Len(b) = Len(s) - n
  BY <1>3 DEF a, b
<1>5. /\ a \o b \in Seq(S) /\ Len(a \o b) = Len(s) - 1
      /\ \A i \in 1 .. Len(s) - 1 : (a \o b)[i] = IF i < n THEN a[i] ELSE b[i - n + 1]
  <2>1. /\ a \o b \in Seq(S) /\ Len(a \o b) = Len(a) + Len(b)
        /\ \A i \in 1 .. Len(a) + Len(b) : (a \o b)[i] = IF i <= Len(a) THEN a[i] ELSE b[i - Len(a)]
    BY <1>4, ConcatProperties
  <2>2. Len(s) \in Nat
    OBVIOUS
  <2> QED
    BY <1>4, <2>1, <2>2
<1>6. ASSUME NEW i \in 1 .. Len(s) - 1
      PROVE  (a \o b)[i] = IF i < n THEN s[i] ELSE s[i + 1]
  <2>1. CASE i < n
    BY <1>3, <1>5, <2>1 DEF a
  <2>2. CASE ~(i < n)
    <3>1. i - n + 1 \in 1 .. Len(s) - n /\ n + (i - n + 1) = i + 1
      BY <2>2
    <3> QED
      BY <1>3, <1>5, <2>2, <3>1 DEF b
  <2> QED
    BY <2>1, <2>2
<1> QED
  BY <1>2, <1>5, <1>6 DEF a, b
-----------------------------------------------------------------------------
(* What the calls do to the fields of a pool *)

Sent(x, op, j) == [x EXCEPT !.inbox = Append(@, Msg(op, j))]
ToSlave == {"getPID", "work", "cleanUp"}
Lent(r, s)     == [r EXCEPT !.st = "asked", !.slave = s]

LEMMA SentType ==
  ASSUME NEW x \in SlaveRecord, NEW j \in Job, NEW op \in ToSlave
  PROVE  /\ Sent(x, op, j) \in SlaveRecord /\ Sent(x, op, j).st = x.st
         /\ Sent(x, op, j).outbox = x.outbox
         /\ Sent(x, op, j).inbox = Append(x.inbox, Msg(op, j))
<1>1. Msg(op, j) \in Message
  BY DEF Msg, Message, ToSlave
<1>2. x.inbox \in Seq(Message)
  BY DEF SlaveRecord
<1>3. Append(x.inbox, Msg(op, j)) \in Seq(Message)
  BY <1>1, <1>2, AppendProperties
<1> QED
  BY <1>3 DEF SlaveRecord, Sent

LEMMA LentType ==
  ASSUME NEW r \in JobRecord, NEW s \in Slave
  PROVE  /\ Lent(r, s) \in JobRecord /\ Lent(r, s).st = "asked" /\ Lent(r, s).slave = s
         /\ Lent(r, s).left = r.left /\ Lent(r, s).on = r.on /\ Lent(r, s).dialog = r.dialog
         /\ Lent(r, s).told = r.told /\ Lent(r, s).error = r.error
  BY DEF Lent, JobRecord, JobState

LEMMA SendEffect ==
  ASSUME NEW p \in PoolType, NEW j \in Job, NEW op \in ToSlave,
         NEW s \in Slave, p.job[j].slave = s, NEW q, q = Send(p, j, op)
  PROVE  /\ q \in PoolType /\ q.free = p.free /\ q.waiting = p.waiting /\ q.job = p.job
         /\ q.slave[s] = Sent(p.slave[s], op, j)
         /\ \A x \in Slave \ {s} : q.slave[x] = p.slave[x]
<1>1. q = [p EXCEPT !.slave = [p.slave EXCEPT ![s] = Sent(p.slave[s], op, j)]]
  BY DEF Send, Sent
<1>2. p.slave[s] \in SlaveRecord
  BY DEF PoolType
<1>3. [p.slave EXCEPT ![s] = Sent(p.slave[s], op, j)] \in [Slave -> SlaveRecord]
  BY <1>2, SentType DEF PoolType
<1> QED
  BY <1>1, <1>3 DEF PoolType

\* A job's record changes.
LEMMA JobEffect ==
  ASSUME NEW p \in PoolType, NEW j \in Job, NEW r \in JobRecord
  PROVE  LET q == [p EXCEPT !.job[j] = r]
         IN  /\ q \in PoolType /\ q.free = p.free /\ q.waiting = p.waiting /\ q.slave = p.slave
             /\ q.job = [p.job EXCEPT ![j] = r]
<1>1. [p.job EXCEPT ![j] = r] \in [Job -> JobRecord]
  BY DEF PoolType
<1> QED
  BY <1>1 DEF PoolType

LEMMA PoolFacts ==
  ASSUME NEW p \in PoolType
  PROVE  /\ \A k \in Job : p.job[k] \in JobRecord /\ p.job[k].slave \in Slave \cup {NoSlave}
         /\ \A s \in Slave : p.slave[s] \in SlaveRecord
<1>1. \A k \in Job : p.job[k] \in JobRecord
  BY DEF PoolType
<1>2. \A s \in Slave : p.slave[s] \in SlaveRecord
  BY DEF PoolType
<1> QED
  BY <1>1, <1>2 DEF JobRecord

LEMMA DoItEffect ==
  ASSUME NEW p \in PoolType, NEW j \in Job, NEW s \in Slave, NEW q, q = DoIt(p, j, s)
  PROVE  /\ q \in PoolType /\ q.free = p.free /\ q.waiting = p.waiting
         /\ q.job = [p.job EXCEPT ![j] = Lent(p.job[j], s)]
         /\ q.slave[s] = Sent(p.slave[s], "getPID", j)
         /\ \A x \in Slave \ {s} : q.slave[x] = p.slave[x]
<1> DEFINE r == Lent(p.job[j], s)
           d == [p EXCEPT !.job[j] = r]
<1>1. p.job[j] \in JobRecord
  BY DEF PoolType
<1>2. r \in JobRecord /\ r.slave = s
  BY <1>1, LentType
<1>3. q = Send(d, j, "getPID")
  <2>1. [p EXCEPT !.job[j].st = "asked", !.job[j].slave = s] = d
    BY DEF PoolType, Lent
  <2> QED
    BY <2>1 DEF DoIt
<1> HIDE DEF r
<1>4. /\ d \in PoolType /\ d.free = p.free /\ d.waiting = p.waiting /\ d.slave = p.slave
      /\ d.job = [p.job EXCEPT ![j] = r]
  BY <1>2, JobEffect
<1> HIDE DEF d
<1>5. d.job[j].slave = s
  BY <1>2, <1>4 DEF PoolType
<1>6. /\ q \in PoolType /\ q.free = d.free /\ q.waiting = d.waiting /\ q.job = d.job
      /\ q.slave[s] = Sent(d.slave[s], "getPID", j)
      /\ \A x \in Slave \ {s} : q.slave[x] = d.slave[x]
  <2>1. "getPID" \in ToSlave
    BY DEF ToSlave
  <2>3. d \in PoolType
    BY <1>4
  <2>4. q \in PoolType
    BY <1>3, <1>5, <2>1, <2>3, SendEffect
  <2>5. q.slave[s] = Sent(d.slave[s], "getPID", j)
    BY <1>3, <1>5, <2>1, <2>3, SendEffect
  <2>6. \A x \in Slave \ {s} : q.slave[x] = d.slave[x]
    BY <1>3, <1>5, <2>1, <2>3, SendEffect
  <2>7. q.job = d.job
    BY <1>3, <1>5, <2>1, <2>3, SendEffect
  <2>8. q.free = d.free /\ q.waiting = d.waiting
    BY <1>3, <1>5, <2>1, <2>3, SendEffect
  <2> QED
    BY <2>4, <2>5, <2>6, <2>7, <2>8
<1> QED
  BY <1>4, <1>6 DEF r
-----------------------------------------------------------------------------
(* What keeps the lists in agreement *)

\* Jobs keep their slaves, and slaves their place.
SamePlace(p, q) ==
    \A s \in Slave :
       /\ q.slave[s].st \in {"starting", "unborn"} <=> p.slave[s].st \in {"starting", "unborn"}
       /\ p.slave[s].st \in {"up", "dead"} => q.slave[s].st \in {"up", "dead"}
SameSlave(p, q, gone) ==
    \A j \in Job \ gone : /\ q.job[j].slave = p.job[j].slave /\ JobOK(q.job[j])
                          /\ p.job[j].st = "waiting" => q.job[j].st = "waiting"

LEMMA FieldsAgree ==
  ASSUME NEW p, NEW gone, Agrees(p, gone), NEW q, q \in PoolType,
         q.free = p.free, q.waiting = p.waiting, SamePlace(p, q), SameSlave(p, q, gone)
  PROVE  Agrees(q, gone)
<1>0. /\ \A s \in Slave :
           /\ q.slave[s].st \in {"starting", "unborn"} <=> p.slave[s].st \in {"starting", "unborn"}
           /\ p.slave[s].st \in {"up", "dead"} => q.slave[s].st \in {"up", "dead"}
      /\ \A j \in Job \ gone : /\ q.job[j].slave = p.job[j].slave /\ JobOK(q.job[j])
                               /\ p.job[j].st = "waiting" => q.job[j].st = "waiting"
  BY DEF SamePlace, SameSlave
<1>1. p \in PoolType /\ p.free \subseteq Slave /\ p.waiting \in Seq(Job)
  BY DEF Agrees, Lists, PoolType
<1>2. Forked(q) = Forked(p)
  BY <1>0 DEF Forked
<1>3. ASSUME NEW j \in Job \ gone, q.job[j].slave # NoSlave
      PROVE  Holds(q, gone, j, q.job[j].slave)
  BY <1>0, <1>3 DEF Agrees, Lists, Holds
<1>4. \A s \in q.free : q.slave[s].st \in {"up", "dead"}
  BY <1>0, <1>1 DEF Agrees, Lists, PoolType
<1>5. \A i \in 1 .. Len(p.waiting) : p.waiting[i] \in Job
  BY <1>1
<1>6. \A i \in 1 .. Len(q.waiting) :
          /\ q.waiting[i] \notin gone /\ q.job[q.waiting[i]].st = "waiting"
          /\ \A k \in 1 .. Len(q.waiting) : q.waiting[i] = q.waiting[k] => i = k
  BY <1>0, <1>5 DEF Agrees, Lists
<1> QED
  BY <1>0, <1>2, <1>3, <1>4, <1>6 DEF Agrees, Lists

\* The job j, which is not in the list, gets the slave s, which nobody has.
LEMMA DoItAgrees ==
  ASSUME NEW p, NEW gone, Agrees(p, gone), NEW j \in Job \ gone, NEW s \in Slave \ p.free,
         p.job[j].st \in {"new", "waiting"}, p.job[j].left > 0, j \notin InWaiting(p),
         p.slave[s].st \in {"up", "dead"}, \A k \in Job \ gone : p.job[k].slave # s
  PROVE  Agrees(DoIt(p, j, s), gone)
<1> DEFINE q == DoIt(p, j, s)
<1>0. p \in PoolType /\ p.free \subseteq Slave /\ p.waiting \in Seq(Job) /\ j \in Job /\ s \in Slave
      /\ NoSlave \notin Slave
  BY SlavesAssumption DEF Agrees, Lists, PoolType
<1>1. /\ q \in PoolType /\ q.free = p.free /\ q.waiting = p.waiting
      /\ q.job = [p.job EXCEPT ![j] = Lent(p.job[j], s)]
      /\ q.slave[s] = Sent(p.slave[s], "getPID", j)
      /\ \A x \in Slave \ {s} : q.slave[x] = p.slave[x]
  BY <1>0, DoItEffect
<1> HIDE DEF q
<1>2. \A k \in Job \ {j} : q.job[k] = p.job[k]
  BY <1>0, <1>1 DEF PoolType
<1>3. /\ q.job[j].st = "asked" /\ q.job[j].slave = s /\ q.job[j].left = p.job[j].left
      /\ q.job[j].on = p.job[j].on /\ q.job[j].dialog = p.job[j].dialog
      /\ q.job[j].told = p.job[j].told
  BY <1>0, <1>1, LentType DEF PoolType
<1>4. \A x \in Slave : q.slave[x].st = p.slave[x].st
  <2>1. "getPID" \in ToSlave
    BY DEF ToSlave
  <2>2. p.slave[s] \in SlaveRecord
    BY <1>0 DEF PoolType
  <2>3. q.slave[s].st = p.slave[s].st
    BY <1>0, <1>1, <2>1, <2>2, SentType
  <2> QED
    BY <1>1, <2>3
<1>5. Forked(q) = Forked(p)
  BY <1>4 DEF Forked
<1>6. JobOK(p.job[j])
  BY <1>0 DEF Agrees, Lists
<1>7. JobOK(q.job[j])
  BY <1>0, <1>3, <1>6 DEF JobOK, Serving3
<1>8. ASSUME NEW k \in Job \ gone
      PROVE  JobOK(q.job[k]) /\ (q.job[k].slave # NoSlave => Holds(q, gone, k, q.job[k].slave))
  <2>1. CASE k = j
    BY <1>0, <1>1, <1>2, <1>3, <1>4, <1>7, <2>1 DEF Holds
  <2>2. CASE k # j
    <3>1. q.job[k] = p.job[k] /\ JobOK(p.job[k])
      BY <1>2, <2>2 DEF Agrees, Lists
    <3>2. ASSUME p.job[k].slave # NoSlave PROVE Holds(q, gone, k, p.job[k].slave)
      <4>1. Holds(p, gone, k, p.job[k].slave)
        BY <3>2 DEF Agrees, Lists
      <4> QED
        BY <1>1, <1>2, <1>3, <1>4, <2>2, <4>1 DEF Holds
    <3> QED
      BY <3>1, <3>2
  <2> QED
    BY <2>1, <2>2
<1>9. \A x \in q.free : q.slave[x].st \in {"up", "dead"}
  BY <1>0, <1>1, <1>4 DEF Agrees, Lists
<1>10. \A i \in 1 .. Len(q.waiting) :
          /\ q.waiting[i] \notin gone /\ q.job[q.waiting[i]].st = "waiting"
          /\ \A k \in 1 .. Len(q.waiting) : q.waiting[i] = q.waiting[k] => i = k
  <2>1. \A i \in 1 .. Len(p.waiting) : p.waiting[i] \in Job \ {j}
    BY <1>0 DEF InWaiting
  <2> QED
    BY <1>1, <1>2, <2>1 DEF Agrees, Lists
<1>11. Agrees(q, gone)
  BY <1>1, <1>5, <1>8, <1>9, <1>10 DEF Agrees, Lists
<1> QED
  BY <1>11 DEF q

\* A slave nobody has, and whose process is there, is handed back or new.
LEMMA FreeSlaveAgrees ==
  ASSUME NEW p, NEW gone, Lists(p, gone), NEW s \in Slave \ p.free,
         p.waiting = <<>> \/ Len(p.waiting) <= Cardinality(Forked(p)) + 1,
         p.slave[s].st \in {"up", "dead"}, \A k \in Job \ gone : p.job[k].slave # s
  PROVE  Agrees(FreeSlave(p, s), gone)
<1>0. p \in PoolType /\ p.free \subseteq Slave /\ p.waiting \in Seq(Job) /\ s \in Slave
      /\ NoSlave \notin Slave
  BY SlavesAssumption DEF Agrees, Lists, PoolType
<1>1. CASE p.waiting = <<>>
  <2> DEFINE q == [p EXCEPT !.free = p.free \cup {s}]
  <2>1. /\ q \in PoolType /\ q.free = p.free \cup {s} /\ q.waiting = p.waiting
        /\ q.job = p.job /\ q.slave = p.slave
    BY <1>0 DEF PoolType
  <2>2. FreeSlave(p, s) = q
    BY <1>1 DEF FreeSlave
  <2> HIDE DEF q
  <2>3. Forked(q) = Forked(p)
    BY <2>1 DEF Forked
  <2>4. ASSUME NEW k \in Job \ gone, q.job[k].slave # NoSlave
        PROVE  Holds(q, gone, k, q.job[k].slave)
    <3>1. Holds(p, gone, k, p.job[k].slave) /\ p.job[k].slave # s
      BY <2>1, <2>4 DEF Agrees, Lists
    <3> QED
      BY <2>1, <3>1 DEF Holds
  <2>5. Len(q.waiting) <= Cardinality(Forked(q))
    <3>1. Cardinality(Forked(p)) \in Nat
      BY FS_CardinalityType DEF Lists
    <3> QED
      BY <1>1, <2>1, <2>3, <3>1
  <2>6. Agrees(q, gone)
    BY <2>1, <2>3, <2>4, <2>5 DEF Agrees, Lists
  <2> QED
    BY <2>2, <2>6
<1>2. CASE p.waiting # <<>>
  <2> DEFINE q == [p EXCEPT !.waiting = Tail(p.waiting)]
             w == p.waiting
  <2>1. /\ Tail(w) \in Seq(Job) /\ Len(Tail(w)) = Len(w) - 1 /\ Head(w) = w[1] /\ Head(w) \in Job
        /\ \A i \in 1 .. Len(w) - 1 : Tail(w)[i] = w[i + 1]
        /\ Len(w) \in Nat \ {0}
    BY <1>0, <1>2, HeadTailProperties
  <2>2. /\ q \in PoolType /\ q.free = p.free /\ q.waiting = Tail(w)
        /\ q.job = p.job /\ q.slave = p.slave
    BY <1>0, <2>1 DEF PoolType
  <2>3. FreeSlave(p, s) = DoIt(q, Head(w), s)
    BY <1>2 DEF FreeSlave
  <2> HIDE DEF q
  <2>4. Forked(q) = Forked(p)
    BY <2>2 DEF Forked
  <2>5. \A i \in 1 .. Len(w) :
          /\ w[i] \notin gone /\ p.job[w[i]].st = "waiting"
          /\ \A k \in 1 .. Len(w) : w[i] = w[k] => i = k
    BY DEF Agrees, Lists
  <2>6. \A i \in 1 .. Len(w) - 1 : i + 1 \in 1 .. Len(w) /\ i \in Int
    BY <2>1
  <2>7. \A i \in 1 .. Len(q.waiting) :
          /\ q.waiting[i] \notin gone /\ q.job[q.waiting[i]].st = "waiting"
          /\ \A k \in 1 .. Len(q.waiting) : q.waiting[i] = q.waiting[k] => i = k
    <3>1. ASSUME NEW i \in 1 .. Len(w) - 1, NEW k \in 1 .. Len(w) - 1, w[i + 1] = w[k + 1]
          PROVE  i = k
      <4>1. i + 1 = k + 1
        BY <2>5, <2>6, <3>1
      <4> QED
        BY <2>6, <4>1
    <3> QED
      BY <2>1, <2>2, <2>5, <2>6, <3>1
  <2>8. Len(q.waiting) <= Cardinality(Forked(q)) /\ IsFiniteSet(Forked(q))
    <3>1. Cardinality(Forked(p)) \in Nat /\ IsFiniteSet(Forked(p))
      BY FS_CardinalityType DEF Lists
    <3> QED
      BY <1>2, <2>1, <2>2, <2>4, <3>1
  <2>9. Agrees(q, gone)
    <3>1. \A j \in Job \ gone : /\ JobOK(q.job[j])
                             /\ q.job[j].slave # NoSlave => Holds(q, gone, j, q.job[j].slave)
      BY <2>2 DEF Agrees, Lists, Holds
    <3>2. \A x \in q.free : q.slave[x].st \in {"up", "dead"}
      BY <2>2 DEF Agrees, Lists
    <3> QED
      BY <2>2, <2>7, <2>8, <3>1, <3>2 DEF Agrees, Lists
  <2>10. Head(w) \in Job \ gone /\ p.job[Head(w)].st = "waiting" /\ Head(w) \notin InWaiting(q)
    <3>1. 1 \in 1 .. Len(w)
      BY <2>1
    <3>2. ASSUME NEW i \in 1 .. Len(w) - 1 PROVE w[i + 1] # w[1]
      BY <2>5, <2>6, <3>1
    <3> QED
      BY <2>1, <2>2, <2>5, <3>1, <3>2 DEF InWaiting
  <2>11. p.job[Head(w)].left > 0
    BY <2>10 DEF Agrees, Lists, JobOK
  <2>12. Agrees(DoIt(q, Head(w), s), gone)
    BY <2>2, <2>9, <2>10, <2>11, DoItAgrees
  <2> QED
    BY <2>3, <2>12
<1> QED
  BY <1>1, <1>2

\* A job that is not in the list keeps its record, and the slaves their state.
LEMMA FreeSlaveEffect ==
  ASSUME NEW p \in PoolType, NEW s \in Slave
  PROVE  /\ FreeSlave(p, s) \in PoolType
         /\ \A j \in Job : j \notin InWaiting(p) => FreeSlave(p, s).job[j] = p.job[j]
         /\ \A x \in Slave : FreeSlave(p, s).slave[x].st = p.slave[x].st
         /\ \A j \in Job : j \notin InWaiting(p) => j \notin InWaiting(FreeSlave(p, s))
<1>1. CASE p.waiting = <<>>
  <2> DEFINE q == [p EXCEPT !.free = p.free \cup {s}]
  <2>1. q \in PoolType /\ q.waiting = p.waiting /\ q.job = p.job /\ q.slave = p.slave
    BY DEF PoolType
  <2>2. FreeSlave(p, s) = q
    BY <1>1 DEF FreeSlave
  <2> HIDE DEF q
  <2> QED
    BY <2>1, <2>2 DEF InWaiting
<1>2. CASE p.waiting # <<>>
  <2> DEFINE w == p.waiting
             q == [p EXCEPT !.waiting = Tail(w)]
             h == Head(w)
             r == DoIt(q, h, s)
  <2>1. /\ Tail(w) \in Seq(Job) /\ Len(Tail(w)) = Len(w) - 1 /\ h = w[1] /\ h \in Job
        /\ \A i \in 1 .. Len(w) - 1 : Tail(w)[i] = w[i + 1]
        /\ Len(w) \in Nat \ {0}
    BY <1>2, HeadTailProperties DEF PoolType
  <2>2. q \in PoolType /\ q.waiting = Tail(w) /\ q.job = p.job /\ q.slave = p.slave
    BY <2>1 DEF PoolType
  <2>3. FreeSlave(p, s) = r
    BY <1>2 DEF FreeSlave
  <2>4. h \in InWaiting(p)
    BY <2>1 DEF InWaiting
  <2> HIDE DEF q, h
  <2>5. /\ r \in PoolType /\ r.waiting = q.waiting
        /\ r.job = [q.job EXCEPT ![h] = Lent(q.job[h], s)]
        /\ r.slave[s] = Sent(q.slave[s], "getPID", h)
        /\ \A x \in Slave \ {s} : r.slave[x] = q.slave[x]
    BY <2>1, <2>2, DoItEffect
  <2>6. r.slave[s].st = q.slave[s].st
    <3>1. "getPID" \in ToSlave /\ q.slave[s] \in SlaveRecord
      BY <2>2 DEF ToSlave, PoolType
    <3> QED
      BY <2>1, <2>5, <3>1, SentType
  <2>7. \A x \in Slave : r.slave[x].st = p.slave[x].st
    BY <2>2, <2>5, <2>6
  <2>8. \A j \in Job : j \notin InWaiting(p) => r.job[j] = p.job[j]
    BY <2>2, <2>4, <2>5 DEF PoolType
  <2>9. \A j \in Job : j \notin InWaiting(p) => j \notin InWaiting(r)
    <3>1. \A i \in 1 .. Len(w) - 1 : i + 1 \in 1 .. Len(w)
      BY <2>1
    <3> QED
      BY <2>1, <2>2, <2>5, <3>1 DEF InWaiting
  <2> HIDE DEF r
  <2> QED
    BY <2>3, <2>5, <2>7, <2>8, <2>9
<1> QED
  BY <1>1, <1>2

\* A new job gets a free slave, or waits for one that is forked.
LEMMA GetSlaveAgrees ==
  ASSUME NEW p, Agrees(p, {}), NEW j \in Job, NEW s \in Slave,
         p.job[j].st = "new", p.job[j].left > 0,
         IF p.free = {} THEN p.slave[s].st = "none" ELSE s \in p.free
  PROVE  Agrees(GetSlave(p, j, s), {})
<1>0. p \in PoolType /\ p.free \subseteq Slave /\ p.waiting \in Seq(Job) /\ NoSlave \notin Slave
  BY SlavesAssumption DEF Agrees, Lists, PoolType
<1>1. j \notin InWaiting(p)
  BY DEF Agrees, Lists, InWaiting
<1>2. CASE p.free = {}
  <2> DEFINE r == [p.job[j] EXCEPT !.st = "waiting"]
             x == [p.slave[s] EXCEPT !.st = "starting"]
             w == Append(p.waiting, j)
             q == [p EXCEPT !.waiting = w, !.job[j] = r, !.slave[s] = x]
  <2>1. r \in JobRecord /\ x \in SlaveRecord
    <3>1. p.job[j] \in JobRecord /\ p.slave[s] \in SlaveRecord
      BY <1>0 DEF PoolType
    <3>2. r \in JobRecord
      BY <3>1 DEF JobRecord, JobState
    <3>3. x \in SlaveRecord
      BY <3>1 DEF SlaveRecord
    <3> QED
      BY <3>2, <3>3
  <2>2. /\ w \in Seq(Job) /\ Len(w) = Len(p.waiting) + 1 /\ Len(p.waiting) \in Nat
        /\ w[Len(p.waiting) + 1] = j
        /\ \A i \in 1 .. Len(p.waiting) : w[i] = p.waiting[i]
    BY <1>0, AppendProperties
  <2>3. GetSlave(p, j, s) = q
    BY <1>2 DEF GetSlave
  <2>4. /\ r.st = "waiting" /\ r.slave = p.job[j].slave /\ r.left = p.job[j].left
        /\ r.on = p.job[j].on /\ r.dialog = p.job[j].dialog /\ r.told = p.job[j].told
        /\ x.st = "starting"
    BY <1>0 DEF PoolType, JobRecord, SlaveRecord
  <2>5. /\ q \in PoolType /\ q.free = p.free /\ q.waiting = w
        /\ q.job = [p.job EXCEPT ![j] = r] /\ q.slave = [p.slave EXCEPT ![s] = x]
    BY <1>0, <2>1, <2>2 DEF PoolType
  <2> HIDE DEF q, r, x, w
  <2>6. /\ q.job[j] = r /\ \A k \in Job \ {j} : q.job[k] = p.job[k]
        /\ q.slave[s] = x /\ \A y \in Slave \ {s} : q.slave[y] = p.slave[y]
    BY <1>0, <2>5 DEF PoolType
  <2>7. JobOK(r) /\ r.slave = NoSlave
    BY <2>4 DEF Agrees, Lists, JobOK, Serving3
  <2>8. ASSUME NEW k \in Job
        PROVE  JobOK(q.job[k]) /\ (q.job[k].slave # NoSlave => Holds(q, {}, k, q.job[k].slave))
    <3>1. CASE k = j
      BY <2>6, <2>7, <3>1
    <3>2. CASE k # j
      <4>1. q.job[k] = p.job[k] /\ JobOK(p.job[k])
        BY <2>6, <3>2 DEF Agrees, Lists
      <4>2. ASSUME p.job[k].slave # NoSlave PROVE Holds(q, {}, k, p.job[k].slave)
        <5>1. Holds(p, {}, k, p.job[k].slave)
          BY <4>2 DEF Agrees, Lists
        <5>2. p.job[k].slave # s
          BY <1>2, <5>1 DEF Holds
        <5> QED
          BY <1>0, <2>4, <2>5, <2>6, <2>7, <3>2, <4>2, <5>1, <5>2 DEF Holds
      <4> QED
        BY <4>1, <4>2
    <3> QED
      BY <3>1, <3>2
  <2>9. /\ IsFiniteSet(Forked(p)) /\ s \notin Forked(p) /\ Forked(q) = Forked(p) \cup {s}
    BY <1>2, <2>4, <2>6 DEF Agrees, Lists, Forked
  <2>10. /\ IsFiniteSet(Forked(q)) /\ Cardinality(Forked(q)) = Cardinality(Forked(p)) + 1
         /\ Cardinality(Forked(p)) \in Nat
    BY <2>9, FS_AddElement, FS_CardinalityType
  <2>11. \A i \in 1 .. Len(p.waiting) :
            /\ p.waiting[i] \in Job \ {j} /\ p.job[p.waiting[i]].st = "waiting"
            /\ \A k \in 1 .. Len(p.waiting) : p.waiting[i] = p.waiting[k] => i = k
    BY <1>0, <1>1 DEF Agrees, Lists, InWaiting
  <2>12. \A i \in 1 .. Len(q.waiting) :
            /\ q.waiting[i] \notin {} /\ q.job[q.waiting[i]].st = "waiting"
            /\ \A k \in 1 .. Len(q.waiting) : q.waiting[i] = q.waiting[k] => i = k
    <3>1. \A i \in 1 .. Len(w) : i \in 1 .. Len(p.waiting) \/ i = Len(p.waiting) + 1
      BY <2>2
    <3> QED
      BY <2>2, <2>4, <2>5, <2>6, <2>11, <3>1
  <2>13. Len(q.waiting) <= Cardinality(Forked(q))
    BY <2>2, <2>5, <2>10 DEF Agrees
  <2>14. Agrees(q, {})
    BY <1>2, <2>5, <2>8, <2>10, <2>12, <2>13 DEF Agrees, Lists
  <2> QED
    BY <2>3, <2>14
<1>3. CASE p.free # {}
  <2> DEFINE q == [p EXCEPT !.free = p.free \ {s}]
  <2>1. /\ q \in PoolType /\ q.free = p.free \ {s} /\ q.waiting = p.waiting
        /\ q.job = p.job /\ q.slave = p.slave
    BY <1>0 DEF PoolType
  <2>2. GetSlave(p, j, s) = DoIt(q, j, s)
    BY <1>3 DEF GetSlave
  <2> HIDE DEF q
  <2>3. Forked(q) = Forked(p)
    BY <2>1 DEF Forked
  <2>4. ASSUME NEW k \in Job
        PROVE  /\ p.job[k].slave # NoSlave => Holds(q, {}, k, p.job[k].slave)
               /\ p.job[k].slave # s
    BY <1>0, <1>3, <2>1 DEF Agrees, Lists, Holds
  <2>5. Agrees(q, {})
    BY <2>1, <2>3, <2>4 DEF Agrees, Lists
  <2>6. q.slave[s].st \in {"up", "dead"} /\ s \in Slave \ q.free /\ j \notin InWaiting(q)
    BY <1>1, <1>3, <2>1 DEF Agrees, Lists, InWaiting
  <2>7. Agrees(DoIt(q, j, s), {})
    BY <2>1, <2>4, <2>5, <2>6, DoItAgrees
  <2> QED
    BY <2>2, <2>7
<1> QED
  BY <1>2, <1>3

\* A job that is in no list need not be looked at.
LEMMA OneMoreGone ==
  ASSUME NEW p, Agrees(p, {}), NEW j \in Job, j \notin InWaiting(p)
  PROVE  Agrees(p, {j})
<1>1. \A i \in 1 .. Len(p.waiting) : p.waiting[i] # j
  BY DEF InWaiting
<1> QED
  BY <1>1 DEF Agrees, Lists, Holds

\* A job leaves the list, if it is there.
LEMMA RemoveJobAgrees ==
  ASSUME NEW p, NEW j \in Job, Agrees(p, {}) \/ Agrees(p, {j}), NEW q, q = RemoveJob(p, j)
  PROVE  /\ Agrees(q, {j}) /\ j \notin InWaiting(q)
         /\ q.free = p.free /\ q.job = p.job /\ q.slave = p.slave
         /\ \A k \in Job : k \notin InWaiting(p) => k \notin InWaiting(q)
<1> DEFINE w == p.waiting
           v == RemoveFirst(w, j)
<1>0. p \in PoolType /\ w \in Seq(Job) /\ Len(w) \in Nat
  <2>1. p \in PoolType
    BY DEF Agrees, Lists
  <2> QED
    BY <2>1 DEF PoolType
<1>1. q = [p EXCEPT !.waiting = v]
  BY DEF RemoveJob
<1> HIDE DEF v
<1>2. CASE j \notin InWaiting(p)
  <2>1. v = w
    <3>1. \A i \in 1 .. Len(w) : w[i] # j
      BY <1>2 DEF InWaiting
    <3> QED
      BY <1>0, <3>1, RemoveFirstAbsent DEF v
  <2>2. q = p
    BY <1>0, <1>1, <2>1 DEF PoolType
  <2> QED
    BY <1>2, <2>2, OneMoreGone
<1>3. CASE j \in InWaiting(p)
  <2>1. Agrees(p, {})
    BY <1>3 DEF Agrees, Lists, InWaiting
  <2>2. PICK n \in 1 .. Len(w) : w[n] = j
    BY <1>3 DEF InWaiting
  <2>3. \A i \in 1 .. Len(w) :
          /\ p.job[w[i]].st = "waiting"
          /\ \A k \in 1 .. Len(w) : w[i] = w[k] => i = k
    BY <2>1 DEF Agrees, Lists
  <2>4. /\ v \in Seq(Job) /\ Len(v) = Len(w) - 1
        /\ \A i \in 1 .. Len(w) - 1 : v[i] = IF i < n THEN w[i] ELSE w[i + 1]
    <3>1. \A i \in 1 .. Len(w) : w[i] = w[n] => i = n
      BY <2>3
    <3> HIDE DEF w
    <3> QED
      BY <1>0, <2>2, <3>1, RemoveFirstOnce DEF v
  <2>5. /\ q \in PoolType /\ q.waiting = v /\ q.free = p.free /\ q.job = p.job
        /\ q.slave = p.slave
    BY <1>0, <1>1, <2>4 DEF PoolType
  <2> DEFINE at[i \in 1 .. Len(v)] == IF i < n THEN i ELSE i + 1
  <2>6. \A i \in 1 .. Len(v) : /\ at[i] \in 1 .. Len(w) \ {n} /\ v[i] = w[at[i]]
                               /\ \A k \in 1 .. Len(v) : at[i] = at[k] => i = k
    BY <1>0, <2>4
  <2> HIDE DEF at, w
  <2>7. \A i \in 1 .. Len(v) :
          /\ v[i] \notin {j} /\ p.job[v[i]].st = "waiting"
          /\ \A k \in 1 .. Len(v) : v[i] = v[k] => i = k
    <3>1. \A i \in 1 .. Len(v) : v[i] # j /\ p.job[v[i]].st = "waiting"
      BY <2>2, <2>3, <2>6
    <3>2. ASSUME NEW i \in 1 .. Len(v), NEW k \in 1 .. Len(v), v[i] = v[k] PROVE i = k
      <4>1. at[i] = at[k]
        BY <2>3, <2>6, <3>2
      <4> QED
        BY <2>6, <4>1
    <3> QED
      BY <3>1, <3>2
  <2>8. Forked(q) = Forked(p)
    BY <2>5 DEF Forked
  <2>9. Len(q.waiting) <= Cardinality(Forked(q))
    <3>1. Cardinality(Forked(p)) \in Nat /\ Len(w) <= Cardinality(Forked(p))
      BY <2>1, FS_CardinalityType DEF Agrees, Lists, w
    <3> QED
      BY <1>0, <2>4, <2>5, <2>8, <3>1
  <2>10. \A k \in Job \ {j} : /\ JobOK(q.job[k])
                              /\ q.job[k].slave # NoSlave => Holds(q, {j}, k, q.job[k].slave)
    <3>1. \A k \in Job : /\ JobOK(p.job[k])
                         /\ p.job[k].slave # NoSlave => Holds(p, {}, k, p.job[k].slave)
      BY <2>1 DEF Agrees, Lists
    <3>2. ASSUME NEW k \in Job \ {j}, q.job[k].slave # NoSlave
          PROVE  Holds(q, {j}, k, q.job[k].slave)
      <4>1. Holds(p, {}, k, p.job[k].slave)
        BY <2>5, <3>1, <3>2
      <4>2. Holds(p, {j}, k, p.job[k].slave)
        BY <4>1 DEF Holds
      <4> QED
        BY <2>5, <4>2 DEF Holds
    <3> QED
      BY <2>5, <3>1, <3>2
  <2>11. Agrees(q, {j})
    <3>1. IsFiniteSet(Forked(q)) /\ \A s \in q.free : q.slave[s].st \in {"up", "dead"}
      BY <2>1, <2>5, <2>8 DEF Agrees, Lists
    <3>2. \A i \in 1 .. Len(q.waiting) :
            /\ q.waiting[i] \notin {j} /\ q.job[q.waiting[i]].st = "waiting"
            /\ \A k \in 1 .. Len(q.waiting) : q.waiting[i] = q.waiting[k] => i = k
      BY <2>5, <2>7
    <3>3. Lists(q, {j})
      BY <2>5, <2>10, <3>1, <3>2 DEF Lists
    <3> QED
      BY <2>9, <3>3 DEF Agrees
  <2>12. \A k \in Job : k \notin InWaiting(p) => k \notin InWaiting(q)
    BY <2>5, <2>6 DEF InWaiting, w
  <2>13. j \notin InWaiting(q)
    BY <2>5, <2>7 DEF InWaiting
  <2> QED
    BY <2>5, <2>11, <2>12, <2>13
<1> QED
  BY <1>2, <1>3

\* A slave nobody has is deleted.
LEMMA DeleteSlaveAgrees ==
  ASSUME NEW p, NEW gone, Agrees(p, gone), NEW s \in Slave, p.slave[s].st \in {"up", "dead"},
         \A k \in Job \ gone : p.job[k].slave # s, NEW q, q = DeleteSlave(p, s)
  PROVE  /\ Agrees(q, gone) /\ q.job = p.job /\ q.waiting = p.waiting
         /\ \A x \in Slave \ {s} : q.slave[x] = p.slave[x]
<1>0. p \in PoolType /\ p.waiting \in Seq(Job)
  BY DEF Agrees, Lists, PoolType
<1>1. q = [p EXCEPT !.free = p.free \ {s}, !.slave[s] = Gone]
  BY DEF DeleteSlave
<1>2. Gone \in SlaveRecord /\ Gone.st = "gone"
  <2>1. Gone = [st |-> "gone", inbox |-> <<>>, outbox |-> <<>>]
    BY DEF Gone, NoProcess
  <2>2. <<>> \in Seq(Message)
    OBVIOUS
  <2> QED
    BY <2>1, <2>2 DEF SlaveRecord
<1>3. /\ q \in PoolType /\ q.free = p.free \ {s} /\ q.waiting = p.waiting /\ q.job = p.job
      /\ q.slave = [p.slave EXCEPT ![s] = Gone]
  <2>1. p.free \ {s} \in SUBSET Slave /\ [p.slave EXCEPT ![s] = Gone] \in [Slave -> SlaveRecord]
    BY <1>0, <1>2 DEF PoolType
  <2>2. q = [p EXCEPT !.free = p.free \ {s}, !.slave = [p.slave EXCEPT ![s] = Gone]]
    BY <1>1
  <2> QED
    BY <1>0, <2>1, <2>2 DEF PoolType
<1>4. q.slave[s].st = "gone" /\ \A x \in Slave \ {s} : q.slave[x] = p.slave[x]
  BY <1>0, <1>2, <1>3 DEF PoolType
<1>5. Forked(q) = Forked(p)
  BY <1>4 DEF Forked
<1>6. \A k \in Job \ gone : /\ JobOK(q.job[k])
                            /\ q.job[k].slave # NoSlave => Holds(q, gone, k, q.job[k].slave)
  BY <1>3, <1>4 DEF Agrees, Lists, Holds
<1>7. \A x \in q.free : q.slave[x].st \in {"up", "dead"}
  BY <1>0, <1>3, <1>4 DEF Agrees, Lists, PoolType
<1>8. Agrees(q, gone)
  BY <1>3, <1>5, <1>6, <1>7 DEF Agrees, Lists
<1> QED
  BY <1>3, <1>4, <1>8

\* A job that is in no list comes back to be looked at, or changes on its own.
LEMMA JobAgrees ==
  ASSUME NEW p, NEW j \in Job, Agrees(p, {j}), NEW r \in JobRecord, JobOK(r),
         r.slave # NoSlave => Holds(p, {j}, j, r.slave),
         NEW q, q = [p EXCEPT !.job[j] = r]
  PROVE  Agrees(q, {}) /\ q.job[j] = r
<1>0. p \in PoolType /\ p.waiting \in Seq(Job)
  BY DEF Agrees, Lists, PoolType
<1>1. /\ q \in PoolType /\ q.free = p.free /\ q.waiting = p.waiting /\ q.slave = p.slave
      /\ q.job = [p.job EXCEPT ![j] = r]
  BY <1>0, JobEffect
<1>2. q.job[j] = r /\ \A k \in Job \ {j} : q.job[k] = p.job[k]
  BY <1>0, <1>1 DEF PoolType
<1>3. Forked(q) = Forked(p)
  BY <1>1 DEF Forked
<1>4. \A i \in 1 .. Len(q.waiting) :
        /\ q.waiting[i] \notin {} /\ q.job[q.waiting[i]].st = "waiting"
        /\ \A k \in 1 .. Len(q.waiting) : q.waiting[i] = q.waiting[k] => i = k
  <2>1. \A i \in 1 .. Len(p.waiting) : p.waiting[i] \in Job \ {j}
    BY <1>0 DEF Agrees, Lists
  <2> QED
    BY <1>1, <1>2, <2>1 DEF Agrees, Lists
<1>5. ASSUME NEW k \in Job
      PROVE  JobOK(q.job[k]) /\ (q.job[k].slave # NoSlave => Holds(q, {}, k, q.job[k].slave))
  <2>1. CASE k = j
    BY <1>1, <1>2, <2>1 DEF Holds
  <2>2. CASE k # j
    <3>1. q.job[k] = p.job[k] /\ JobOK(p.job[k])
      BY <1>2, <2>2 DEF Agrees, Lists
    <3>2. ASSUME p.job[k].slave # NoSlave PROVE Holds(q, {}, k, p.job[k].slave)
      <4>1. Holds(p, {j}, k, p.job[k].slave)
        BY <2>2, <3>2 DEF Agrees, Lists
      <4>2. r.slave # p.job[k].slave
        BY <2>2, <3>2 DEF Holds
      <4> QED
        BY <1>1, <1>2, <4>1, <4>2 DEF Holds
    <3> QED
      BY <3>1, <3>2
  <2> QED
    BY <2>1, <2>2
<1>6. Agrees(q, {})
  BY <1>1, <1>3, <1>4, <1>5 DEF Agrees, Lists
<1> QED
  BY <1>2, <1>6
-----------------------------------------------------------------------------
(* How a job ends *)

Left(r, st) == [r EXCEPT !.st = IF r.dialog > 0 THEN "wild" ELSE st, !.slave = NoSlave]
Told(r)     == [r EXCEPT !.told = @ + 1]
Lost(r)     == [r EXCEPT !.slave = NoSlave]

LEMMA LeftType ==
  ASSUME NEW r \in JobRecord, NEW st \in {"done", "deleted"}
  PROVE  /\ Left(r, st) \in JobRecord /\ Left(r, st).st = (IF r.dialog > 0 THEN "wild" ELSE st)
         /\ Left(r, st).slave = NoSlave /\ Left(r, st).left = r.left /\ Left(r, st).on = r.on
         /\ Left(r, st).dialog = r.dialog /\ Left(r, st).told = r.told
  BY DEF Left, JobRecord, JobState

LEMMA ToldType ==
  ASSUME NEW r \in JobRecord
  PROVE  /\ Told(r) \in JobRecord /\ Told(r).st = r.st /\ Told(r).slave = r.slave
         /\ Told(r).left = r.left /\ Told(r).on = r.on /\ Told(r).dialog = r.dialog
         /\ Told(r).told = r.told + 1
  BY DEF Told, JobRecord

LEMMA LostType ==
  ASSUME NEW r \in JobRecord
  PROVE  /\ Lost(r) \in JobRecord /\ Lost(r).st = r.st /\ Lost(r).slave = NoSlave
         /\ Lost(r).left = r.left /\ Lost(r).on = r.on /\ Lost(r).dialog = r.dialog
         /\ Lost(r).told = r.told
  BY DEF Lost, JobRecord

\* What FreeSlaveAgrees asks of the list
LEMMA AgreesMore ==
  ASSUME NEW p, NEW gone, Agrees(p, gone)
  PROVE  p \in PoolType /\ Lists(p, gone) /\ Len(p.waiting) <= Cardinality(Forked(p)) + 1
<1>1. Lists(p, gone) /\ Len(p.waiting) <= Cardinality(Forked(p))
  BY DEF Agrees
<1>2. p \in PoolType /\ IsFiniteSet(Forked(p))
  BY <1>1 DEF Lists
<1>3. Cardinality(Forked(p)) \in Nat /\ Len(p.waiting) \in Nat
  BY <1>2, FS_CardinalityType DEF PoolType
<1> QED
  BY <1>1, <1>2, <1>3

\* The record of a job that is not looked at changes.
LEMMA GoneJobAgrees ==
  ASSUME NEW p, NEW j \in Job, Agrees(p, {j}), NEW r \in JobRecord,
         NEW q, q = [p EXCEPT !.job[j] = r]
  PROVE  Agrees(q, {j})
<1>0. p \in PoolType
  BY DEF Agrees, Lists
<1>1. /\ q \in PoolType /\ q.free = p.free /\ q.waiting = p.waiting /\ q.slave = p.slave
      /\ q.job = [p.job EXCEPT ![j] = r]
  BY <1>0, JobEffect
<1>2. q.job[j] = r /\ \A k \in Job \ {j} : q.job[k] = p.job[k]
  BY <1>0, <1>1 DEF PoolType
<1>3. SamePlace(p, q) /\ SameSlave(p, q, {j})
  BY <1>1, <1>2 DEF Agrees, Lists, SamePlace, SameSlave
<1>4. q \in PoolType /\ q.free = p.free /\ q.waiting = p.waiting
  BY <1>1
<1> QED
  BY <1>3, <1>4, FieldsAgree

LEMMA FreedAgrees ==
  ASSUME NEW p, NEW j \in Job, Agrees(p, {j}), NEW st \in {"done", "deleted"},
         p.job[j].told = 0 \/ (p.job[j].told = 1 /\ st = "done"),
         NEW q, q = Freed(p, j, st)
  PROVE  /\ Agrees(q, {}) /\ q.waiting = p.waiting /\ q.slave = p.slave
         /\ \A k \in Job \ {j} : q.job[k] = p.job[k]
<1> DEFINE r == Left(p.job[j], st)
<1>0. p \in PoolType /\ p.job[j] \in JobRecord
  BY DEF Agrees, Lists, PoolType
<1>1. q = [p EXCEPT !.job[j] = r]
  BY DEF Freed, Left
<1>2. r \in JobRecord
  BY <1>0, LeftType
<1>3. JobOK(r) /\ r.slave = NoSlave
  <2>1. /\ r.st = (IF p.job[j].dialog > 0 THEN "wild" ELSE st) /\ r.slave = NoSlave
        /\ r.told = p.job[j].told /\ r.dialog = p.job[j].dialog
    BY <1>0, LeftType
  <2> HIDE DEF r
  <2> QED
    BY <2>1 DEF JobOK, Serving3
<1> HIDE DEF r
<1>4. Agrees(q, {})
  BY <1>1, <1>2, <1>3, JobAgrees
<1>5. q.waiting = p.waiting /\ q.slave = p.slave /\ q.job = [p.job EXCEPT ![j] = r]
  BY <1>0, <1>1, <1>2, JobEffect
<1> QED
  BY <1>0, <1>4, <1>5 DEF PoolType

LEMMA FreedEffect ==
  ASSUME NEW p \in PoolType, NEW j \in Job, NEW st \in {"done", "deleted"},
         NEW q, q = Freed(p, j, st) \/ q = Ended(p, j)
  PROVE  /\ q.slave = p.slave /\ \A k \in Job \ {j} : q.job[k] = p.job[k]
         /\ q.job[j].slave = NoSlave /\ q.job[j].dialog = p.job[j].dialog
<1>1. p.job[j] \in JobRecord
  BY PoolFacts
<1>2. \A d \in PoolType, e \in {"done", "deleted"} : LET f == Freed(d, j, e) IN
          /\ f.slave = d.slave /\ \A k \in Job \ {j} : f.job[k] = d.job[k]
          /\ f.job[j].slave = NoSlave /\ f.job[j].dialog = d.job[j].dialog
  <2> TAKE d \in PoolType, e \in {"done", "deleted"}
  <2> DEFINE r == Left(d.job[j], e)
             f == [d EXCEPT !.job[j] = r]
  <2>1. Freed(d, j, e) = f
    BY DEF Freed, Left
  <2>2. d.job[j] \in JobRecord
    BY PoolFacts
  <2>3. r \in JobRecord /\ r.slave = NoSlave /\ r.dialog = d.job[j].dialog
    BY <2>2, LeftType
  <2> HIDE DEF r
  <2>4. f.slave = d.slave /\ f.job = [d.job EXCEPT ![j] = r]
    BY <2>3, JobEffect
  <2> HIDE DEF f
  <2>5. f.job[j] = r /\ \A k \in Job \ {j} : f.job[k] = d.job[k]
    BY <2>4 DEF PoolType
  <2> QED
    BY <2>1, <2>3, <2>4, <2>5
<1>3. CASE q = Ended(p, j)
  <2> DEFINE r == Told(p.job[j])
             d == [p EXCEPT !.job[j] = r]
  <2>1. q = Freed(d, j, "done")
    BY <1>3 DEF Ended, Told
  <2>2. r \in JobRecord /\ r.dialog = p.job[j].dialog
    BY <1>1, ToldType
  <2> HIDE DEF r
  <2>3. d.slave = p.slave /\ d.job = [p.job EXCEPT ![j] = r] /\ d \in PoolType
    BY <2>2, JobEffect
  <2> HIDE DEF d
  <2>4. d.job[j] = r /\ \A k \in Job \ {j} : d.job[k] = p.job[k]
    BY <2>3 DEF PoolType
  <2> QED
    BY <1>2, <2>1, <2>2, <2>3, <2>4
<1> QED
  BY <1>2, <1>3

LEMMA EndedAgrees ==
  ASSUME NEW p, NEW j \in Job, Agrees(p, {j}), p.job[j].told = 0, NEW q, q = Ended(p, j)
  PROVE  Agrees(q, {})
<1> DEFINE r == Told(p.job[j])
           d == [p EXCEPT !.job[j] = r]
<1>0. p \in PoolType /\ p.job[j] \in JobRecord /\ p.waiting \in Seq(Job)
  BY DEF Agrees, Lists, PoolType
<1>1. q = Freed(d, j, "done")
  BY DEF Ended, Told
<1>2. r \in JobRecord /\ r.told = 1
  BY <1>0, ToldType
<1> HIDE DEF r
<1>3. d = [p EXCEPT !.job[j] = r]
  OBVIOUS
<1> HIDE DEF d
<1>4. Agrees(d, {j})
  BY <1>2, <1>3, GoneJobAgrees
<1>5. d.job[j] = r
  BY <1>0, <1>3 DEF PoolType
<1> QED
  BY <1>1, <1>2, <1>4, <1>5, FreedAgrees

\* done() of a job that has not ended, and whose slave is its own.
LEMMA DoneAgrees ==
  ASSUME NEW p, NEW j \in Job, Agrees(p, {}) \/ Agrees(p, {j}), p.job[j].told = 0,
         p.job[j].slave # NoSlave => Holds(p, {j}, j, p.job[j].slave),
         NEW q, q = Done(p, j)
  PROVE  Agrees(q, {})
<1> DEFINE d == RemoveJob(p, j)
           s == p.job[j].slave
           e == IF s = NoSlave THEN d ELSE FreeSlave(d, s)
<1>1. /\ Agrees(d, {j}) /\ j \notin InWaiting(d)
      /\ d.free = p.free /\ d.job = p.job /\ d.slave = p.slave
  BY RemoveJobAgrees
<1>2. q = Ended(e, j)
  BY <1>1 DEF Done
<1> HIDE DEF d, s
<1>3. Agrees(e, {j}) /\ e.job[j].told = 0
  <2>1. CASE s = NoSlave
    BY <1>1, <2>1
  <2>2. CASE s # NoSlave
    <3>1. /\ s \in Slave \ d.free /\ d.slave[s].st \in {"up", "dead"}
          /\ \A k \in Job \ {j} : d.job[k].slave # s
      BY <1>1, <2>2 DEF Holds, s
    <3>2. Lists(d, {j}) /\ d \in PoolType /\ Len(d.waiting) <= Cardinality(Forked(d)) + 1
      BY <1>1, AgreesMore
    <3>3. Agrees(FreeSlave(d, s), {j})
      BY <3>1, <3>2, FreeSlaveAgrees
    <3>4. FreeSlave(d, s).job[j] = d.job[j]
      BY <1>1, <3>1, <3>2, FreeSlaveEffect
    <3> QED
      BY <1>1, <2>2, <3>3, <3>4
  <2> QED
    BY <2>1, <2>2
<1> HIDE DEF e
<1> QED
  BY <1>2, <1>3, EndedAgrees

LEMMA CancelAgrees ==
  ASSUME NEW p, NEW j \in Job, Agrees(p, {}) \/ Agrees(p, {j}), p.job[j].told = 0,
         p.job[j].slave # NoSlave => Holds(p, {j}, j, p.job[j].slave),
         NEW q, q = Cancel(p, j)
  PROVE  Agrees(q, {})
<1> DEFINE d == RemoveJob(p, j)
           s == p.job[j].slave
           e == IF s = NoSlave THEN d ELSE DeleteSlave(d, s)
           r == Lost(e.job[j])
           f == [e EXCEPT !.job[j] = r]
<1>1. /\ Agrees(d, {j}) /\ j \notin InWaiting(d)
      /\ d.free = p.free /\ d.job = p.job /\ d.slave = p.slave
  BY RemoveJobAgrees
<1>2. q = Done(f, j)
  BY <1>1 DEF Cancel, Lost
<1> HIDE DEF d, s
<1>3. Agrees(e, {j}) /\ e.job = p.job
  <2>1. CASE s = NoSlave
    BY <1>1, <2>1
  <2>2. CASE s # NoSlave
    <3>1. /\ s \in Slave \ d.free /\ d.slave[s].st \in {"up", "dead"}
          /\ \A k \in Job \ {j} : d.job[k].slave # s
      BY <1>1, <2>2 DEF Holds, s
    <3> QED
      BY <1>1, <2>2, <3>1, DeleteSlaveAgrees
  <2> QED
    BY <2>1, <2>2
<1> HIDE DEF e
<1>4. e \in PoolType /\ e.job[j] \in JobRecord
  BY <1>3 DEF Agrees, Lists, PoolType
<1>5. r \in JobRecord /\ r.slave = NoSlave /\ r.told = 0
  BY <1>3, <1>4, LostType
<1> HIDE DEF r
<1>6. f = [e EXCEPT !.job[j] = r]
  OBVIOUS
<1> HIDE DEF f
<1>7. Agrees(f, {j})
  BY <1>3, <1>5, <1>6, GoneJobAgrees
<1>8. f.job[j] = r
  BY <1>4, <1>6 DEF PoolType
<1> QED
  BY <1>2, <1>5, <1>7, <1>8, DoneAgrees

\* Of the others cancel() touches the slave only, which was up.
LEMMA CancelEffect ==
  ASSUME NEW p, NEW j \in Job, Agrees(p, {}), p.job[j].st \in Serving3,
         NEW q, q = Cancel(p, j)
  PROVE  /\ \A k \in Job \ {j} : q.job[k] = p.job[k]
         /\ \A x \in Slave : p.slave[x].st = "none" => q.slave[x].st = "none"
<1> DEFINE d == RemoveJob(p, j)
           s == p.job[j].slave
           e == DeleteSlave(d, s)
           r == Lost(e.job[j])
           f == [e EXCEPT !.job[j] = r]
           g == RemoveJob(f, j)
<1>1. /\ s \in Slave /\ s # NoSlave /\ p.slave[s].st \in {"up", "dead"}
      /\ \A k \in Job \ {j} : p.job[k].slave # s
  BY SlavesAssumption DEF Agrees, Lists, Holds, JobOK
<1>2. Agrees(d, {j}) /\ d.job = p.job /\ d.slave = p.slave
  BY RemoveJobAgrees
<1>3. q = Done(f, j)
  BY <1>1, <1>2 DEF Cancel, Lost
<1> HIDE DEF d, s
<1>4. Agrees(e, {j}) /\ e.job = p.job /\ \A x \in Slave \ {s} : e.slave[x] = p.slave[x]
  BY <1>1, <1>2, DeleteSlaveAgrees
<1> HIDE DEF e
<1>5. e \in PoolType /\ e.job[j] \in JobRecord
  BY <1>4 DEF Agrees, Lists, PoolType
<1>6. r \in JobRecord /\ r.slave = NoSlave
  BY <1>5, LostType
<1> HIDE DEF r
<1>7. f = [e EXCEPT !.job[j] = r]
  OBVIOUS
<1> HIDE DEF f
<1>8. /\ Agrees(f, {j}) /\ f.slave = e.slave /\ f.job = [e.job EXCEPT ![j] = r]
  BY <1>4, <1>5, <1>6, <1>7, GoneJobAgrees, JobEffect
<1>9. Agrees(g, {j}) /\ g.job = f.job /\ g.slave = f.slave
  BY <1>8, RemoveJobAgrees
<1>10. g.job[j].slave = NoSlave /\ \A k \in Job \ {j} : g.job[k] = p.job[k]
  BY <1>4, <1>5, <1>6, <1>8, <1>9 DEF PoolType
<1>11. q = Ended(g, j)
  BY <1>3, <1>10 DEF Done
<1> HIDE DEF g
<1>12. g \in PoolType
  BY <1>9 DEF Agrees, Lists
<1>13. q.slave = g.slave /\ \A k \in Job \ {j} : q.job[k] = g.job[k]
  BY <1>11, <1>12, FreedEffect
<1> QED
  BY <1>1, <1>4, <1>8, <1>9, <1>10, <1>13

\* The destructor of a job that listens to its slave.
LEMMA DeleteJobAgrees ==
  ASSUME NEW p, Agrees(p, {}), NEW j \in Job, p.job[j].st \in Serving3,
         NEW q, q = DeleteJob(p, j)
  PROVE  /\ Agrees(q, {})
         /\ \A k \in Job \ {j} : k \notin InWaiting(p) => q.job[k] = p.job[k]
         /\ \A x \in Slave : q.slave[x].st = p.slave[x].st
<1> DEFINE s == p.job[j].slave
           d == FreeSlave(p, s)
           e == RemoveJob(d, j)
<1>1. JobOK(p.job[j]) /\ s # NoSlave /\ p.job[j].told = 0 /\ p.job[j] \in JobRecord
  <2>1. JobOK(p.job[j]) /\ p.job[j] \in JobRecord
    BY DEF Agrees, Lists, PoolType
  <2> QED
    BY <2>1 DEF JobOK, Serving3, JobRecord
<1>2. q = Freed(e, j, "deleted")
  BY <1>1 DEF DeleteJob
<1>3. j \notin InWaiting(p)
  BY DEF Agrees, Lists, InWaiting, Serving3
<1>4. Agrees(p, {j})
  BY <1>3, OneMoreGone
<1>5. /\ s \in Slave \ p.free /\ p.slave[s].st \in {"up", "dead"}
      /\ \A k \in Job \ {j} : p.job[k].slave # s
  BY <1>1 DEF Agrees, Lists, Holds
<1> HIDE DEF s
<1>6. Lists(p, {j}) /\ p \in PoolType /\ Len(p.waiting) <= Cardinality(Forked(p)) + 1
  BY <1>4, AgreesMore
<1>7. Agrees(d, {j})
  BY <1>5, <1>6, FreeSlaveAgrees
<1>8. /\ \A k \in Job : k \notin InWaiting(p) => d.job[k] = p.job[k]
      /\ \A x \in Slave : d.slave[x].st = p.slave[x].st
  BY <1>5, <1>6, FreeSlaveEffect
<1> HIDE DEF d
<1>9. Agrees(e, {j}) /\ e.job = d.job /\ e.slave = d.slave
  BY <1>7, RemoveJobAgrees
<1> HIDE DEF e
<1>10. e.job[j].told = 0
  BY <1>1, <1>3, <1>8, <1>9
<1>11. /\ Agrees(q, {}) /\ q.slave = e.slave
       /\ \A k \in Job \ {j} : q.job[k] = e.job[k]
  BY <1>2, <1>9, <1>10, FreedAgrees
<1> QED
  BY <1>8, <1>9, <1>11
-----------------------------------------------------------------------------
(* Requests *)

Busy(r, n)  == [r EXCEPT !.st = "busy", !.left = @ - n]
Cleaning(r) == [r EXCEPT !.st = "cleaning"]
Works(x, j, n) == [x EXCEPT !.inbox = @ \o [i \in 1 .. n |-> Msg("work", j)]]

LEMMA BusyType ==
  ASSUME NEW r \in JobRecord, NEW n \in Nat, n <= r.left
  PROVE  /\ Busy(r, n) \in JobRecord /\ Busy(r, n).st = "busy" /\ Busy(r, n).slave = r.slave
         /\ Busy(r, n).left = r.left - n /\ Busy(r, n).on = r.on
         /\ Busy(r, n).dialog = r.dialog /\ Busy(r, n).told = r.told
<1>1. r.left - n \in 0 .. MaxFiles
  BY FilesAssumption DEF JobRecord
<1> QED
  BY <1>1 DEF Busy, JobRecord, JobState

LEMMA CleaningType ==
  ASSUME NEW r \in JobRecord
  PROVE  /\ Cleaning(r) \in JobRecord /\ Cleaning(r).st = "cleaning"
         /\ Cleaning(r).slave = r.slave /\ Cleaning(r).left = r.left /\ Cleaning(r).on = r.on
         /\ Cleaning(r).dialog = r.dialog /\ Cleaning(r).told = r.told
  BY DEF Cleaning, JobRecord, JobState

LEMMA WorksType ==
  ASSUME NEW x \in SlaveRecord, NEW j \in Job, NEW n \in Nat
  PROVE  /\ Works(x, j, n) \in SlaveRecord /\ Works(x, j, n).st = x.st
         /\ Works(x, j, n).outbox = x.outbox
         /\ Works(x, j, n).inbox = x.inbox \o [i \in 1 .. n |-> Msg("work", j)]
<1> DEFINE w == [i \in 1 .. n |-> Msg("work", j)]
<1>1. w \in Seq(Message) /\ x.inbox \in Seq(Message)
  <2>1. Msg("work", j) \in Message
    BY DEF Msg, Message
  <2> QED
    BY <2>1 DEF SlaveRecord
<1>2. Works(x, j, n) = [x EXCEPT !.inbox = x.inbox \o w]
  BY DEF Works, SlaveRecord
<1> HIDE DEF w
<1>3. x.inbox \o w \in Seq(Message)
  BY <1>1, ConcatProperties
<1>4. /\ Works(x, j, n) \in SlaveRecord /\ Works(x, j, n).st = x.st
      /\ Works(x, j, n).outbox = x.outbox /\ Works(x, j, n).inbox = x.inbox \o w
  BY <1>2, <1>3 DEF SlaveRecord
<1> QED
  BY <1>4 DEF w

\* A job with a slave goes on, and its slave hears of it.
LEMMA ServedAgrees ==
  ASSUME NEW p, Agrees(p, {}), NEW j \in Job, NEW s \in Slave, p.job[j].slave = s,
         NEW r, JobOK(r), r.slave = s, NEW q, q \in PoolType,
         q.free = p.free, q.waiting = p.waiting, q.job = [p.job EXCEPT ![j] = r],
         q.slave[s].st = p.slave[s].st, \A x \in Slave \ {s} : q.slave[x] = p.slave[x]
  PROVE  Agrees(q, {})
<1>0. p \in PoolType /\ JobOK(p.job[j]) /\ s # NoSlave
  BY SlavesAssumption DEF Agrees, Lists
<1>1. q.job[j] = r /\ \A k \in Job \ {j} : q.job[k] = p.job[k]
  BY <1>0 DEF PoolType
<1>2. SamePlace(p, q)
  <2>1. \A x \in Slave : q.slave[x].st = p.slave[x].st
    OBVIOUS
  <2> QED
    BY <2>1 DEF SamePlace
<1>3. SameSlave(p, q, {})
  <2>1. p.job[j].st # "waiting"
    BY <1>0 DEF JobOK, Serving3
  <2> QED
    BY <1>1, <2>1 DEF Agrees, Lists, SameSlave
<1> QED
  BY <1>2, <1>3, FieldsAgree

LEMMA RequestEffect ==
  ASSUME NEW p \in PoolType, NEW j \in Job, NEW s \in Slave, p.job[j].slave = s,
         p.job[j].left > 0, NEW q, q = Request(p, j)
  PROVE  /\ q \in PoolType /\ q.free = p.free /\ q.waiting = p.waiting
         /\ q.job = [p.job EXCEPT ![j] = Busy(p.job[j], 1)]
         /\ q.slave[s] = Sent(p.slave[s], "work", j)
         /\ \A x \in Slave \ {s} : q.slave[x] = p.slave[x]
<1> DEFINE r == Busy(p.job[j], 1)
           d == [p EXCEPT !.job[j] = r]
<1>1. p.job[j] \in JobRecord /\ 1 <= p.job[j].left /\ "work" \in ToSlave
  BY FilesAssumption DEF PoolType, JobRecord, ToSlave
<1>2. r \in JobRecord /\ r.slave = s
  BY <1>1, BusyType
<1>3. q = Send(d, j, "work")
  BY DEF Request, Busy
<1> HIDE DEF r
<1>4. /\ d \in PoolType /\ d.free = p.free /\ d.waiting = p.waiting /\ d.slave = p.slave
      /\ d.job = [p.job EXCEPT ![j] = r]
  BY <1>2, JobEffect
<1> HIDE DEF d
<1>5. d.job[j].slave = s /\ d \in PoolType
  BY <1>2, <1>4 DEF PoolType
<1>6. q \in PoolType /\ q.free = d.free /\ q.waiting = d.waiting
  BY <1>1, <1>3, <1>5, SendEffect
<1>7. q.job = d.job /\ q.slave[s] = Sent(d.slave[s], "work", j)
  BY <1>1, <1>3, <1>5, SendEffect
<1>8. \A x \in Slave \ {s} : q.slave[x] = d.slave[x]
  BY <1>1, <1>3, <1>5, SendEffect
<1> QED
  BY <1>4, <1>6, <1>7, <1>8 DEF r

LEMMA AskCleanUpEffect ==
  ASSUME NEW p \in PoolType, NEW j \in Job, NEW s \in Slave, p.job[j].slave = s,
         NEW q, q = AskCleanUp(p, j)
  PROVE  /\ q \in PoolType /\ q.free = p.free /\ q.waiting = p.waiting
         /\ q.job = [p.job EXCEPT ![j] = Cleaning(p.job[j])]
         /\ q.slave[s] = Sent(p.slave[s], "cleanUp", j)
         /\ \A x \in Slave \ {s} : q.slave[x] = p.slave[x]
<1> DEFINE r == Cleaning(p.job[j])
           d == [p EXCEPT !.job[j] = r]
<1>1. p.job[j] \in JobRecord /\ "cleanUp" \in ToSlave
  BY DEF PoolType, ToSlave
<1>2. r \in JobRecord /\ r.slave = s
  BY <1>1, CleaningType
<1>3. q = Send(d, j, "cleanUp")
  BY DEF AskCleanUp, Cleaning
<1> HIDE DEF r
<1>4. /\ d \in PoolType /\ d.free = p.free /\ d.waiting = p.waiting /\ d.slave = p.slave
      /\ d.job = [p.job EXCEPT ![j] = r]
  BY <1>2, JobEffect
<1> HIDE DEF d
<1>5. d.job[j].slave = s /\ d \in PoolType
  BY <1>2, <1>4 DEF PoolType
<1>6. q \in PoolType /\ q.free = d.free /\ q.waiting = d.waiting
  BY <1>1, <1>3, <1>5, SendEffect
<1>7. q.job = d.job /\ q.slave[s] = Sent(d.slave[s], "cleanUp", j)
  BY <1>1, <1>3, <1>5, SendEffect
<1>8. \A x \in Slave \ {s} : q.slave[x] = d.slave[x]
  BY <1>1, <1>3, <1>5, SendEffect
<1> QED
  BY <1>4, <1>6, <1>7, <1>8 DEF r

LEMMA RequestsEffect ==
  ASSUME NEW p \in PoolType, NEW j \in Job, NEW s \in Slave, p.job[j].slave = s,
         NEW n \in Nat, n <= p.job[j].left, NEW q, q = Requests(p, j, n)
  PROVE  /\ q \in PoolType /\ q.free = p.free /\ q.waiting = p.waiting
         /\ q.job = [p.job EXCEPT ![j] = Busy(p.job[j], n)]
         /\ q.slave[s] = Works(p.slave[s], j, n)
         /\ \A x \in Slave \ {s} : q.slave[x] = p.slave[x]
<1> DEFINE r == Busy(p.job[j], n)
           y == Works(p.slave[s], j, n)
<1>1. p.job[j] \in JobRecord /\ p.slave[s] \in SlaveRecord
  BY DEF PoolType
<1>2. r \in JobRecord /\ y \in SlaveRecord
  BY <1>1, BusyType, WorksType
<1>3. q = [p EXCEPT !.job = [p.job EXCEPT ![j] = r], !.slave = [p.slave EXCEPT ![s] = y]]
  BY DEF Requests, Busy, Works
<1> HIDE DEF r, y
<1>4. /\ q \in PoolType /\ q.free = p.free /\ q.waiting = p.waiting
      /\ q.job = [p.job EXCEPT ![j] = r] /\ q.slave = [p.slave EXCEPT ![s] = y]
  <2>1. /\ [p.job EXCEPT ![j] = r] \in [Job -> JobRecord]
        /\ [p.slave EXCEPT ![s] = y] \in [Slave -> SlaveRecord]
    BY <1>2 DEF PoolType
  <2> QED
    BY <1>3, <2>1 DEF PoolType
<1> QED
  BY <1>4 DEF r, y, PoolType

\* The job j, which has a slave, makes requests, or the last one.
LEMMA RequestAgrees ==
  ASSUME NEW p, Agrees(p, {}), NEW j \in Job, p.job[j].st \in Serving3, p.job[j].left > 0,
         NEW q, q = Request(p, j)
  PROVE  Agrees(q, {})
<1> DEFINE s == p.job[j].slave
<1>1. JobOK(p.job[j]) /\ s \in Slave /\ p \in PoolType /\ p.job[j] \in JobRecord
  BY DEF Agrees, Lists, JobOK, PoolType, JobRecord
<1>2. /\ Busy(p.job[j], 1).st = "busy" /\ Busy(p.job[j], 1).slave = s
      /\ Busy(p.job[j], 1).dialog = p.job[j].dialog /\ Busy(p.job[j], 1).told = p.job[j].told
  BY <1>1, BusyType DEF JobRecord
<1>3. JobOK(Busy(p.job[j], 1))
  BY <1>1, <1>2, SlavesAssumption DEF JobOK, Serving3
<1>4. "work" \in ToSlave /\ p.slave[s] \in SlaveRecord
  BY <1>1 DEF ToSlave, PoolType
<1>5. Sent(p.slave[s], "work", j).st = p.slave[s].st
  BY <1>4, SentType
<1>0. p.job[j].slave = s
  OBVIOUS
<1> HIDE DEF s
<1>6. /\ q \in PoolType /\ q.free = p.free /\ q.waiting = p.waiting
      /\ q.job = [p.job EXCEPT ![j] = Busy(p.job[j], 1)]
      /\ q.slave[s] = Sent(p.slave[s], "work", j)
      /\ \A x \in Slave \ {s} : q.slave[x] = p.slave[x]
  BY <1>0, <1>1, RequestEffect
<1> QED
  BY <1>1, <1>2, <1>3, <1>5, <1>6, ServedAgrees DEF s

LEMMA AskCleanUpAgrees ==
  ASSUME NEW p, Agrees(p, {}), NEW j \in Job, p.job[j].st \in Serving3,
         NEW q, q = AskCleanUp(p, j)
  PROVE  Agrees(q, {}) /\ q.job[j] = Cleaning(p.job[j])
<1> DEFINE s == p.job[j].slave
           r == Cleaning(p.job[j])
<1>1. JobOK(p.job[j]) /\ s \in Slave /\ p \in PoolType /\ p.job[j] \in JobRecord
  BY DEF Agrees, Lists, JobOK, PoolType, JobRecord
<1>2. r.st = "cleaning" /\ r.slave = s /\ r.dialog = p.job[j].dialog /\ r.told = p.job[j].told
  BY <1>1, CleaningType
<1>3. JobOK(r)
  <2> HIDE DEF r
  <2> QED
    BY <1>1, <1>2, SlavesAssumption DEF JobOK, Serving3
<1>4. "cleanUp" \in ToSlave /\ p.slave[s] \in SlaveRecord
  BY <1>1 DEF ToSlave, PoolType
<1>5. Sent(p.slave[s], "cleanUp", j).st = p.slave[s].st
  BY <1>4, SentType
<1> HIDE DEF s
<1>6. /\ q \in PoolType /\ q.free = p.free /\ q.waiting = p.waiting
      /\ q.job = [p.job EXCEPT ![j] = r]
      /\ q.slave[s] = Sent(p.slave[s], "cleanUp", j)
      /\ \A x \in Slave \ {s} : q.slave[x] = p.slave[x]
  BY <1>1, AskCleanUpEffect DEF s
<1> HIDE DEF r
<1>7. Agrees(q, {})
  BY <1>1, <1>2, <1>3, <1>5, <1>6, ServedAgrees DEF s
<1> QED
  BY <1>1, <1>6, <1>7 DEF r, PoolType

LEMMA RequestsAgrees ==
  ASSUME NEW p, Agrees(p, {}), NEW j \in Job, p.job[j].st \in Serving3,
         NEW n \in Nat, n <= p.job[j].left, NEW q, q = Requests(p, j, n)
  PROVE  Agrees(q, {}) /\ q.job[j] = Busy(p.job[j], n)
<1> DEFINE s == p.job[j].slave
           r == Busy(p.job[j], n)
           y == Works(p.slave[s], j, n)
<1>1. JobOK(p.job[j]) /\ s \in Slave /\ p \in PoolType /\ p.job[j] \in JobRecord
  BY DEF Agrees, Lists, JobOK, PoolType, JobRecord
<1>2. r.st = "busy" /\ r.slave = s /\ r.dialog = p.job[j].dialog /\ r.told = p.job[j].told
  BY <1>1, BusyType
<1>3. JobOK(r)
  <2> HIDE DEF r
  <2> QED
    BY <1>1, <1>2, SlavesAssumption DEF JobOK, Serving3
<1>4. y.st = p.slave[s].st
  <2>1. p.slave[s] \in SlaveRecord
    BY <1>1 DEF PoolType
  <2> QED
    BY <2>1, WorksType
<1> HIDE DEF s, y
<1>5. /\ q \in PoolType /\ q.free = p.free /\ q.waiting = p.waiting
      /\ q.job = [p.job EXCEPT ![j] = r] /\ q.slave[s] = y
      /\ \A x \in Slave \ {s} : q.slave[x] = p.slave[x]
  BY <1>1, RequestsEffect DEF s, y
<1> HIDE DEF r
<1>6. Agrees(q, {})
  BY <1>1, <1>2, <1>3, <1>4, <1>5, ServedAgrees DEF s
<1> QED
  BY <1>1, <1>5, <1>6 DEF r, PoolType

\* What a job that has a slave may rely on
LEMMA ServingFacts ==
  ASSUME NEW p, Agrees(p, {}), NEW j \in Job, p.job[j].st \in Serving3
  PROVE  /\ p.job[j] \in JobRecord /\ JobOK(p.job[j]) /\ p.job[j].told = 0
         /\ p.job[j].slave \in Slave
         /\ p.job[j].slave # NoSlave => Holds(p, {j}, j, p.job[j].slave)
<1>1. p.job[j] \in JobRecord /\ JobOK(p.job[j])
  BY DEF Agrees, Lists, PoolType
<1>2. p.job[j].told = 0 /\ p.job[j].slave \in Slave
  BY <1>1 DEF JobOK, Serving3, JobRecord
<1>3. p.job[j].slave # NoSlave => Holds(p, {j}, j, p.job[j].slave)
  BY DEF Agrees, Lists, Holds
<1> QED
  BY <1>1, <1>2, <1>3

LEMMA ServingDone ==
  ASSUME NEW p, Agrees(p, {}), NEW j \in Job, p.job[j].st \in Serving3,
         NEW q, q = Done(p, j)
  PROVE  Agrees(q, {})
  BY ServingFacts, DoneAgrees

LEMMA SlaveIsReadyAgrees ==
  ASSUME NEW p, Agrees(p, {}), NEW j \in Job, p.job[j].st \in Serving3,
         NEW q, q = SlaveIsReady(p, j)
  PROVE  Agrees(q, {})
<1>1. CASE p.job[j].st = "cleaning"
  <2>1. q = Done(p, j)
    BY <1>1 DEF SlaveIsReady
  <2> QED
    BY <2>1, ServingDone
<1>2. CASE p.job[j].st = "busy" /\ p.job[j].left = 0
  <2>1. q = AskCleanUp(p, j)
    BY <1>2 DEF SlaveIsReady
  <2> QED
    BY <2>1, AskCleanUpAgrees
<1>3. CASE p.job[j].st \in {"asked", "busy"} /\ p.job[j].left > 0
  <2>1. q = Request(p, j)
    BY <1>3 DEF SlaveIsReady
  <2> QED
    BY <1>3, <2>1, RequestAgrees
<1>4. \/ p.job[j].st = "cleaning"
      \/ p.job[j].st = "busy" /\ p.job[j].left = 0
      \/ p.job[j].st \in {"asked", "busy"} /\ p.job[j].left > 0
  <2>1. p.job[j].left \in Nat /\ (p.job[j].st = "asked" => p.job[j].left > 0)
    <3>1. p.job[j] \in JobRecord /\ JobOK(p.job[j])
      BY ServingFacts
    <3> QED
      BY <3>1, FilesAssumption DEF JobRecord, JobOK
  <2> QED
    BY <2>1 DEF Serving3
<1> QED
  BY <1>1, <1>2, <1>3, <1>4

\* The record of a job changes: it keeps its slave, and waits if it did.
LEMMA RecordAgrees ==
  ASSUME NEW p, Agrees(p, {}), NEW j \in Job,
         NEW r \in JobRecord, JobOK(r), r.slave = p.job[j].slave,
         p.job[j].st \in Serving3 \/ r.st = p.job[j].st,
         NEW q, q = [p EXCEPT !.job[j] = r]
  PROVE  Agrees(q, {}) /\ q.job[j] = r
<1>0. p \in PoolType
  BY DEF Agrees, Lists
<1>1. /\ q \in PoolType /\ q.free = p.free /\ q.waiting = p.waiting /\ q.slave = p.slave
      /\ q.job = [p.job EXCEPT ![j] = r]
  BY <1>0, JobEffect
<1>2. q.job[j] = r /\ \A k \in Job \ {j} : q.job[k] = p.job[k]
  BY <1>0, <1>1 DEF PoolType
<1>3. SamePlace(p, q) /\ SameSlave(p, q, {})
  BY <1>1, <1>2 DEF Agrees, Lists, SamePlace, SameSlave, Serving3
<1>4. q \in PoolType /\ q.free = p.free /\ q.waiting = p.waiting
  BY <1>1
<1> QED
  BY <1>2, <1>3, <1>4, FieldsAgree

Again(r, v) == [r EXCEPT !.on = @ + 1, !.st = "busy", !.left = IF v THEN 1 ELSE @]

LEMMA AgainType ==
  ASSUME NEW r \in JobRecord, NEW v \in BOOLEAN
  PROVE  /\ Again(r, v) \in JobRecord /\ Again(r, v).st = "busy"
         /\ Again(r, v).slave = r.slave /\ Again(r, v).on = r.on + 1
         /\ Again(r, v).dialog = r.dialog /\ Again(r, v).told = r.told
<1>1. 1 \in 0 .. MaxFiles
  BY FilesAssumption
<1>2. CASE v
  <2>1. Again(r, v) = [r EXCEPT !.on = @ + 1, !.st = "busy", !.left = 1]
    BY <1>2 DEF Again, JobRecord
  <2>2. r.on + 1 \in Nat
    BY DEF JobRecord
  <2>3. Again(r, v) = [r EXCEPT !.on = r.on + 1, !.st = "busy", !.left = 1]
    BY <2>1
  <2> QED
    BY <1>1, <2>2, <2>3 DEF JobRecord, JobState
<1>3. CASE ~v
  <2>1. Again(r, v) = [r EXCEPT !.on = @ + 1, !.st = "busy"]
    BY <1>3 DEF Again, JobRecord
  <2>2. r.on + 1 \in Nat
    BY DEF JobRecord
  <2>3. Again(r, v) = [r EXCEPT !.on = r.on + 1, !.st = "busy"]
    BY <2>1
  <2> QED
    BY <2>2, <2>3 DEF JobRecord, JobState
<1> QED
  BY <1>2, <1>3

LEMMA StartedAgrees ==
  ASSUME NEW p, Agrees(p, {}), NEW j \in Job, p.job[j].st \in Serving3,
         NEW q, q = Started(p, j)
  PROVE  Agrees(q, {})
<1> DEFINE r == Again(p.job[j], j \in Viewed)
           d == [p EXCEPT !.job[j] = r]
<1>1. p.job[j] \in JobRecord /\ JobOK(p.job[j]) /\ p.job[j].slave \in Slave
  BY ServingFacts
<1>2. /\ r \in JobRecord /\ r.st = "busy" /\ r.slave = p.job[j].slave
      /\ r.dialog = p.job[j].dialog /\ r.told = p.job[j].told
  <2>1. (j \in Viewed) \in BOOLEAN
    OBVIOUS
  <2> QED
    BY <1>1, <2>1, AgainType
<1>3. q = SlaveIsReady(d, j)
  BY DEF Started, Again
<1> HIDE DEF r
<1>4. JobOK(r)
  BY <1>1, <1>2, SlavesAssumption DEF JobOK, Serving3
<1>5. d = [p EXCEPT !.job[j] = r]
  OBVIOUS
<1> HIDE DEF d
<1>6. Agrees(d, {})
  BY <1>2, <1>4, <1>5, RecordAgrees
<1>7. d.job[j] = r
  <2>1. p \in PoolType
    BY DEF Agrees, Lists
  <2> QED
    BY <1>5, <2>1 DEF PoolType
<1>8. d.job[j].st \in Serving3
  BY <1>2, <1>7 DEF Serving3
<1> QED
  BY <1>3, <1>6, <1>8, SlaveIsReadyAgrees

LEMMA AllReadyAgrees ==
  ASSUME NEW p, Agrees(p, {}), NEW j \in Job, p.job[j].st \in Serving3,
         NEW q, q = AllReady(p, j)
  PROVE  Agrees(q, {})
<1> DEFINE on   == p.job[j].on
           left == p.job[j].left
           d    == Requests(p, j, left)
           e    == AskCleanUp(d, j)
<1>1. p.job[j] \in JobRecord /\ on \in Nat /\ left \in Nat
  <2>1. p.job[j] \in JobRecord
    BY ServingFacts
  <2> QED
    BY <2>1, FilesAssumption DEF JobRecord
<1>2. CASE p.job[j].st = "cleaning"
  <2>1. q = Done(p, j)
    BY <1>2 DEF AllReady
  <2> QED
    BY <2>1, ServingDone
<1>3. CASE p.job[j].st # "cleaning" /\ on <= left
  <2>1. q = Requests(p, j, on)
    BY <1>3 DEF AllReady
  <2> QED
    BY <1>1, <1>3, <2>1, RequestsAgrees
<1>4. CASE p.job[j].st # "cleaning" /\ ~(on <= left)
  <2>1. q = IF on = left + 1 THEN e ELSE Done(e, j)
    BY <1>4 DEF AllReady
  <2>2. left <= p.job[j].left
    BY <1>1
  <2> HIDE DEF left, on
  <2>3. Agrees(d, {}) /\ d.job[j] = Busy(p.job[j], left)
    BY <1>1, <2>2, RequestsAgrees
  <2>4. d.job[j].st \in Serving3
    BY <1>1, <2>2, <2>3, BusyType DEF Serving3
  <2> HIDE DEF d
  <2>5. Agrees(e, {})
    BY <2>3, <2>4, AskCleanUpAgrees
  <2>6. e.job[j] = Cleaning(d.job[j])
    BY <2>3, <2>4, AskCleanUpAgrees
  <2>7. e.job[j].st \in Serving3
    <3>1. d.job[j] \in JobRecord
      BY <2>3 DEF Agrees, Lists, PoolType
    <3> QED
      BY <2>6, <3>1, CleaningType DEF Serving3
  <2> HIDE DEF e
  <2>8. Agrees(Done(e, j), {})
    BY <2>5, <2>7, ServingDone
  <2> QED
    BY <2>1, <2>5, <2>8
<1> QED
  BY <1>2, <1>3, <1>4
-----------------------------------------------------------------------------
(* The actions *)

\* The record of a slave changes, and its place does not.
LEMMA SlaveAgrees ==
  ASSUME NEW p, Agrees(p, {}), NEW s \in Slave, NEW x \in SlaveRecord,
         x.st \in {"starting", "unborn"} <=> p.slave[s].st \in {"starting", "unborn"},
         p.slave[s].st \in {"up", "dead"} => x.st \in {"up", "dead"},
         NEW q, q = [p EXCEPT !.slave[s] = x]
  PROVE  /\ Agrees(q, {}) /\ q.free = p.free /\ q.waiting = p.waiting /\ q.job = p.job
         /\ q.slave[s] = x /\ \A y \in Slave \ {s} : q.slave[y] = p.slave[y]
<1>0. p \in PoolType
  BY DEF Agrees, Lists
<1>1. /\ q \in PoolType /\ q.free = p.free /\ q.waiting = p.waiting /\ q.job = p.job
      /\ q.slave = [p.slave EXCEPT ![s] = x]
  <2>1. [p.slave EXCEPT ![s] = x] \in [Slave -> SlaveRecord]
    BY <1>0 DEF PoolType
  <2> QED
    BY <1>0, <2>1 DEF PoolType
<1>2. q.slave[s] = x /\ \A y \in Slave \ {s} : q.slave[y] = p.slave[y]
  BY <1>0, <1>1 DEF PoolType
<1>3. SamePlace(p, q)
  BY <1>2 DEF SamePlace
<1>4. SameSlave(p, q, {})
  BY <1>1 DEF Agrees, Lists, SameSlave
<1>5. q \in PoolType
  BY <1>1
<1>6. Agrees(q, {})
  BY <1>1, <1>3, <1>4, <1>5, FieldsAgree
<1> QED
  BY <1>1, <1>2, <1>6

Heard(x)     == [x EXCEPT !.outbox = Tail(@)]
Said(x, m)   == [x EXCEPT !.outbox = Append(@, m)]
Served(x, m) == [x EXCEPT !.outbox = Append(@, m), !.inbox = Tail(@)]

LEMMA HeardType ==
  ASSUME NEW x \in SlaveRecord, x.outbox # <<>>
  PROVE  /\ Heard(x) \in SlaveRecord /\ Heard(x).st = x.st /\ Heard(x).inbox = x.inbox
         /\ Heard(x).outbox = Tail(x.outbox)
<1>1. x.outbox \in Seq(Message)
  BY DEF SlaveRecord
<1>2. Tail(x.outbox) \in Seq(Message)
  BY <1>1, HeadTailProperties
<1> QED
  BY <1>2 DEF SlaveRecord, Heard

LEMMA SaidType ==
  ASSUME NEW x \in SlaveRecord, NEW m \in Message
  PROVE  /\ Said(x, m) \in SlaveRecord /\ Said(x, m).st = x.st /\ Said(x, m).inbox = x.inbox
         /\ Said(x, m).outbox = Append(x.outbox, m)
<1>1. x.outbox \in Seq(Message)
  BY DEF SlaveRecord
<1>2. Append(x.outbox, m) \in Seq(Message)
  BY <1>1, AppendProperties
<1> QED
  BY <1>2 DEF SlaveRecord, Said

LEMMA ServedType ==
  ASSUME NEW x \in SlaveRecord, NEW m \in Message, x.inbox # <<>>
  PROVE  /\ Served(x, m) \in SlaveRecord /\ Served(x, m).st = x.st
         /\ Served(x, m).inbox = Tail(x.inbox) /\ Served(x, m).outbox = Append(x.outbox, m)
<1>1. x.outbox \in Seq(Message) /\ x.inbox \in Seq(Message)
  BY DEF SlaveRecord
<1>2. Append(x.outbox, m) \in Seq(Message) /\ Tail(x.inbox) \in Seq(Message)
  BY <1>1, AppendProperties, HeadTailProperties
<1> QED
  BY <1>2 DEF SlaveRecord, Served

LEMMA ReadAgrees ==
  ASSUME Inv, NEW s \in Slave, pool.slave[s].outbox # <<>>, NEW q, q = Read(s)
  PROVE  /\ Agrees(q, {}) /\ q.job = pool.job /\ q.free = pool.free /\ q.waiting = pool.waiting
         /\ q.slave[s] = Heard(pool.slave[s])
         /\ \A y \in Slave \ {s} : q.slave[y] = pool.slave[y]
<1> DEFINE x == Heard(pool.slave[s])
<1>1. pool.slave[s] \in SlaveRecord /\ Agrees(pool, {})
  BY DEF Inv, Agrees, Lists, PoolType
<1>2. x \in SlaveRecord /\ x.st = pool.slave[s].st
  BY <1>1, HeardType
<1>3. q = [pool EXCEPT !.slave[s] = x]
  BY DEF Read, Heard
<1> HIDE DEF x
<1>4. Agrees(q, {}) /\ q.job = pool.job
  BY <1>1, <1>2, <1>3, SlaveAgrees
<1>5. q.free = pool.free /\ q.waiting = pool.waiting
  BY <1>1, <1>2, <1>3, SlaveAgrees
<1>6. q.slave[s] = x /\ \A y \in Slave \ {s} : q.slave[y] = pool.slave[y]
  BY <1>1, <1>2, <1>3, SlaveAgrees
<1> QED
  BY <1>4, <1>5, <1>6 DEF x

LEMMA ReadSame ==
  ASSUME Inv, NEW s \in Slave, pool.slave[s].outbox # <<>>
  PROVE  \A t \in Slave : Read(s).slave[t].st = pool.slave[t].st
<1> DEFINE p == Read(s)
<1>1. p.slave[s] = Heard(pool.slave[s]) /\ \A y \in Slave \ {s} : p.slave[y] = pool.slave[y]
  BY ReadAgrees
<1>2. pool.slave[s] \in SlaveRecord
  BY DEF Inv, Agrees, Lists, PoolType
<1>3. Heard(pool.slave[s]).st = pool.slave[s].st
  BY <1>2, HeardType
<1> QED
  BY <1>1, <1>3

\* A listener has a slave.
LEMMA ListenerServing ==
  ASSUME Inv, NEW s \in Slave, NEW j \in Listeners(s)
  PROVE  j \in Job /\ pool.job[j].slave = s /\ pool.job[j].st \in Serving3
<1>1. j \in Job /\ pool.job[j].slave = s /\ s # NoSlave
  BY SlavesAssumption DEF Listeners
<1> QED
  BY <1>1 DEF Inv, Agrees, Lists, JobOK

\* A new job is told how many requests it is to make.
Wants(p, j, n) == [p EXCEPT !.job[j].left = n]

LEMMA NewJobAgrees ==
  ASSUME NEW p, Agrees(p, {}), NEW j \in Job, p.job[j].st = "new", NEW n \in 1 .. MaxFiles,
         NEW q, q = Wants(p, j, n)
  PROVE  /\ Agrees(q, {}) /\ q.free = p.free /\ q.slave = p.slave
         /\ \A k \in Job \ {j} : q.job[k] = p.job[k]
         /\ q.job[j].st = "new" /\ q.job[j].left = n /\ q.job[j].slave = NoSlave
         /\ p.job[j].slave = NoSlave /\ q.job[j].dialog = p.job[j].dialog
<1> DEFINE r == [p.job[j] EXCEPT !.left = n]
<1>1. p \in PoolType /\ p.job[j] \in JobRecord /\ JobOK(p.job[j])
  BY DEF Agrees, Lists, PoolType
<1>2. n \in 0 .. MaxFiles /\ n > 0
  BY FilesAssumption
<1>3. /\ r \in JobRecord /\ r.st = "new" /\ r.left = n /\ r.slave = p.job[j].slave
      /\ r.on = p.job[j].on /\ r.dialog = p.job[j].dialog /\ r.told = p.job[j].told
  BY <1>1, <1>2 DEF JobRecord
<1>4. q = [p EXCEPT !.job[j] = r]
  BY DEF Wants
<1> HIDE DEF r
<1>5. JobOK(r) /\ r.slave = NoSlave
  BY <1>1, <1>3 DEF JobOK, Serving3
<1>6. j \notin InWaiting(p)
  BY DEF Agrees, Lists, InWaiting
<1>7. Agrees(p, {j})
  BY <1>6, OneMoreGone
<1>8. /\ q.free = p.free /\ q.slave = p.slave /\ q.job = [p.job EXCEPT ![j] = r]
  BY <1>1, <1>3, <1>4, JobEffect
<1>9. Agrees(q, {})
  <2>1. r \in JobRecord /\ JobOK(r) /\ (r.slave # NoSlave => Holds(p, {j}, j, r.slave))
    BY <1>3, <1>5
  <2>2. q = [p EXCEPT !.job[j] = r]
    BY <1>4
  <2> QED
    BY <1>7, <2>1, <2>2, JobAgrees, ZenonT(30)
<1>10. q.job[j] = r /\ \A k \in Job \ {j} : q.job[k] = p.job[k]
  BY <1>1, <1>8 DEF PoolType
<1> QED
  BY <1>3, <1>5, <1>8, <1>9, <1>10

LEMMA StartAgrees ==
  ASSUME Inv, NEW j \in Job, Start(j)
  PROVE  Inv'
<1>1. PICK s \in Available(pool), n \in (IF j \in Viewed THEN {1} ELSE 1 .. MaxFiles) :
          pool' = GetSlave([pool EXCEPT !.job[j].left = n], j, s)
  BY DEF Start
<1> DEFINE d == Wants(pool, j, n)
<1>2. pool.job[j].st = "new" /\ Agrees(pool, {}) /\ n \in 1 .. MaxFiles
  BY FilesAssumption DEF Start, Inv
<1>3. pool' = GetSlave(d, j, s)
  BY <1>1 DEF Wants
<1>4. d = Wants(pool, j, n)
  OBVIOUS
<1> HIDE DEF d
<1>5. /\ Agrees(d, {}) /\ d.free = pool.free /\ d.slave = pool.slave
      /\ d.job[j].st = "new" /\ d.job[j].left = n
  BY <1>2, <1>4, NewJobAgrees
<1>6. s \in Slave /\ (IF d.free = {} THEN d.slave[s].st = "none" ELSE s \in d.free)
  <2>1. pool.free \subseteq Slave
    BY <1>2 DEF Agrees, Lists, PoolType
  <2> QED
    BY <1>5, <2>1 DEF Available, Unused
<1>7. d.job[j].left > 0
  BY <1>2, <1>5, FilesAssumption
<1>8. Agrees(GetSlave(d, j, s), {})
  BY <1>5, <1>6, <1>7, GetSlaveAgrees
<1> QED
  BY <1>3, <1>8 DEF Inv

LEMMA UserCancelsAgrees ==
  ASSUME Inv, NEW j \in Job, UserCancels(j)
  PROVE  Inv'
<1>1. pool.job[j].st \in {"waiting"} \cup Serving3 /\ pool' = Cancel(pool, j)
  BY DEF UserCancels, Serving3
<1>2. Agrees(pool, {}) /\ JobOK(pool.job[j]) /\ pool.job[j] \in JobRecord
  BY DEF Inv, Agrees, Lists, PoolType
<1>3. pool.job[j].told = 0
  BY <1>1, <1>2 DEF JobOK, JobRecord, Serving3
<1>4. pool.job[j].slave # NoSlave => Holds(pool, {j}, j, pool.job[j].slave)
  BY <1>2 DEF Agrees, Lists, Holds
<1>5. Agrees(pool', {})
  BY <1>1, <1>2, <1>3, <1>4, CancelAgrees
<1> QED
  BY <1>5 DEF Inv

LEMMA SlotTimerAgrees ==
  ASSUME Inv, NEW s \in Slave, SlotTimer(s)
  PROVE  Inv'
<1>1. s \in pool.free /\ pool' = DeleteSlave(pool, s)
  BY DEF SlotTimer
<1>2. Agrees(pool, {}) /\ pool.slave[s].st \in {"up", "dead"}
  BY <1>1 DEF Inv, Agrees, Lists
<1>3. \A k \in Job \ {} : pool.job[k].slave # s
  BY <1>1, SlavesAssumption DEF Inv, Agrees, Lists, Holds
<1>4. Agrees(pool', {})
  BY <1>1, <1>2, <1>3, DeleteSlaveAgrees
<1> QED
  BY <1>4 DEF Inv

LEMMA StartJobAgrees ==
  ASSUME Inv, NEW s \in Slave, StartJob(s)
  PROVE  Inv'
<1> DEFINE q == Read(s)
<1>1. pool.slave[s].outbox # <<>>
  BY DEF StartJob, Reads
<1>2. Agrees(q, {}) /\ q.job = pool.job
  BY <1>1, ReadAgrees
<1> HIDE DEF q
<1>3. ASSUME NEW j \in Listeners(s), pool' = Started(q, j)
      PROVE  Agrees(pool', {})
  <2>1. j \in Job /\ q.job[j].st \in Serving3
    BY <1>2, <1>3, ListenerServing
  <2> QED
    BY <1>2, <1>3, <2>1, StartedAgrees
<1> QED
  BY <1>2, <1>3 DEF StartJob, Inv, q

LEMMA SlaveDoneAgrees ==
  ASSUME Inv, NEW s \in Slave, SlaveDone(s)
  PROVE  Inv'
<1> DEFINE q == Read(s)
<1>1. pool.slave[s].outbox # <<>>
  BY DEF SlaveDone, Reads
<1>2. Agrees(q, {}) /\ q.job = pool.job
  BY <1>1, ReadAgrees
<1> HIDE DEF q
<1>3. ASSUME NEW j \in Listeners(s), pool' = AllReady(q, j)
      PROVE  Agrees(pool', {})
  <2>1. j \in Job /\ q.job[j].st \in Serving3
    BY <1>2, <1>3, ListenerServing
  <2> QED
    BY <1>2, <1>3, <2>1, AllReadyAgrees
<1> QED
  BY <1>2, <1>3 DEF SlaveDone, Inv, q

Failed(r)   == [r EXCEPT !.error = TRUE]
Asking(r)   == [r EXCEPT !.dialog = @ + 1]
Decided(r)  == [r EXCEPT !.dialog = @ - 1]
Missed(r)   == [r EXCEPT !.lost = TRUE]
Filed(r)    == [r EXCEPT !.file = TRUE]

\* A slave takes a request, and says nothing.
Silent(x) == [x EXCEPT !.inbox = Tail(@)]

LEMMA SilentType ==
  ASSUME NEW x \in SlaveRecord, x.inbox # <<>>
  PROVE  /\ Silent(x) \in SlaveRecord /\ Silent(x).st = x.st /\ Silent(x).outbox = x.outbox
         /\ Silent(x).inbox = Tail(x.inbox) /\ Head(x.inbox).job \in Job
<1>1. x.inbox \in Seq(Message)
  BY DEF SlaveRecord
<1>2. Tail(x.inbox) \in Seq(Message) /\ Head(x.inbox) \in Message
  BY <1>1, HeadTailProperties
<1> QED
  BY <1>2 DEF SlaveRecord, Silent, Message

\* What nothing else depends on is noted.
LEMMA NotedType ==
  ASSUME NEW x \in JobRecord, JobOK(x), NEW r \in {Missed(x), Filed(x)}
  PROVE  /\ r \in JobRecord /\ JobOK(r) /\ r.slave = x.slave /\ r.st = x.st /\ r.left = x.left
         /\ r.on = x.on /\ r.dialog = x.dialog
<1>1. /\ r \in JobRecord /\ r.slave = x.slave /\ r.st = x.st /\ r.left = x.left
      /\ r.on = x.on /\ r.dialog = x.dialog /\ r.told = x.told
  BY DEF Missed, Filed, JobRecord
<1> QED
  BY <1>1 DEF JobOK

LEMMA FailedType ==
  ASSUME NEW r \in JobRecord, JobOK(r)
  PROVE  Failed(r) \in JobRecord /\ JobOK(Failed(r)) /\ Failed(r).slave = r.slave
<1>1. /\ Failed(r) \in JobRecord /\ Failed(r).slave = r.slave /\ Failed(r).st = r.st
      /\ Failed(r).left = r.left /\ Failed(r).on = r.on /\ Failed(r).dialog = r.dialog
      /\ Failed(r).told = r.told
  BY DEF Failed, JobRecord
<1> QED
  BY <1>1 DEF JobOK

LEMMA AskingType ==
  ASSUME NEW r \in JobRecord, JobOK(r), r.st \in Serving3
  PROVE  Asking(r) \in JobRecord /\ JobOK(Asking(r)) /\ Asking(r).slave = r.slave
<1>1. /\ Asking(r) \in JobRecord /\ Asking(r).slave = r.slave /\ Asking(r).st = r.st
      /\ Asking(r).left = r.left /\ Asking(r).on = r.on /\ Asking(r).told = r.told
  BY DEF Asking, JobRecord
<1> QED
  BY <1>1 DEF JobOK

LEMMA DecidedType ==
  ASSUME NEW r \in JobRecord, JobOK(r), r.dialog > 0
  PROVE  /\ Decided(r) \in JobRecord /\ JobOK(Decided(r)) /\ Decided(r).slave = r.slave
         /\ Decided(r).st = r.st /\ Decided(r).left = r.left
<1>1. r.dialog - 1 \in Nat
  BY DEF JobRecord
<1>2. /\ Decided(r) \in JobRecord /\ Decided(r).slave = r.slave /\ Decided(r).st = r.st
      /\ Decided(r).left = r.left /\ Decided(r).on = r.on /\ Decided(r).told = r.told
  BY <1>1 DEF Decided, JobRecord
<1> QED
  BY <1>2 DEF JobOK

LEMMA FatalErrorAgrees ==
  ASSUME Inv, NEW s \in Slave, FatalError(s)
  PROVE  Inv'
<1> DEFINE q == Read(s)
<1>1. pool.slave[s].outbox # <<>>
  BY DEF FatalError, Reads
<1>2. Agrees(q, {}) /\ q.job = pool.job
  BY <1>1, ReadAgrees
<1>3. \/ pool' = q
      \/ \E j \in Listeners(s) : pool' = [q EXCEPT !.job[j] = Failed(q.job[j])]
      \/ \E j \in Listeners(s) : pool' = Done(q, j)
      \/ \E j \in Listeners(s) : pool' = [q EXCEPT !.job[j] = Asking(q.job[j])]
  BY DEF FatalError, Failed, Asking
<1> HIDE DEF q
<1>4. ASSUME NEW j \in Listeners(s)
      PROVE  /\ j \in Job /\ q.job[j].st \in Serving3 /\ q.job[j] \in JobRecord
             /\ JobOK(q.job[j])
  <2>1. j \in Job /\ q.job[j].st \in Serving3
    BY <1>2, <1>4, ListenerServing
  <2> QED
    BY <1>2, <2>1, ServingFacts
<1>5. ASSUME NEW j \in Listeners(s), pool' = [q EXCEPT !.job[j] = Failed(q.job[j])]
      PROVE  Agrees(pool', {})
  BY <1>2, <1>4, <1>5, FailedType, RecordAgrees
<1>6. ASSUME NEW j \in Listeners(s), pool' = Done(q, j)
      PROVE  Agrees(pool', {})
  BY <1>2, <1>4, <1>6, ServingDone
<1>7. ASSUME NEW j \in Listeners(s), pool' = [q EXCEPT !.job[j] = Asking(q.job[j])]
      PROVE  Agrees(pool', {})
  BY <1>2, <1>4, <1>7, AskingType, RecordAgrees
<1> QED
  BY <1>2, <1>3, <1>5, <1>6, <1>7 DEF Inv

LEMMA AnswerAgrees ==
  ASSUME Inv, NEW j \in Job, Answer(j)
  PROVE  Inv'
<1> DEFINE r == Decided(pool.job[j])
           q == [pool EXCEPT !.job[j] = r]
<1>1. pool.job[j] \in JobRecord /\ JobOK(pool.job[j]) /\ Agrees(pool, {})
  BY DEF Inv, Agrees, Lists, PoolType
<1>2. pool.job[j].dialog > 0 /\ pool.job[j].st \in Serving3
  BY <1>1 DEF Answer, JobOK
<1>3. /\ r \in JobRecord /\ JobOK(r) /\ r.slave = pool.job[j].slave /\ r.st = pool.job[j].st
      /\ r.left = pool.job[j].left
  BY <1>1, <1>2, DecidedType
<1>4. \/ pool' = Done(q, j)
      \/ pool' \in ReadyEarly(q, j) /\ pool.job[j].st = "asked"
      \/ pool' = SlaveIsReady(q, j)
      \/ pool' = [q EXCEPT !.job[j] = Missed(q.job[j])]
  <2>1. [q EXCEPT !.job[j].lost = TRUE] = [q EXCEPT !.job[j] = Missed(q.job[j])]
    BY DEF Missed
  <2>2. q = [pool EXCEPT !.job[j].dialog = @ - 1]
    BY DEF Decided
  <2> HIDE DEF q
  <2> QED
    BY <2>1, <2>2 DEF Answer
<1> HIDE DEF r
<1>5. q = [pool EXCEPT !.job[j] = r]
  OBVIOUS
<1>6. q.job[j] = r
  BY <1>1 DEF Agrees, Lists, PoolType
<1> HIDE DEF q
<1>7. Agrees(q, {})
  BY <1>1, <1>2, <1>3, <1>5, RecordAgrees
<1>8. q.job[j].st \in Serving3
  BY <1>2, <1>3, <1>6
<1>9. Agrees(Done(q, j), {}) /\ Agrees(AskCleanUp(q, j), {}) /\ Agrees(SlaveIsReady(q, j), {})
  BY <1>7, <1>8, ServingDone, AskCleanUpAgrees, SlaveIsReadyAgrees
<1>10. pool.job[j].st = "asked" => Agrees(Request(q, j), {})
  <2>1. pool.job[j].st = "asked" => q.job[j].left > 0
    BY <1>1, <1>3, <1>6 DEF JobOK
  <2> QED
    BY <1>7, <1>8, <2>1, RequestAgrees
<1>11. Agrees([q EXCEPT !.job[j] = Missed(q.job[j])], {})
  <2>1. q.job[j] \in JobRecord /\ JobOK(q.job[j])
    BY <1>3, <1>6
  <2>2. Missed(q.job[j]) \in JobRecord /\ JobOK(Missed(q.job[j]))
        /\ Missed(q.job[j]).slave = q.job[j].slave
    BY <2>1, NotedType
  <2> QED
    BY <1>7, <1>8, <2>2, RecordAgrees
<1>12. Agrees(pool', {})
  BY <1>4, <1>9, <1>10, <1>11 DEF ReadyEarly
<1> QED
  BY <1>12 DEF Inv

\* The job that takes over is new, and known to load a file.
AsFile(p, k) == [p EXCEPT !.job[k].left = 1, !.job[k].file = TRUE]

LEMMA FiledAgrees ==
  ASSUME NEW p, Agrees(p, {}), NEW k \in Job, p.job[k].st = "new", NEW d, d = AsFile(p, k)
  PROVE  /\ Agrees(d, {}) /\ d.slave = p.slave /\ \A i \in Job \ {k} : d.job[i] = p.job[i]
         /\ d.job[k].st = "new" /\ d.job[k].left = 1 /\ d.job[k].slave = NoSlave
         /\ p.job[k].slave = NoSlave /\ d.job[k].dialog = p.job[k].dialog
<1> DEFINE w == Wants(p, k, 1)
           r == Filed(w.job[k])
           e == [w EXCEPT !.job[k] = r]
<1>1. 1 \in 1 .. MaxFiles /\ p \in PoolType
  BY FilesAssumption DEF Agrees, Lists
<1>2. w = Wants(p, k, 1)
  OBVIOUS
<1>3. d = e
  BY <1>1 DEF PoolType, Wants, Filed, AsFile
<1> HIDE DEF w
<1>4. /\ Agrees(w, {}) /\ w.slave = p.slave /\ \A i \in Job \ {k} : w.job[i] = p.job[i]
      /\ w.job[k].st = "new" /\ w.job[k].left = 1 /\ w.job[k].slave = NoSlave
      /\ p.job[k].slave = NoSlave /\ w.job[k].dialog = p.job[k].dialog
  BY <1>1, <1>2, NewJobAgrees
<1>5. w \in PoolType /\ w.job[k] \in JobRecord /\ JobOK(w.job[k])
  BY <1>4 DEF Agrees, Lists, PoolType
<1>6. /\ r \in JobRecord /\ JobOK(r) /\ r.slave = w.job[k].slave /\ r.st = w.job[k].st
      /\ r.left = w.job[k].left /\ r.dialog = w.job[k].dialog
  BY <1>5, NotedType
<1> HIDE DEF r
<1>7. e = [w EXCEPT !.job[k] = r]
  OBVIOUS
<1> HIDE DEF e
<1>8. Agrees(e, {})
  <2>1. w.job[k].st \in Serving3 \/ r.st = w.job[k].st
    BY <1>6
  <2> QED
    BY <1>4, <1>6, <1>7, <2>1, RecordAgrees
<1>9. e.slave = w.slave /\ e.job = [w.job EXCEPT ![k] = r]
  BY <1>5, <1>6, <1>7, JobEffect
<1>10. e.job[k] = r /\ \A i \in Job \ {k} : e.job[i] = w.job[i]
  BY <1>5, <1>9 DEF PoolType
<1> QED
  BY <1>3, <1>4, <1>6, <1>8, <1>9, <1>10

LEMMA OpenAsFileAgrees ==
  ASSUME Inv, NEW s \in Slave, OpenAsFile(s)
  PROVE  Inv'
<1> DEFINE p == Read(s)
<1>1. PICK j \in Listeners(s) \cap Viewed, k \in Later :
          /\ pool.slave[s].outbox # <<>> /\ pool.job[k].st = "new"
          /\ \E t \in Available(Cancel(AsFile(p, k), j)) : pool' = GetSlave(Cancel(AsFile(p, k), j), k, t)
  BY DEF OpenAsFile, Reads, AsFile
<1> DEFINE d == AsFile(p, k)
<1>2. Agrees(p, {}) /\ p.job = pool.job /\ j \in Job /\ k \in Job
  BY <1>1, ReadAgrees, ListenerServing, JobsAssumption
<1>3. /\ p.job[j].st \in Serving3 /\ p.job[k].st = "new" /\ j # k
      /\ \A x \in Slave : p.slave[x].st = pool.slave[x].st
  BY <1>1, <1>2, ListenerServing, ReadSame DEF Serving3
<1> HIDE DEF p
<1>4. d = AsFile(p, k)
  OBVIOUS
<1> HIDE DEF d
<1>5. /\ Agrees(d, {}) /\ d.job[j].st \in Serving3
      /\ d.job[k].st = "new" /\ d.job[k].left = 1 /\ d.slave = p.slave
  <2>1. /\ Agrees(d, {}) /\ d.slave = p.slave
        /\ d.job[k].st = "new" /\ d.job[k].left = 1
        /\ \A i \in Job \ {k} : d.job[i] = p.job[i]
    BY <1>2, <1>3, <1>4, FiledAgrees
  <2> QED
    BY <1>2, <1>3, <2>1
<1> DEFINE q == Cancel(d, j)
<1>6. PICK t \in Available(q) : pool' = GetSlave(q, k, t)
  BY <1>1 DEF d
<1>7. Agrees(q, {})
  <2>1. d.job[j].told = 0 /\ (d.job[j].slave # NoSlave => Holds(d, {j}, j, d.job[j].slave))
    BY <1>2, <1>5, ServingFacts DEF Agrees, Lists, Holds
  <2> QED
    BY <1>2, <1>5, <2>1, CancelAgrees
<1>8. /\ q.job[k] = d.job[k]
      /\ \A x \in Slave : d.slave[x].st = "none" => q.slave[x].st = "none"
  BY <1>2, <1>3, <1>5, CancelEffect
<1> HIDE DEF q
<1>9. t \in Slave /\ (IF q.free = {} THEN q.slave[t].st = "none" ELSE t \in q.free)
  <2>1. q.free \subseteq Slave
    BY <1>7 DEF Agrees, Lists, PoolType
  <2> QED
    BY <1>3, <1>5, <1>6, <1>8, <2>1 DEF Available, Unused
<1>10. Agrees(GetSlave(q, k, t), {})
  BY <1>2, <1>5, <1>7, <1>8, <1>9, GetSlaveAgrees
<1> QED
  BY <1>6, <1>10 DEF Inv

LEMMA RedirectionAgrees ==
  ASSUME Inv, NEW s \in Slave, Redirection(s)
  PROVE  Inv'
<1> DEFINE p == Read(s)
<1>1. pool.slave[s].outbox # <<>>
  BY DEF Redirection, Reads
<1>2. /\ Agrees(p, {}) /\ p.job = pool.job
      /\ \A t \in Slave : pool.slave[t].st = "none" => p.slave[t].st = "none"
  <2>1. pool.slave[s] \in SlaveRecord
    BY DEF Inv, Agrees, Lists, PoolType
  <2>2. p.slave[s] = Heard(pool.slave[s]) /\ \A y \in Slave \ {s} : p.slave[y] = pool.slave[y]
    BY <1>1, ReadAgrees
  <2>3. Heard(pool.slave[s]).st = pool.slave[s].st
    BY <1>1, <2>1, HeardType
  <2>4. Agrees(p, {}) /\ p.job = pool.job
    BY <1>1, ReadAgrees
  <2> HIDE DEF p
  <2> QED
    BY <2>2, <2>3, <2>4
<1> HIDE DEF p
<1>3. CASE pool' = p
  BY <1>2, <1>3 DEF Inv
<1>4. ASSUME NEW j \in Listeners(s) \cap Viewed, NEW k \in Later, pool.job[k].st = "new",
             NEW t, t \in Available(DeleteJob(Wants(p, k, 1), j)),
             pool' = GetSlave(DeleteJob(Wants(p, k, 1), j), k, t)
      PROVE  Agrees(pool', {})
  <2> DEFINE d == Wants(p, k, 1)
             q == DeleteJob(d, j)
  <2>1. /\ j \in Job /\ k \in Job /\ p.job[j].st \in Serving3 /\ p.job[k].st = "new"
        /\ j # k /\ 1 \in 1 .. MaxFiles
    <3>1. j \in Job /\ pool.job[j].st \in Serving3
      BY ListenerServing
    <3>2. k \in Job
      BY JobsAssumption
    <3> QED
      BY <1>2, <1>4, <3>1, <3>2, FilesAssumption DEF Serving3
  <2>2. t \in Available(q) /\ pool' = GetSlave(q, k, t)
    BY <1>4
  <2>3. d = Wants(p, k, 1)
    OBVIOUS
  <2> HIDE DEF d
  <2>4. /\ Agrees(d, {}) /\ d.slave = p.slave /\ d.job[j] = p.job[j]
        /\ d.job[k].st = "new" /\ d.job[k].left = 1
    BY <1>2, <2>1, <2>3, NewJobAgrees
  <2>5. k \notin InWaiting(d)
    BY <2>4 DEF Agrees, Lists, InWaiting
  <2>6. Agrees(q, {})
    BY <2>1, <2>4, DeleteJobAgrees
  <2>7. q.job[k] = d.job[k]
    BY <2>1, <2>4, <2>5, DeleteJobAgrees
  <2>8. \A x \in Slave : q.slave[x].st = d.slave[x].st
    BY <2>1, <2>4, DeleteJobAgrees
  <2> HIDE DEF q
  <2>9. t \in Slave /\ (IF q.free = {} THEN q.slave[t].st = "none" ELSE t \in q.free)
    <3>1. q.free \subseteq Slave
      BY <2>6 DEF Agrees, Lists, PoolType
    <3> QED
      BY <1>2, <2>2, <2>4, <2>8, <3>1 DEF Available, Unused
  <2>10. Agrees(GetSlave(q, k, t), {})
    BY <2>1, <2>4, <2>6, <2>7, <2>9, GetSlaveAgrees
  <2> QED
    BY <2>2, <2>10
<1> QED
  BY <1>3, <1>4 DEF Redirection, Inv, p, Wants

LEMMA CloseEventAgrees ==
  ASSUME Inv, NEW s \in Slave, CloseEvent(s)
  PROVE  Inv'
<1> DEFINE q == DeleteSlave(pool, s)
<1>1. pool.slave[s].st = "dead" /\ Agrees(pool, {})
  BY DEF CloseEvent, Inv
<1>2. CASE Listeners(s) = {} /\ pool' = q
  <2>1. \A k \in Job \ {} : pool.job[k].slave # s
    BY <1>2 DEF Listeners
  <2>2. Agrees(q, {})
    BY <1>1, <2>1, DeleteSlaveAgrees
  <2> QED
    BY <1>2, <2>2 DEF Inv
<1>3. ASSUME NEW j \in Listeners(s),
             pool' = Cancel([q EXCEPT !.job[j].slave = NoSlave, !.job[j].error = TRUE], j)
      PROVE  Agrees(pool', {})
  <2> DEFINE r == [pool.job[j] EXCEPT !.slave = NoSlave, !.error = TRUE]
             d == [q EXCEPT !.job[j] = r]
  <2>1. j \in Job /\ pool.job[j].slave = s /\ pool.job[j].st \in Serving3
    BY <1>3, ListenerServing
  <2>2. j \notin InWaiting(pool)
    BY <1>1, <2>1 DEF Agrees, Lists, InWaiting, Serving3
  <2>3. Agrees(pool, {j})
    BY <1>1, <2>1, <2>2, OneMoreGone
  <2>4. \A k \in Job \ {j} : pool.job[k].slave # s
    BY <1>1, <2>1, SlavesAssumption DEF Agrees, Lists, Holds
  <2>5. Agrees(q, {j}) /\ q.job = pool.job
    BY <1>1, <2>3, <2>4, DeleteSlaveAgrees
  <2>6. pool.job[j] \in JobRecord /\ pool.job[j].told = 0
    BY <1>1, <2>1, ServingFacts
  <2>7. r \in JobRecord /\ r.slave = NoSlave /\ r.told = 0
    BY <2>6 DEF JobRecord
  <2>8. pool' = Cancel(d, j)
    BY <1>3, <2>5
  <2> HIDE DEF q, r
  <2>9. d = [q EXCEPT !.job[j] = r]
    OBVIOUS
  <2>10. d.job[j] = r
    BY <2>1, <2>5, <2>7 DEF Agrees, Lists, PoolType
  <2> HIDE DEF d
  <2>11. Agrees(d, {j})
    BY <2>1, <2>5, <2>7, <2>9, GoneJobAgrees
  <2> QED
    BY <2>1, <2>7, <2>8, <2>10, <2>11, CancelAgrees
<1> QED
  BY <1>2, <1>3 DEF CloseEvent, Inv

\* The waiting job that a slave is for gets it when the slave connects.
LEMMA ConnectUp ==
  ASSUME Inv, NEW s \in Slave, Connect(s), NEW d, d = [pool EXCEPT !.slave[s].st = "up"]
  PROVE  /\ pool' = FreeSlave(d, s) /\ Lists(d, {})
         /\ Len(d.waiting) <= Cardinality(Forked(d)) + 1
         /\ s \in Slave \ d.free /\ d.slave[s].st = "up"
         /\ \A k \in Job : d.job[k].slave # s
         /\ d.job = pool.job /\ d.slave[s] = [pool.slave[s] EXCEPT !.st = "up"]
         /\ \A y \in Slave \ {s} : d.slave[y] = pool.slave[y]
<1> DEFINE x == [pool.slave[s] EXCEPT !.st = "up"]
<1>0. d = [pool EXCEPT !.slave[s] = x]
  OBVIOUS
<1>1. /\ pool \in PoolType /\ pool.slave[s].st = "starting" /\ Agrees(pool, {})
      /\ pool' = FreeSlave(d, s)
  BY <1>0 DEF Connect, Inv, Agrees, Lists
<1>2. x \in SlaveRecord /\ x.st = "up"
  BY <1>1 DEF PoolType, SlaveRecord
<1> HIDE DEF x
<1>3. /\ d \in PoolType /\ d.free = pool.free /\ d.waiting = pool.waiting /\ d.job = pool.job
      /\ d.slave = [pool.slave EXCEPT ![s] = x]
  <2>1. [pool.slave EXCEPT ![s] = x] \in [Slave -> SlaveRecord]
    BY <1>1, <1>2 DEF PoolType
  <2> QED
    BY <1>0, <1>1, <2>1 DEF PoolType
<1>4. d.slave[s] = x /\ \A y \in Slave \ {s} : d.slave[y] = pool.slave[y]
  BY <1>1, <1>3 DEF PoolType
<1>5. \A k \in Job : /\ JobOK(pool.job[k]) /\ pool.job[k].slave # s
                     /\ pool.job[k].slave # NoSlave => Holds(pool, {}, k, pool.job[k].slave)
  BY <1>1, SlavesAssumption DEF Agrees, Lists, Holds
<1>6. \A k \in Job : d.job[k].slave # NoSlave => Holds(d, {}, k, d.job[k].slave)
  BY <1>3, <1>4, <1>5 DEF Holds
<1>7. /\ IsFiniteSet(Forked(pool)) /\ Forked(d) = Forked(pool) \ {s} /\ s \in Forked(pool)
      /\ Len(pool.waiting) <= Cardinality(Forked(pool))
  BY <1>1, <1>2, <1>4 DEF Agrees, Lists, Forked
<1>8. /\ IsFiniteSet(Forked(d)) /\ Len(d.waiting) <= Cardinality(Forked(d)) + 1
  <2>1. IsFiniteSet(Forked(d)) /\ Cardinality(Forked(d)) = Cardinality(Forked(pool)) - 1
    BY <1>7, FS_RemoveElement
  <2>2. Cardinality(Forked(pool)) \in Nat
    BY <1>7, FS_CardinalityType
  <2> QED
    BY <1>3, <1>7, <2>1, <2>2
<1>9. s \notin pool.free /\ \A y \in pool.free : pool.slave[y].st \in {"up", "dead"}
  BY <1>1 DEF Agrees, Lists
<1>10. \A y \in d.free : d.slave[y].st \in {"up", "dead"}
  <2>1. \A y \in pool.free : y \in Slave \ {s}
    BY <1>1, <1>9 DEF PoolType
  <2> QED
    BY <1>3, <1>4, <1>9, <2>1
<1>11. Lists(d, {})
  BY <1>1, <1>3, <1>5, <1>6, <1>8, <1>10 DEF Agrees, Lists
<1>12. x = [pool.slave[s] EXCEPT !.st = "up"]
  BY DEF x
<1> QED
  BY <1>1, <1>2, <1>3, <1>4, <1>5, <1>8, <1>9, <1>11, <1>12

LEMMA ConnectAgrees ==
  ASSUME Inv, NEW s \in Slave, Connect(s)
  PROVE  Inv'
<1> DEFINE d == [pool EXCEPT !.slave[s].st = "up"]
<1>1. d = [pool EXCEPT !.slave[s].st = "up"]
  OBVIOUS
<1> HIDE DEF d
<1>2. /\ pool' = FreeSlave(d, s) /\ Lists(d, {})
      /\ Len(d.waiting) <= Cardinality(Forked(d)) + 1
      /\ s \in Slave \ d.free /\ d.slave[s].st \in {"up", "dead"}
      /\ \A k \in Job \ {} : d.job[k].slave # s
  BY <1>1, ConnectUp
<1>3. Agrees(FreeSlave(d, s), {})
  BY <1>2, FreeSlaveAgrees
<1> QED
  BY <1>2, <1>3 DEF Inv

\* A slave's process goes on, dies or was not started.
LEMMA ProcessAgrees ==
  ASSUME Inv, NEW s \in Slave,
         ExecFails(s) \/ SendPID(s) \/ CleanUp(s) \/ Work(s) \/ Redirects(s) \/ Dies(s)
  PROVE  Inv'
<1> DEFINE y == pool.slave[s]
           m(op) == Msg(op, Head(y.inbox).job)
           dead == [y EXCEPT !.st = "dead", !.inbox = <<>>]
<1>1. y \in SlaveRecord /\ Agrees(pool, {})
  BY DEF Inv, Agrees, Lists, PoolType
<1>2. Unborn \in SlaveRecord /\ Unborn.st = "unborn"
  <2>1. Unborn = [st |-> "unborn", inbox |-> <<>>, outbox |-> <<>>]
    BY DEF Unborn, NoProcess
  <2>2. <<>> \in Seq(Message)
    OBVIOUS
  <2> QED
    BY <2>1, <2>2 DEF SlaveRecord
<1>3. dead \in SlaveRecord /\ dead.st = "dead"
  <2>1. <<>> \in Seq(Message)
    OBVIOUS
  <2> QED
    BY <1>1, <2>1 DEF SlaveRecord
<1>4. ASSUME y.inbox # <<>>, NEW op \in {"pid", "done", "error", "redirect"}
      PROVE  m(op) \in Message
  <2>1. Head(y.inbox) \in Message
    BY <1>1, <1>4, HeadTailProperties DEF SlaveRecord
  <2> QED
    BY <2>1 DEF Message, Msg
<1>5. CASE ExecFails(s)
  <2>1. y.st = "starting" /\ pool' = [pool EXCEPT !.slave[s] = Unborn]
    BY <1>5 DEF ExecFails
  <2> HIDE DEF m, dead
  <2>2. Agrees(pool', {})
    BY <1>1, <1>2, <2>1, SlaveAgrees
  <2> QED
    BY <2>2 DEF Inv
<1>6. CASE Dies(s)
  <2>1. y.st = "up" /\ pool' = [pool EXCEPT !.slave[s] = dead]
    BY <1>6 DEF Dies
  <2> HIDE DEF m, dead
  <2>2. Agrees(pool', {})
    BY <1>1, <1>3, <2>1, SlaveAgrees
  <2> QED
    BY <2>2 DEF Inv
<1>7. ASSUME y.inbox # <<>>, y.st = "up", NEW op \in {"pid", "done", "error"}, pool' = Tell(s, op)
      PROVE  Agrees(pool', {})
  <2>1. pool' = [pool EXCEPT !.slave[s] = Served(y, m(op))]
    BY <1>7 DEF Tell, Served
  <2>2. m(op) \in Message
    BY <1>4, <1>7
  <2> HIDE DEF m, dead
  <2>3. Served(y, m(op)) \in SlaveRecord /\ Served(y, m(op)).st = y.st
    BY <1>1, <1>7, <2>2, ServedType
  <2> QED
    BY <1>1, <1>7, <2>1, <2>3, SlaveAgrees
<1>8. CASE Redirects(s)
  <2>1. y.inbox # <<>> /\ y.st = "up" /\ pool' = [pool EXCEPT !.slave[s] = Said(y, m("redirect"))]
    BY <1>8 DEF Redirects, Asked, Said
  <2>2. m("redirect") \in Message
    BY <1>4, <2>1
  <2> HIDE DEF m, dead
  <2>3. Said(y, m("redirect")) \in SlaveRecord /\ Said(y, m("redirect")).st = y.st
    BY <1>1, <2>2, SaidType
  <2>4. Agrees(pool', {})
    BY <1>1, <2>1, <2>3, SlaveAgrees
  <2> QED
    BY <2>4 DEF Inv
<1>9. ASSUME y.inbox # <<>>, y.st = "up", NEW j, j = Head(y.inbox).job,
             pool' = [pool EXCEPT !.slave[s].inbox = Tail(@), !.job[j].lost = TRUE]
      PROVE  Agrees(pool', {})
  <2> DEFINE q == [pool EXCEPT !.slave[s] = Silent(y)]
             r == Missed(q.job[j])
  <2>1. Silent(y) \in SlaveRecord /\ Silent(y).st = y.st /\ j \in Job
    BY <1>1, <1>9, SilentType
  <2>2. pool' = [q EXCEPT !.job[j] = r]
    BY <1>1, <1>9 DEF Silent, Missed, Agrees, Lists, PoolType
  <2>3. q = [pool EXCEPT !.slave[s] = Silent(y)]
    OBVIOUS
  <2> HIDE DEF m, dead, q
  <2>4. Agrees(q, {})
    BY <1>1, <2>1, <2>3, SlaveAgrees
  <2>5. q.job[j] \in JobRecord /\ JobOK(q.job[j])
    BY <2>1, <2>4 DEF Agrees, Lists, PoolType
  <2>6. r \in JobRecord /\ JobOK(r) /\ r.slave = q.job[j].slave /\ r.st = q.job[j].st
    BY <2>5, NotedType
  <2> HIDE DEF r
  <2> QED
    BY <2>1, <2>2, <2>4, <2>6, RecordAgrees
<1>10. CASE SendPID(s) \/ CleanUp(s)
  BY <1>7, <1>10 DEF SendPID, CleanUp, Asked, Inv
<1>11. CASE Work(s)
  BY <1>7, <1>9, <1>11 DEF Work, Asked, Inv
<1> QED
  BY <1>5, <1>6, <1>8, <1>10, <1>11
-----------------------------------------------------------------------------
LEMMA InitInv == Init => Inv
<1> SUFFICES ASSUME Init PROVE Inv
  OBVIOUS
<1>1. NewJob \in JobRecord /\ JobOK(NewJob) /\ NewJob.slave = NoSlave
  <2>1. 0 \in 0 .. MaxFiles
    BY FilesAssumption
  <2> QED
    BY <2>1 DEF NewJob, JobRecord, JobState, JobOK, Serving3
<1>2. NoProcess \in SlaveRecord /\ NoProcess.st = "none"
  <2>1. <<>> \in Seq(Message)
    OBVIOUS
  <2> QED
    BY <2>1 DEF NoProcess, SlaveRecord
<1>3. /\ pool \in PoolType /\ pool.free = {} /\ pool.waiting = <<>>
      /\ \A j \in Job : pool.job[j] = NewJob
      /\ \A s \in Slave : pool.slave[s] = NoProcess
  <2>1. <<>> \in Seq(Job)
    OBVIOUS
  <2> QED
    BY <1>1, <1>2, <2>1 DEF Init, PoolType
<1>4. Forked(pool) = {}
  BY <1>2, <1>3 DEF Forked
<1>5. IsFiniteSet(Forked(pool)) /\ Cardinality(Forked(pool)) = 0
  BY <1>4, FS_EmptySet
<1> QED
  BY <1>1, <1>3, <1>5 DEF Inv, Agrees, Lists

LEMMA NextInv == Inv /\ [Next]_pool => Inv'
<1> SUFFICES ASSUME Inv, [Next]_pool PROVE Inv'
  OBVIOUS
<1>1. CASE UNCHANGED pool
  BY <1>1 DEF Inv
<1>2. ASSUME NEW j \in Job, Start(j) PROVE Inv'
  BY <1>2, StartAgrees
<1>3. ASSUME NEW j \in Job, UserCancels(j) PROVE Inv'
  BY <1>3, UserCancelsAgrees
<1>4. ASSUME NEW j \in Job, Answer(j) PROVE Inv'
  BY <1>4, AnswerAgrees
<1>5. ASSUME NEW s \in Slave, Reading(s) PROVE Inv'
  BY <1>5, StartJobAgrees, SlaveDoneAgrees, FatalErrorAgrees, OpenAsFileAgrees, RedirectionAgrees,
     CloseEventAgrees DEF Reading
<1>6. ASSUME NEW s \in Slave, Serving(s) \/ ExecFails(s) \/ Redirects(s) \/ Dies(s) PROVE Inv'
  BY <1>6, ConnectAgrees, ProcessAgrees DEF Serving
<1>7. ASSUME NEW s \in Slave, SlotTimer(s) PROVE Inv'
  BY <1>7, SlotTimerAgrees
<1> QED
  BY <1>1, <1>2, <1>3, <1>4, <1>5, <1>6, <1>7 DEF Next

\* Jobs, slaves, lists and requests agree in every state: what each theorem
\* below reads off (kioserver.cpp:740-823; kiojob.cpp:64-77).
THEOREM AlwaysInv == Spec => []Inv
  BY InitInv, NextInv, PTL DEF Spec

\* Every list, job and slave of the server has its type (kioserver_ipc.h:90-118).
THEOREM PoolTyped == Spec => []TypeOK
<1>1. Inv => TypeOK
  BY DEF Inv, Agrees, Lists, PoolType, TypeOK
<1> QED
  BY <1>1, AlwaysInv, PTL

\* A slave is lent to one job at a time and never in the list of free slaves
\* meanwhile, and nobody keeps a pointer to a deleted one, whatever fails and
\* whoever cancels (kioserver.cpp:773-797, 815-823; kiojob.cpp:64-77).
THEOREM SlavesExclusive == Spec => []Exclusive
<1>1. Inv => Exclusive
  <2> SUFFICES ASSUME Inv PROVE Exclusive
    OBVIOUS
  <2>1. \A j \in Job : pool.job[j].slave # NoSlave => Holds(pool, {}, j, pool.job[j].slave)
    BY DEF Inv, Agrees, Lists
  <2>2. /\ \A s \in pool.free : pool.slave[s].st \in {"up", "dead"}
        /\ pool.free \subseteq Slave
    BY DEF Inv, Agrees, Lists, PoolType
  <2>3. \A j, k \in Job : pool.job[j].slave = pool.job[k].slave /\ j # k
                           => pool.job[j].slave = NoSlave
    BY <2>1 DEF Holds
  <2>4. \A j \in Job : pool.job[j].slave \notin pool.free
    BY <2>1, <2>2, SlavesAssumption DEF Holds
  <2>5. \A j \in Job : pool.job[j].slave # NoSlave
                        => pool.slave[pool.job[j].slave].st \in {"up", "dead"}
    BY <2>1 DEF Holds
  <2> QED
    BY <2>2, <2>3, <2>4, <2>5 DEF Exclusive
<1> QED
  BY <1>1, AlwaysInv, PTL

\* A job emits finished once, whatever ends it, and a job in the list of
\* waiting jobs has not ended (kiojob.cpp:1967-2041, 2107-2118).
THEOREM JobsEndOnce == Spec => []EndsOnce
<1>1. Inv => EndsOnce
  BY DEF Inv, Agrees, Lists, JobOK, EndsOnce, PoolType
<1> QED
  BY <1>1, AlwaysInv, PTL

\* For every job that waits a slave is on its way, or could not be started
\* (kioserver.cpp:785-797).
THEOREM SlavesComing == Spec => []SlaveComing
<1>1. Inv => SlaveComing
  BY DEF Inv, Agrees, Forked, SlaveComing
<1> QED
  BY <1>1, AlwaysInv, PTL
-----------------------------------------------------------------------------
(* What slaves still have to say, when no request fails *)

Odd == {"getPID", "pid", "error"}

\* A slave that no job has just asked for its process id
Clean(x) ==
    /\ \A i \in 1 .. Len(x.inbox) : x.inbox[i].op \notin Odd
    /\ \A i \in 1 .. Len(x.outbox) : x.outbox[i].op \notin Odd

\* One that was asked for it: the answer comes after everything else.
Asks(x) ==
    /\ \A i \in 1 .. Len(x.inbox) :
          x.inbox[i].op \in Odd => x.inbox[i].op = "getPID" /\ i = Len(x.inbox)
    /\ \A i \in 1 .. Len(x.outbox) :
          x.outbox[i].op \in Odd => /\ x.outbox[i].op = "pid" /\ i = Len(x.outbox)
                                    /\ x.inbox = <<>>

\* One that speaks of the job j only
Own(x, j) ==
    /\ \A i \in 1 .. Len(x.inbox) : x.inbox[i].job = j
    /\ \A i \in 1 .. Len(x.outbox) : x.outbox[i].job = j

Fits(x, r, j) == IF r.on > 0 THEN Clean(x) /\ Own(x, j) ELSE r.st = "asked" /\ Asks(x)

Tidy(p, gone) ==
    /\ \A j \in Job : p.job[j].dialog = 0
    /\ \A j \in Job \ gone : p.job[j].slave # NoSlave
                               => Fits(p.slave[p.job[j].slave], p.job[j], j)
    /\ \A s \in Slave : (\A j \in Job \ gone : p.job[j].slave # s) => Clean(p.slave[s])

\* The job j alone has, or gets, the slave s.
LEMMA TidyHeld ==
  ASSUME NEW p, NEW gone, Tidy(p, gone), NEW j \in Job \ gone, NEW s \in Slave,
         p.job[j].slave \in {NoSlave, s},
         \A k \in Job \ (gone \cup {j}) : p.job[k].slave # s,
         NEW q, \A k \in Job \ {j} : q.job[k] = p.job[k],
         \A x \in Slave \ {s} : q.slave[x] = p.slave[x],
         \A k \in Job : p.job[k].slave \in Slave \cup {NoSlave},
         q.job[j].slave = s, q.job[j].dialog = 0, Fits(q.slave[s], q.job[j], j)
  PROVE  Tidy(q, gone)
<1>1. \A k \in Job : q.job[k].dialog = 0
  BY DEF Tidy
<1>2. ASSUME NEW k \in Job \ gone, q.job[k].slave # NoSlave
      PROVE  Fits(q.slave[q.job[k].slave], q.job[k], k)
  <2>1. CASE k = j
    BY <2>1
  <2>2. CASE k # j
    <3>1. q.job[k] = p.job[k] /\ p.job[k].slave \in Slave \ {s}
      BY <1>2, <2>2
    <3> QED
      BY <1>2, <3>1 DEF Tidy
  <2> QED
    BY <2>1, <2>2
<1>3. ASSUME NEW x \in Slave, \A k \in Job \ gone : q.job[k].slave # x
      PROVE  Clean(q.slave[x])
  <2>1. x # s
    BY <1>3
  <2>2. \A k \in Job \ gone : p.job[k].slave # x
    BY <1>3, <2>1, SlavesAssumption
  <2> QED
    BY <2>1, <2>2 DEF Tidy
<1> QED
  BY <1>1, <1>2, <1>3 DEF Tidy

\* Nobody has the slave s, and jobs that have no slave change.
LEMMA TidyUnheld ==
  ASSUME NEW p, NEW gone, Tidy(p, gone), NEW s \in Slave,
         \A k \in Job \ gone : p.job[k].slave # s,
         \A k \in Job : p.job[k].slave \in Slave \cup {NoSlave},
         NEW q, \A x \in Slave \ {s} : q.slave[x] = p.slave[x], Clean(q.slave[s]),
         \A k \in Job : \/ q.job[k] = p.job[k]
                        \/ /\ p.job[k].slave = NoSlave /\ q.job[k].slave = NoSlave
                           /\ q.job[k].dialog = 0
  PROVE  Tidy(q, gone)
<1>1. \A k \in Job : q.job[k].dialog = 0 /\ q.job[k].slave = p.job[k].slave
  BY DEF Tidy
<1>2. ASSUME NEW k \in Job \ gone, q.job[k].slave # NoSlave
      PROVE  Fits(q.slave[q.job[k].slave], q.job[k], k)
  <2>1. q.job[k] = p.job[k] /\ p.job[k].slave \in Slave \ {s}
    BY <1>2
  <2> QED
    BY <1>2, <2>1 DEF Tidy
<1>3. ASSUME NEW x \in Slave, \A k \in Job \ gone : q.job[k].slave # x
      PROVE  Clean(q.slave[x])
  BY <1>1, <1>3 DEF Tidy
<1> QED
  BY <1>1, <1>2, <1>3 DEF Tidy

\* The slave of a job that is not looked at any longer has nothing odd to say.
LEMMA TidyGone ==
  ASSUME NEW p, NEW j \in Job, Tidy(p, {}) \/ Tidy(p, {j}),
         NEW q, q.job = p.job,
         p.job[j].slave # NoSlave => Clean(q.slave[p.job[j].slave]),
         \A x \in Slave : x # p.job[j].slave => q.slave[x] = p.slave[x],
         \A k \in Job \ {j} : p.job[k].slave # NoSlave => p.job[k].slave # p.job[j].slave,
         \A k \in Job : p.job[k].slave \in Slave \cup {NoSlave}
  PROVE  Tidy(q, {j})
<1>1. \A k \in Job : q.job[k].dialog = 0
  BY DEF Tidy
<1>2. ASSUME NEW k \in Job \ {j}, q.job[k].slave # NoSlave
      PROVE  Fits(q.slave[q.job[k].slave], q.job[k], k)
  <2>1. p.job[k].slave \in Slave /\ p.job[k].slave # p.job[j].slave
    BY <1>2
  <2>2. Fits(p.slave[p.job[k].slave], p.job[k], k)
    BY <1>2 DEF Tidy
  <2> QED
    BY <2>1, <2>2
<1>3. ASSUME NEW x \in Slave, \A k \in Job \ {j} : q.job[k].slave # x
      PROVE  Clean(q.slave[x])
  <2>1. CASE x = p.job[j].slave
    BY <2>1, SlavesAssumption
  <2>2. CASE x # p.job[j].slave
    <3>1. \A k \in Job : p.job[k].slave # x
      BY <1>3, <2>2
    <3>2. Clean(p.slave[x])
      BY <3>1 DEF Tidy
    <3> QED
      BY <2>2, <3>2
  <2> QED
    BY <2>1, <2>2
<1> QED
  BY <1>1, <1>2, <1>3 DEF Tidy

\* A job comes back without a slave.
LEMMA TidyBack ==
  ASSUME NEW p, NEW j \in Job, Tidy(p, {j}),
         NEW q, q.slave = p.slave, \A k \in Job \ {j} : q.job[k] = p.job[k],
         q.job[j].slave = NoSlave, q.job[j].dialog = 0
  PROVE  Tidy(q, {})
<1>1. \A k \in Job : q.job[k].dialog = 0
  BY DEF Tidy
<1>2. ASSUME NEW k \in Job, q.job[k].slave # NoSlave
      PROVE  Fits(q.slave[q.job[k].slave], q.job[k], k)
  <2>1. k # j
    BY <1>2
  <2> QED
    BY <1>2, <2>1 DEF Tidy
<1>3. ASSUME NEW x \in Slave, \A k \in Job : q.job[k].slave # x
      PROVE  Clean(q.slave[x])
  BY <1>3 DEF Tidy
<1> QED
  BY <1>1, <1>2, <1>3 DEF Tidy

\* A slave that changes says nothing new.
LEMMA TidySame ==
  ASSUME NEW p, NEW gone, Tidy(p, gone), NEW s \in Slave, NEW q, q.job = p.job,
         \A x \in Slave \ {s} : q.slave[x] = p.slave[x],
         Clean(p.slave[s]) => Clean(q.slave[s]), Asks(p.slave[s]) => Asks(q.slave[s]),
         \A j \in Job : Own(p.slave[s], j) => Own(q.slave[s], j),
         \A k \in Job : p.job[k].slave \in Slave \cup {NoSlave}
  PROVE  Tidy(q, gone)
<1>1. \A k \in Job \ gone, x \in Slave : Fits(p.slave[x], p.job[k], k) => Fits(q.slave[x], q.job[k], k)
  <2> TAKE k \in Job \ gone, x \in Slave
  <2>1. CASE x = s
    BY <2>1 DEF Fits
  <2>2. CASE x # s
    BY <2>2
  <2> QED
    BY <2>1, <2>2
<1>2. \A x \in Slave : Clean(p.slave[x]) => Clean(q.slave[x])
  OBVIOUS
<1> QED
  BY <1>1, <1>2 DEF Tidy

\* Something is noted about a job.
LEMMA TidyNoted ==
  ASSUME NEW p, Tidy(p, {}), NEW j \in Job, NEW q, q.slave = p.slave,
         \A k \in Job \ {j} : q.job[k] = p.job[k],
         q.job[j].slave = p.job[j].slave, q.job[j].dialog = p.job[j].dialog,
         q.job[j].on = p.job[j].on, q.job[j].st = p.job[j].st
  PROVE  Tidy(q, {})
<1>1. \A k \in Job : /\ q.job[k].slave = p.job[k].slave /\ q.job[k].dialog = p.job[k].dialog
                     /\ q.job[k].on = p.job[k].on /\ q.job[k].st = p.job[k].st
  OBVIOUS
<1>2. \A k \in Job : \A x : Fits(x, q.job[k], k) <=> Fits(x, p.job[k], k)
  BY <1>1 DEF Fits
<1> QED
  BY <1>1, <1>2 DEF Tidy

LEMMA SentSays ==
  ASSUME NEW x \in SlaveRecord, NEW j \in Job, NEW op \in ToSlave
  PROVE  /\ Clean(x) /\ op = "getPID" => Asks(Sent(x, op, j))
         /\ Clean(x) /\ op # "getPID" => Clean(Sent(x, op, j))
         /\ Own(x, j) => Own(Sent(x, op, j), j)
<1> DEFINE y == Sent(x, op, j)
           m == Msg(op, j)
<1>1. x.inbox \in Seq(Message) /\ x.outbox \in Seq(Message) /\ m \in Message
  BY DEF SlaveRecord, Msg, Message, ToSlave
<1>2. y.outbox = x.outbox /\ y.inbox = Append(x.inbox, m)
  BY SentType
<1>3. m.op = op /\ m.job = j
  BY DEF Msg
<1> HIDE DEF y, m
<1>4. /\ Len(y.inbox) = Len(x.inbox) + 1 /\ Len(x.inbox) \in Nat
      /\ y.inbox[Len(x.inbox) + 1] = m
      /\ \A i \in 1 .. Len(x.inbox) : y.inbox[i] = x.inbox[i]
  BY <1>1, <1>2, AppendProperties
<1>5. \A i \in 1 .. Len(y.inbox) : i \in 1 .. Len(x.inbox) \/ i = Len(x.inbox) + 1
  BY <1>4
<1>6. Own(x, j) => Own(y, j)
  BY <1>2, <1>3, <1>4, <1>5 DEF Own
<1>7. Clean(x) /\ op # "getPID" => Clean(y)
  BY <1>2, <1>3, <1>4, <1>5 DEF Clean, Odd, ToSlave
<1>8. Clean(x) /\ op = "getPID" => Asks(y)
  BY <1>2, <1>3, <1>4, <1>5 DEF Clean, Asks, Odd
<1> QED
  BY <1>6, <1>7, <1>8 DEF y

LEMMA WorksSays ==
  ASSUME NEW x \in SlaveRecord, NEW j \in Job, NEW n \in Nat, Clean(x), Own(x, j)
  PROVE  Clean(Works(x, j, n)) /\ Own(Works(x, j, n), j)
<1> DEFINE y == Works(x, j, n)
           w == [i \in 1 .. n |-> Msg("work", j)]
<1>1. x.inbox \in Seq(Message) /\ x.outbox \in Seq(Message)
      /\ w \in Seq(Message) /\ Len(w) = n
  <2>1. Msg("work", j) \in Message
    BY DEF Msg, Message
  <2> QED
    BY <2>1 DEF SlaveRecord
<1>2. y.outbox = x.outbox /\ y.inbox = x.inbox \o w
  BY WorksType
<1>3. \A i \in 1 .. n : w[i].op = "work" /\ w[i].job = j
  BY DEF Msg
<1> HIDE DEF y, w
<1>4. /\ Len(y.inbox) = Len(x.inbox) + n /\ Len(x.inbox) \in Nat
      /\ \A i \in 1 .. Len(x.inbox) + n :
            y.inbox[i] = IF i <= Len(x.inbox) THEN x.inbox[i] ELSE w[i - Len(x.inbox)]
  <2>1. /\ Len(x.inbox \o w) = Len(x.inbox) + Len(w)
        /\ \A i \in 1 .. Len(x.inbox) + Len(w) :
              (x.inbox \o w)[i] = IF i <= Len(x.inbox) THEN x.inbox[i] ELSE w[i - Len(x.inbox)]
    BY <1>1, ConcatProperties
  <2>2. Len(x.inbox) \in Nat
    BY <1>1
  <2> QED
    BY <1>1, <1>2, <2>1, <2>2
<1>5. \A i \in 1 .. Len(y.inbox) : \/ i \in 1 .. Len(x.inbox) /\ y.inbox[i] = x.inbox[i]
                                   \/ \E k \in 1 .. n : y.inbox[i] = w[k]
  <2> TAKE i \in 1 .. Len(y.inbox)
  <2>1. CASE i <= Len(x.inbox)
    BY <1>4, <2>1
  <2>2. CASE ~(i <= Len(x.inbox))
    <3>1. i - Len(x.inbox) \in 1 .. n
      BY <1>4, <2>2
    <3> QED
      BY <1>4, <2>2, <3>1
  <2> QED
    BY <2>1, <2>2
<1>6. Own(y, j)
  BY <1>2, <1>3, <1>5 DEF Own
<1>7. Clean(y)
  BY <1>2, <1>3, <1>5 DEF Clean, Odd
<1> QED
  BY <1>6, <1>7 DEF y

\* Reading the first message leaves the others.
LEMMA HeardSays ==
  ASSUME NEW x \in SlaveRecord, x.outbox # <<>>
  PROVE  /\ Clean(x) => Clean(Heard(x))
         /\ Asks(x) => Asks(Heard(x))
         /\ \A j \in Job : Own(x, j) => Own(Heard(x), j)
         /\ Asks(x) /\ Head(x.outbox).op = "pid"
              => Clean(Heard(x)) /\ \A j \in Job : Own(Heard(x), j)
         /\ Clean(x) => Head(x.outbox).op \notin Odd
<1> DEFINE y == Heard(x)
<1>1. x.inbox \in Seq(Message) /\ x.outbox \in Seq(Message)
  BY DEF SlaveRecord
<1>2. y.outbox = Tail(x.outbox) /\ y.inbox = x.inbox
  BY HeardType
<1> HIDE DEF y
<1>3. /\ Len(x.outbox) \in Nat \ {0} /\ Len(y.outbox) = Len(x.outbox) - 1
      /\ Head(x.outbox) = x.outbox[1]
      /\ \A i \in 1 .. Len(y.outbox) : y.outbox[i] = x.outbox[i + 1]
  BY <1>1, <1>2, HeadTailProperties
<1>4. /\ 1 \in 1 .. Len(x.outbox)
      /\ \A i \in 1 .. Len(y.outbox) : /\ i + 1 \in 1 .. Len(x.outbox)
                                       /\ i + 1 = Len(x.outbox) => i = Len(y.outbox)
  BY <1>3
<1>5. Clean(x) => Clean(y)
  BY <1>2, <1>3, <1>4 DEF Clean
<1>6. Asks(x) => Asks(y)
  BY <1>2, <1>3, <1>4 DEF Asks
<1>7. \A j \in Job : Own(x, j) => Own(y, j)
  BY <1>2, <1>3, <1>4 DEF Own
<1>8. ASSUME Asks(x), Head(x.outbox).op = "pid"
      PROVE  Clean(y) /\ \A j \in Job : Own(y, j)
  <2>1. 1 = Len(x.outbox) /\ x.inbox = <<>>
    BY <1>3, <1>4, <1>8 DEF Asks, Odd
  <2>2. Len(y.outbox) = 0 /\ Len(y.inbox) = 0
    BY <1>2, <1>3, <2>1
  <2> QED
    BY <2>2 DEF Clean, Own
<1>9. Clean(x) => Head(x.outbox).op \notin Odd
  BY <1>3, <1>4 DEF Clean
<1> QED
  BY <1>5, <1>6, <1>7, <1>8, <1>9 DEF y

\* The slave takes the first message, and says nothing.
LEMMA SilentSays ==
  ASSUME NEW x \in SlaveRecord, x.inbox # <<>>, NEW y \in SlaveRecord,
         y.inbox = Tail(x.inbox), y.outbox = x.outbox
  PROVE  /\ Clean(x) => Clean(y)
         /\ Asks(x) => Asks(y)
         /\ \A j \in Job : Own(x, j) => Own(y, j)
<1>1. x.inbox \in Seq(Message) /\ x.outbox \in Seq(Message)
  BY DEF SlaveRecord
<1>2. /\ Len(x.inbox) \in Nat \ {0} /\ Len(y.inbox) = Len(x.inbox) - 1
      /\ \A i \in 1 .. Len(y.inbox) : y.inbox[i] = x.inbox[i + 1]
  BY <1>1, HeadTailProperties
<1>3. \A i \in 1 .. Len(y.inbox) : /\ i + 1 \in 1 .. Len(x.inbox)
                                   /\ i + 1 = Len(x.inbox) => i = Len(y.inbox)
  BY <1>2
<1>4. ASSUME NEW j \in Job, Own(x, j) PROVE Own(y, j)
  BY <1>2, <1>3, <1>4 DEF Own
<1>5. Clean(x) => Clean(y)
  BY <1>2, <1>3 DEF Clean
<1>6. ASSUME Asks(x) PROVE Asks(y)
  <2>1. \A i \in 1 .. Len(y.inbox) :
          y.inbox[i].op \in Odd => y.inbox[i].op = "getPID" /\ i = Len(y.inbox)
    BY <1>2, <1>3, <1>6 DEF Asks
  <2>2. \A i \in 1 .. Len(y.outbox) : y.outbox[i].op \notin Odd
    BY <1>6 DEF Asks
  <2> QED
    BY <2>1, <2>2 DEF Asks
<1> QED
  BY <1>4, <1>5, <1>6

\* The slave answers the first message.
LEMMA ServedSays ==
  ASSUME NEW x \in SlaveRecord, x.inbox # <<>>, NEW op \in {"pid", "done"},
         op = "pid" <=> Head(x.inbox).op = "getPID",
         NEW m \in Message, m = Msg(op, Head(x.inbox).job)
  PROVE  /\ Clean(x) => Clean(Served(x, m))
         /\ Asks(x) => Asks(Served(x, m))
         /\ \A j \in Job : Own(x, j) => Own(Served(x, m), j)
<1> DEFINE y == Served(x, m)
<1>1. x.inbox \in Seq(Message) /\ x.outbox \in Seq(Message)
  BY DEF SlaveRecord
<1>2. y.outbox = Append(x.outbox, m) /\ y.inbox = Tail(x.inbox)
  BY ServedType
<1>3. m.op = op /\ m.job = Head(x.inbox).job
  BY DEF Msg
<1> HIDE DEF y
<1>4. /\ Len(x.inbox) \in Nat \ {0} /\ Len(y.inbox) = Len(x.inbox) - 1
      /\ Head(x.inbox) = x.inbox[1]
      /\ \A i \in 1 .. Len(y.inbox) : y.inbox[i] = x.inbox[i + 1]
  BY <1>1, <1>2, HeadTailProperties
<1>5. /\ Len(y.outbox) = Len(x.outbox) + 1 /\ Len(x.outbox) \in Nat
      /\ y.outbox[Len(x.outbox) + 1] = m
      /\ \A i \in 1 .. Len(x.outbox) : y.outbox[i] = x.outbox[i]
  BY <1>1, <1>2, AppendProperties
<1>6. /\ 1 \in 1 .. Len(x.inbox)
      /\ \A i \in 1 .. Len(y.inbox) : /\ i + 1 \in 1 .. Len(x.inbox)
                                      /\ i + 1 = Len(x.inbox) => i = Len(y.inbox)
      /\ \A i \in 1 .. Len(y.outbox) : i \in 1 .. Len(x.outbox) \/ i = Len(x.outbox) + 1
  BY <1>4, <1>5
<1>7. ASSUME NEW j \in Job, Own(x, j) PROVE Own(y, j)
  <2>1. m.job = j
    BY <1>3, <1>4, <1>6, <1>7 DEF Own
  <2>2. \A i \in 1 .. Len(y.inbox) : y.inbox[i].job = j
    BY <1>4, <1>6, <1>7 DEF Own
  <2>3. \A i \in 1 .. Len(y.outbox) : y.outbox[i].job = j
    BY <1>5, <1>6, <1>7, <2>1 DEF Own
  <2> QED
    BY <2>2, <2>3 DEF Own
<1>8. Clean(x) => Clean(y)
  <2>1. Clean(x) => op = "done"
    BY <1>4, <1>6 DEF Clean, Odd
  <2> QED
    BY <1>3, <1>4, <1>5, <1>6, <2>1 DEF Clean, Odd
<1>9. ASSUME Asks(x) PROVE Asks(y)
  <2>1. \A i \in 1 .. Len(x.outbox) : x.outbox[i].op \notin Odd
    BY <1>1, <1>9 DEF Asks
  <2>2. \A i \in 1 .. Len(y.inbox) :
          y.inbox[i].op \in Odd => y.inbox[i].op = "getPID" /\ i = Len(y.inbox)
    BY <1>4, <1>6, <1>9 DEF Asks
  <2>3. op = "pid" => y.inbox = <<>>
    <3>1. op = "pid" => Len(y.inbox) = 0
      <4>1. op = "pid" => x.inbox[1].op = "getPID"
        BY <1>4
      <4>2. op = "pid" => 1 = Len(x.inbox)
        BY <1>6, <1>9, <4>1 DEF Asks, Odd
      <4> QED
        BY <1>4, <4>2
    <3>2. y.inbox \in Seq(Message)
      BY <1>1, <1>2, HeadTailProperties
    <3> QED
      BY <3>1, <3>2, EmptySeq
  <2>4. \A i \in 1 .. Len(y.outbox) :
          y.outbox[i].op \in Odd => /\ y.outbox[i].op = "pid" /\ i = Len(y.outbox)
                                    /\ y.inbox = <<>>
    BY <1>3, <1>5, <1>6, <2>1, <2>3 DEF Odd
  <2> QED
    BY <2>2, <2>4 DEF Asks
<1> QED
  BY <1>7, <1>8, <1>9 DEF y

LEMMA SaidSays ==
  ASSUME NEW x \in SlaveRecord, x.inbox # <<>>, Head(x.inbox).op \notin Odd,
         NEW m \in Message, m = Msg("redirect", Head(x.inbox).job)
  PROVE  /\ Clean(x) => Clean(Said(x, m))
         /\ Asks(x) => Asks(Said(x, m))
         /\ \A j \in Job : Own(x, j) => Own(Said(x, m), j)
<1> DEFINE y == Said(x, m)
<1>1. x.inbox \in Seq(Message) /\ x.outbox \in Seq(Message)
  BY DEF SlaveRecord
<1>2. y.outbox = Append(x.outbox, m) /\ y.inbox = x.inbox
  BY SaidType
<1>3. m.op = "redirect" /\ m.job = Head(x.inbox).job
  BY DEF Msg
<1> HIDE DEF y
<1>4. 1 \in 1 .. Len(x.inbox) /\ Head(x.inbox) = x.inbox[1]
  BY <1>1
<1>5. /\ Len(y.outbox) = Len(x.outbox) + 1 /\ Len(x.outbox) \in Nat
      /\ y.outbox[Len(x.outbox) + 1] = m
      /\ \A i \in 1 .. Len(x.outbox) : y.outbox[i] = x.outbox[i]
  BY <1>1, <1>2, AppendProperties
<1>6. \A i \in 1 .. Len(y.outbox) : i \in 1 .. Len(x.outbox) \/ i = Len(x.outbox) + 1
  BY <1>5
<1>7. \A j \in Job : Own(x, j) => Own(y, j)
  BY <1>2, <1>3, <1>4, <1>5, <1>6 DEF Own
<1>8. Clean(x) => Clean(y)
  BY <1>2, <1>3, <1>5, <1>6 DEF Clean, Odd
<1>9. ASSUME Asks(x) PROVE Asks(y)
  <2>1. \A i \in 1 .. Len(x.outbox) : x.outbox[i].op \notin Odd
    BY <1>1, <1>9 DEF Asks
  <2> QED
    BY <1>2, <1>3, <1>5, <1>6, <1>9, <2>1 DEF Asks, Odd
<1> QED
  BY <1>7, <1>8, <1>9 DEF y
-----------------------------------------------------------------------------
(* The calls leave nothing odd in a pipe *)

LEMMA DoItTidy ==
  ASSUME NEW p \in PoolType, NEW gone, Tidy(p, gone), NEW j \in Job \ gone, NEW s \in Slave,
         p.job[j].slave = NoSlave, p.job[j].on = 0, \A k \in Job \ gone : p.job[k].slave # s,
         NEW q, q = DoIt(p, j, s)
  PROVE  Tidy(q, gone)
<1>1. j \in Job /\ p.job[j] \in JobRecord /\ p.slave[s] \in SlaveRecord
  BY PoolFacts
<1>2. /\ q.job = [p.job EXCEPT ![j] = Lent(p.job[j], s)]
      /\ q.slave[s] = Sent(p.slave[s], "getPID", j)
      /\ \A x \in Slave \ {s} : q.slave[x] = p.slave[x]
  BY <1>1, DoItEffect
<1>3. q.job[j] = Lent(p.job[j], s) /\ \A k \in Job \ {j} : q.job[k] = p.job[k]
  BY <1>1, <1>2 DEF PoolType
<1>4. q.job[j].st = "asked" /\ q.job[j].slave = s /\ q.job[j].on = 0 /\ q.job[j].dialog = 0
  BY <1>1, <1>3, LentType DEF Tidy
<1>5. Clean(p.slave[s]) /\ "getPID" \in ToSlave
  BY DEF Tidy, ToSlave
<1>6. Asks(q.slave[s])
  BY <1>1, <1>2, <1>5, SentSays
<1>7. Fits(q.slave[s], q.job[j], j)
  BY <1>4, <1>6 DEF Fits
<1>8. /\ \A k \in Job : p.job[k].slave \in Slave \cup {NoSlave}
      /\ p.job[j].slave \in {NoSlave, s}
      /\ \A k \in Job \ (gone \cup {j}) : p.job[k].slave # s
  BY PoolFacts
<1>9. q.job[j].slave = s /\ q.job[j].dialog = 0
  BY <1>4
<1>10. \A x \in Slave \ {s} : q.slave[x] = p.slave[x]
  BY <1>2
<1>11. \A k \in Job \ {j} : q.job[k] = p.job[k]
  BY <1>3
<1> QED
  BY <1>7, <1>8, <1>9, <1>10, <1>11, TidyHeld

LEMMA FreeSlaveTidy ==
  ASSUME NEW p, NEW gone, Lists(p, gone), Tidy(p, gone), NEW s \in Slave,
         \A k \in Job \ gone : p.job[k].slave # s, NEW q, q = FreeSlave(p, s)
  PROVE  Tidy(q, gone)
<1>0. p \in PoolType
  BY DEF Lists
<1>1. CASE p.waiting = <<>>
  <2>1. q.job = p.job /\ q.slave = p.slave
    BY <1>0, <1>1 DEF FreeSlave, PoolType
  <2> QED
    BY <2>1 DEF Tidy
<1>2. CASE p.waiting # <<>>
  <2> DEFINE d == [p EXCEPT !.waiting = Tail(p.waiting)]
             h == Head(p.waiting)
  <2>1. q = DoIt(d, h, s)
    BY <1>2 DEF FreeSlave
  <2>2. /\ h \in Job \ gone /\ p.job[h].st = "waiting" /\ Tail(p.waiting) \in Seq(Job)
    <3>1. /\ p.waiting \in Seq(Job) /\ h = p.waiting[1] /\ 1 \in 1 .. Len(p.waiting)
          /\ h \in Job /\ Tail(p.waiting) \in Seq(Job)
      BY <1>0, <1>2, HeadTailProperties DEF PoolType
    <3> QED
      BY <3>1 DEF Lists
  <2>3. d \in PoolType /\ d.job = p.job /\ d.slave = p.slave
    BY <1>0, <2>2 DEF PoolType
  <2> HIDE DEF d, h
  <2>4. p.job[h].slave = NoSlave /\ p.job[h].on = 0
    BY <2>2 DEF Lists, JobOK, Serving3
  <2>5. Tidy(d, gone)
    BY <2>3 DEF Tidy
  <2> QED
    BY <2>1, <2>2, <2>3, <2>4, <2>5, DoItTidy
<1> QED
  BY <1>1, <1>2

LEMMA GetSlaveTidy ==
  ASSUME NEW p, Agrees(p, {}), Tidy(p, {}), NEW j \in Job, NEW s \in Slave,
         p.job[j].st = "new", IF p.free = {} THEN p.slave[s].st = "none" ELSE s \in p.free,
         NEW q, q = GetSlave(p, j, s)
  PROVE  Tidy(q, {})
<1>0. p \in PoolType /\ p.job[j].slave = NoSlave /\ p.job[j].on = 0
  BY DEF Agrees, Lists, JobOK, Serving3
<1>1. p.job[j] \in JobRecord /\ p.slave[s] \in SlaveRecord
  BY <1>0, PoolFacts
<1>2. \A k \in Job : p.job[k].slave # s
  BY SlavesAssumption DEF Agrees, Lists, Holds
<1>3. \A k \in Job : p.job[k].slave \in Slave \cup {NoSlave}
  BY <1>0, PoolFacts
<1>4. CASE p.free = {}
  <2> DEFINE r == [p.job[j] EXCEPT !.st = "waiting"]
             x == [p.slave[s] EXCEPT !.st = "starting"]
  <2>1. q = [p EXCEPT !.waiting = Append(p.waiting, j), !.job = [p.job EXCEPT ![j] = r],
                      !.slave = [p.slave EXCEPT ![s] = x]]
    BY <1>4 DEF GetSlave
  <2>2. /\ r.slave = NoSlave /\ r.dialog = p.job[j].dialog
        /\ x.inbox = p.slave[s].inbox /\ x.outbox = p.slave[s].outbox
    BY <1>0, <1>1 DEF JobRecord, SlaveRecord
  <2> HIDE DEF r, x
  <2>3. q.job = [p.job EXCEPT ![j] = r] /\ q.slave = [p.slave EXCEPT ![s] = x]
    BY <1>0, <2>1 DEF PoolType
  <2>4. /\ q.job[j] = r /\ \A k \in Job \ {j} : q.job[k] = p.job[k]
        /\ q.slave[s] = x /\ \A y \in Slave \ {s} : q.slave[y] = p.slave[y]
    BY <1>0, <2>3 DEF PoolType
  <2>5. Clean(q.slave[s])
    <3>1. Clean(p.slave[s])
      BY <1>2 DEF Tidy
    <3> QED
      BY <2>2, <2>4, <3>1 DEF Clean
  <2>6. \A k \in Job : \/ q.job[k] = p.job[k]
                       \/ /\ p.job[k].slave = NoSlave /\ q.job[k].slave = NoSlave
                          /\ q.job[k].dialog = 0
    BY <1>0, <2>2, <2>4 DEF Tidy
  <2>7. /\ \A k \in Job \ {} : p.job[k].slave # s
        /\ \A y \in Slave \ {s} : q.slave[y] = p.slave[y]
    BY <1>2, <2>4
  <2> QED
    BY <1>3, <2>5, <2>6, <2>7, TidyUnheld
<1>5. CASE p.free # {}
  <2> DEFINE d == [p EXCEPT !.free = p.free \ {s}]
  <2>1. q = DoIt(d, j, s)
    BY <1>5 DEF GetSlave
  <2>2. d \in PoolType /\ d.job = p.job /\ d.slave = p.slave
    BY <1>0 DEF PoolType
  <2> HIDE DEF d
  <2>3. Tidy(d, {}) /\ j \in Job \ {} /\ \A k \in Job \ {} : d.job[k].slave # s
    BY <1>2, <2>2 DEF Tidy
  <2> QED
    BY <1>0, <2>1, <2>2, <2>3, DoItTidy
<1> QED
  BY <1>4, <1>5

LEMMA GoneClean == Gone.inbox = <<>> /\ Gone.outbox = <<>> /\ Clean(Gone)
  BY DEF Gone, NoProcess, Clean

LEMMA DoneTidy ==
  ASSUME NEW p, NEW j \in Job, Agrees(p, {}) \/ Agrees(p, {j}), Tidy(p, {}) \/ Tidy(p, {j}),
         p.job[j].slave # NoSlave => Holds(p, {j}, j, p.job[j].slave),
         p.job[j].slave # NoSlave => Clean(p.slave[p.job[j].slave]),
         NEW q, q = Done(p, j)
  PROVE  Tidy(q, {})
<1> DEFINE d == RemoveJob(p, j)
           s == p.job[j].slave
           e == IF s = NoSlave THEN d ELSE FreeSlave(d, s)
<1>0. p \in PoolType
  BY DEF Agrees, Lists
<1>1. /\ Agrees(d, {j}) /\ j \notin InWaiting(d)
      /\ d.free = p.free /\ d.job = p.job /\ d.slave = p.slave
  BY RemoveJobAgrees
<1>2. q = Ended(e, j)
  BY <1>1 DEF Done
<1>3. \A k \in Job \ {j} : p.job[k].slave # NoSlave => p.job[k].slave # s
  BY DEF Holds
<1>4. \A k \in Job : p.job[k].slave \in Slave \cup {NoSlave}
  BY <1>0, PoolFacts
<1>5. Tidy(d, {j})
  <2>1. /\ p.job[j].slave # NoSlave => Clean(d.slave[p.job[j].slave])
        /\ \A x \in Slave : x # p.job[j].slave => d.slave[x] = p.slave[x]
    BY <1>1
  <2>2. d.job = p.job
    BY <1>1
  <2>3. \A k \in Job \ {j} : p.job[k].slave # NoSlave => p.job[k].slave # p.job[j].slave
    BY <1>3
  <2> HIDE DEF d
  <2> QED
    BY <1>4, <2>1, <2>2, <2>3, TidyGone
<1> HIDE DEF d, s
<1>6. e \in PoolType /\ Tidy(e, {j})
  <2>1. CASE s = NoSlave
    BY <1>1, <1>5, <2>1 DEF Agrees, Lists
  <2>2. CASE s # NoSlave
    <3>1. s \in Slave /\ \A k \in Job \ {j} : d.job[k].slave # s
      BY <1>1, <2>2 DEF Holds, s
    <3>2. Lists(d, {j}) /\ d \in PoolType
      BY <1>1 DEF Agrees, Lists
    <3>3. FreeSlave(d, s) \in PoolType
      BY <3>1, <3>2, FreeSlaveEffect
    <3>4. Tidy(FreeSlave(d, s), {j})
      BY <1>5, <3>1, <3>2, FreeSlaveTidy
    <3> QED
      BY <2>2, <3>3, <3>4
  <2> QED
    BY <2>1, <2>2
<1> HIDE DEF e
<1>7. /\ q.slave = e.slave /\ \A k \in Job \ {j} : q.job[k] = e.job[k]
      /\ q.job[j].slave = NoSlave /\ q.job[j].dialog = e.job[j].dialog
  BY <1>2, <1>6, FreedEffect
<1>8. q.job[j].dialog = 0
  BY <1>6, <1>7 DEF Tidy
<1> QED
  BY <1>6, <1>7, <1>8, TidyBack

LEMMA CancelTidy ==
  ASSUME NEW p, NEW j \in Job, Agrees(p, {}) \/ Agrees(p, {j}), Tidy(p, {}) \/ Tidy(p, {j}),
         p.job[j].slave # NoSlave => Holds(p, {j}, j, p.job[j].slave),
         NEW q, q = Cancel(p, j)
  PROVE  Tidy(q, {})
<1> DEFINE d == RemoveJob(p, j)
           s == p.job[j].slave
           e == IF s = NoSlave THEN d ELSE DeleteSlave(d, s)
           r == Lost(e.job[j])
           f == [e EXCEPT !.job[j] = r]
<1>0. p \in PoolType
  BY DEF Agrees, Lists
<1>1. /\ Agrees(d, {j}) /\ j \notin InWaiting(d)
      /\ d.free = p.free /\ d.job = p.job /\ d.slave = p.slave
  BY RemoveJobAgrees
<1>2. q = Done(f, j)
  BY <1>1 DEF Cancel, Lost
<1>3. \A k \in Job \ {j} : p.job[k].slave # NoSlave => p.job[k].slave # p.job[j].slave
  BY DEF Holds
<1>4. \A k \in Job : p.job[k].slave \in Slave \cup {NoSlave}
  BY <1>0, PoolFacts
<1> HIDE DEF d
<1>5. /\ Agrees(e, {j}) /\ e.job = p.job
      /\ s # NoSlave => Clean(e.slave[s])
      /\ \A x \in Slave : x # s => e.slave[x] = p.slave[x]
  <2>1. CASE s = NoSlave
    BY <1>1, <2>1
  <2>2. CASE s # NoSlave
    <3>1. /\ s \in Slave /\ d.slave[s].st \in {"up", "dead"}
          /\ \A k \in Job \ {j} : d.job[k].slave # s
      BY <1>1, <2>2 DEF Holds
    <3>2. DeleteSlave(d, s).slave[s] = Gone
      <4>1. d \in PoolType
        BY <1>1 DEF Agrees, Lists
      <4> QED
        BY <3>1, <4>1 DEF DeleteSlave, PoolType
    <3> HIDE DEF s
    <3>3. /\ Agrees(DeleteSlave(d, s), {j}) /\ DeleteSlave(d, s).job = d.job
          /\ \A x \in Slave \ {s} : DeleteSlave(d, s).slave[x] = d.slave[x]
      BY <1>1, <3>1, DeleteSlaveAgrees
    <3> QED
      BY <1>1, <2>2, <3>2, <3>3, GoneClean
  <2> QED
    BY <2>1, <2>2
<1> HIDE DEF e
<1>6. Tidy(e, {j})
  BY <1>3, <1>4, <1>5, TidyGone
<1>7. e \in PoolType /\ e.job[j] \in JobRecord
  BY <1>5, PoolFacts DEF Agrees, Lists
<1>8. r \in JobRecord /\ r.slave = NoSlave /\ r.dialog = e.job[j].dialog
  BY <1>7, LostType
<1> HIDE DEF r
<1>9. f = [e EXCEPT !.job[j] = r]
  OBVIOUS
<1>10. f.slave = e.slave /\ f.job = [e.job EXCEPT ![j] = r]
  BY <1>7, <1>8, JobEffect
<1> HIDE DEF f
<1>11. f.job[j] = r /\ \A k \in Job \ {j} : f.job[k] = e.job[k]
  BY <1>7, <1>10 DEF PoolType
<1>12. Agrees(f, {j})
  BY <1>5, <1>8, <1>9, GoneJobAgrees
<1>13. Tidy(f, {j})
  BY <1>6, <1>8, <1>10, <1>11 DEF Tidy
<1> QED
  BY <1>2, <1>8, <1>11, <1>12, <1>13, DoneTidy

LEMMA DeleteJobTidy ==
  ASSUME NEW p, Agrees(p, {}), Tidy(p, {}), NEW j \in Job, p.job[j].st \in Serving3,
         p.job[j].on > 0, NEW q, q = DeleteJob(p, j)
  PROVE  Tidy(q, {})
<1> DEFINE s == p.job[j].slave
           d == FreeSlave(p, s)
           e == RemoveJob(d, j)
<1>1. /\ s \in Slave /\ s # NoSlave /\ p.slave[s].st \in {"up", "dead"} /\ s \notin p.free
      /\ \A k \in Job \ {j} : p.job[k].slave # s
  <2>1. s \in Slave /\ s # NoSlave
    BY ServingFacts, SlavesAssumption
  <2> QED
    BY <2>1, ServingFacts DEF Holds
<1>2. q = Freed(e, j, "deleted")
  BY <1>1 DEF DeleteJob
<1>3. j \notin InWaiting(p)
  BY DEF Agrees, Lists, InWaiting, Serving3
<1>4. Agrees(p, {j}) /\ p \in PoolType
  BY <1>3, OneMoreGone DEF Agrees, Lists
<1>5. Lists(p, {j}) /\ Len(p.waiting) <= Cardinality(Forked(p)) + 1
  BY <1>4, AgreesMore
<1>6. \A k \in Job : p.job[k].slave \in Slave \cup {NoSlave}
  BY <1>4, PoolFacts
<1>7. Clean(p.slave[s])
  BY <1>1 DEF Tidy, Fits
<1>8. Tidy(p, {j})
  BY <1>1, <1>6, <1>7, TidyGone
<1> HIDE DEF s
<1>9. Agrees(d, {j})
  BY <1>1, <1>5, FreeSlaveAgrees
<1>10. Tidy(d, {j})
  BY <1>1, <1>5, <1>8, FreeSlaveTidy
<1> HIDE DEF d
<1>11. Agrees(e, {j}) /\ e.job = d.job /\ e.slave = d.slave
  BY <1>9, RemoveJobAgrees
<1> HIDE DEF e
<1>12. e \in PoolType /\ Tidy(e, {j})
  BY <1>10, <1>11 DEF Agrees, Lists, Tidy
<1>13. /\ q.slave = e.slave /\ \A k \in Job \ {j} : q.job[k] = e.job[k]
       /\ q.job[j].slave = NoSlave /\ q.job[j].dialog = e.job[j].dialog
  BY <1>2, <1>12, FreedEffect
<1>14. q.job[j].dialog = 0
  BY <1>12, <1>13 DEF Tidy
<1> QED
  BY <1>12, <1>13, <1>14, TidyBack

\* A job that listens has a clean slave of its own.
LEMMA OwnSlave ==
  ASSUME NEW p, Agrees(p, {}), Tidy(p, {}), NEW j \in Job, p.job[j].st \in Serving3,
         NEW s, s = p.job[j].slave
  PROVE  /\ s \in Slave /\ p.slave[s] \in SlaveRecord /\ p.job[j] \in JobRecord
         /\ p.job[j].on > 0 => Clean(p.slave[s]) /\ Own(p.slave[s], j)
         /\ \A k \in Job \ ({} \cup {j}) : p.job[k].slave # s
         /\ \A k \in Job : p.job[k].slave \in Slave \cup {NoSlave}
         /\ p.job[j].slave \in {NoSlave, s}
<1>1. p \in PoolType
  BY DEF Agrees, Lists
<1>2. s \in Slave /\ s # NoSlave
  BY ServingFacts, SlavesAssumption
<1>3. \A k \in Job \ {j} : p.job[k].slave # s
  BY <1>2, ServingFacts DEF Holds
<1>4. p.job[j].on > 0 => Clean(p.slave[s]) /\ Own(p.slave[s], j)
  BY <1>2 DEF Tidy, Fits
<1> QED
  BY <1>1, <1>2, <1>3, <1>4, PoolFacts

\* A job that listens goes on with a clean slave.
LEMMA ServedTidy ==
  ASSUME NEW p, Agrees(p, {}), Tidy(p, {}), NEW j \in Job, p.job[j].st \in Serving3,
         NEW s, s = p.job[j].slave,
         NEW q, \A k \in Job \ {j} : q.job[k] = p.job[k],
         \A x \in Slave \ {s} : q.slave[x] = p.slave[x],
         q.job[j].slave = s, q.job[j].dialog = p.job[j].dialog, q.job[j].on > 0,
         Clean(q.slave[s]), Own(q.slave[s], j)
  PROVE  Tidy(q, {})
<1>1. /\ s \in Slave /\ \A k \in Job \ ({} \cup {j}) : p.job[k].slave # s
      /\ \A k \in Job : p.job[k].slave \in Slave \cup {NoSlave}
      /\ p.job[j].slave \in {NoSlave, s}
  BY OwnSlave
<1>2. Fits(q.slave[s], q.job[j], j)
  BY DEF Fits
<1>3. q.job[j].dialog = 0 /\ j \in Job \ {}
  BY DEF Tidy
<1> QED
  BY <1>1, <1>2, <1>3, TidyHeld

LEMMA RequestTidy ==
  ASSUME NEW p, Agrees(p, {}), Tidy(p, {}), NEW j \in Job, p.job[j].st \in Serving3,
         p.job[j].on > 0, p.job[j].left > 0, NEW q, q = Request(p, j)
  PROVE  Tidy(q, {})
<1> DEFINE s == p.job[j].slave
           r == Busy(p.job[j], 1)
<1>1. /\ s \in Slave /\ p.slave[s] \in SlaveRecord /\ p.job[j] \in JobRecord
      /\ Clean(p.slave[s]) /\ Own(p.slave[s], j)
  BY OwnSlave
<1>2. p \in PoolType
  BY DEF Agrees, Lists
<1>3. r.slave = s /\ r.dialog = p.job[j].dialog /\ r.on = p.job[j].on
  <2>1. p.job[j].left \in Nat
    BY <1>1, FilesAssumption DEF JobRecord
  <2>2. 1 \in Nat /\ 1 <= p.job[j].left
    BY <2>1
  <2> QED
    BY <1>1, <2>2, BusyType
<1>4. "work" \in ToSlave /\ "work" # "getPID"
  BY DEF ToSlave
<1>5. Clean(Sent(p.slave[s], "work", j)) /\ Own(Sent(p.slave[s], "work", j), j)
  BY <1>1, <1>4, SentSays
<1>0. p.job[j].slave = s
  OBVIOUS
<1> HIDE DEF s
<1>6. /\ q.job = [p.job EXCEPT ![j] = r]
      /\ q.slave[s] = Sent(p.slave[s], "work", j)
      /\ \A x \in Slave \ {s} : q.slave[x] = p.slave[x]
  BY <1>0, <1>1, <1>2, RequestEffect
<1> HIDE DEF r
<1>7. q.job[j] = r /\ \A k \in Job \ {j} : q.job[k] = p.job[k]
  BY <1>2, <1>6 DEF PoolType
<1>8. /\ \A x \in Slave \ {s} : q.slave[x] = p.slave[x]
      /\ q.job[j].slave = s /\ q.job[j].dialog = p.job[j].dialog /\ q.job[j].on > 0
      /\ Clean(q.slave[s]) /\ Own(q.slave[s], j)
  BY <1>3, <1>5, <1>6, <1>7
<1>9. \A k \in Job \ {j} : q.job[k] = p.job[k]
  BY <1>7
<1> QED
  BY <1>0, <1>8, <1>9, ServedTidy

LEMMA AskCleanUpTidy ==
  ASSUME NEW p, Agrees(p, {}), Tidy(p, {}), NEW j \in Job, p.job[j].st \in Serving3,
         p.job[j].on > 0, NEW q, q = AskCleanUp(p, j)
  PROVE  Tidy(q, {}) /\ q.job[j].on > 0
<1> DEFINE s == p.job[j].slave
           r == Cleaning(p.job[j])
<1>1. /\ s \in Slave /\ p.slave[s] \in SlaveRecord /\ p.job[j] \in JobRecord
      /\ Clean(p.slave[s]) /\ Own(p.slave[s], j)
  BY OwnSlave
<1>2. p \in PoolType
  BY DEF Agrees, Lists
<1>3. r.slave = s /\ r.dialog = p.job[j].dialog /\ r.on = p.job[j].on
  BY <1>1, CleaningType
<1>4. "cleanUp" \in ToSlave /\ "cleanUp" # "getPID"
  BY DEF ToSlave
<1>5. Clean(Sent(p.slave[s], "cleanUp", j)) /\ Own(Sent(p.slave[s], "cleanUp", j), j)
  BY <1>1, <1>4, SentSays
<1>6. /\ q.job = [p.job EXCEPT ![j] = r]
      /\ q.slave[s] = Sent(p.slave[s], "cleanUp", j)
      /\ \A x \in Slave \ {s} : q.slave[x] = p.slave[x]
  BY <1>1, <1>2, AskCleanUpEffect
<1> HIDE DEF r
<1>7. q.job[j] = r /\ \A k \in Job \ {j} : q.job[k] = p.job[k]
  BY <1>2, <1>6 DEF PoolType
<1>8. /\ \A x \in Slave \ {s} : q.slave[x] = p.slave[x]
      /\ q.job[j].slave = s /\ q.job[j].dialog = p.job[j].dialog /\ q.job[j].on > 0
      /\ Clean(q.slave[s]) /\ Own(q.slave[s], j)
  BY <1>3, <1>5, <1>6, <1>7
<1>9. \A k \in Job \ {j} : q.job[k] = p.job[k]
  BY <1>7
<1>10. Tidy(q, {})
  BY <1>8, <1>9, ServedTidy
<1> QED
  BY <1>8, <1>10

LEMMA RequestsTidy ==
  ASSUME NEW p, Agrees(p, {}), Tidy(p, {}), NEW j \in Job, p.job[j].st \in Serving3,
         p.job[j].on > 0, NEW n \in Nat, n <= p.job[j].left, NEW q, q = Requests(p, j, n)
  PROVE  Tidy(q, {}) /\ q.job[j].on > 0
<1> DEFINE s == p.job[j].slave
           r == Busy(p.job[j], n)
<1>1. /\ s \in Slave /\ p.slave[s] \in SlaveRecord /\ p.job[j] \in JobRecord
      /\ Clean(p.slave[s]) /\ Own(p.slave[s], j)
  BY OwnSlave
<1>2. p \in PoolType
  BY DEF Agrees, Lists
<1>3. r.slave = s /\ r.dialog = p.job[j].dialog /\ r.on = p.job[j].on
  BY <1>1, BusyType
<1>5. Clean(Works(p.slave[s], j, n)) /\ Own(Works(p.slave[s], j, n), j)
  BY <1>1, WorksSays
<1>6. /\ q.job = [p.job EXCEPT ![j] = r]
      /\ q.slave[s] = Works(p.slave[s], j, n)
      /\ \A x \in Slave \ {s} : q.slave[x] = p.slave[x]
  BY <1>1, <1>2, RequestsEffect
<1> HIDE DEF r
<1>7. q.job[j] = r /\ \A k \in Job \ {j} : q.job[k] = p.job[k]
  BY <1>2, <1>6 DEF PoolType
<1>8. /\ \A x \in Slave \ {s} : q.slave[x] = p.slave[x]
      /\ q.job[j].slave = s /\ q.job[j].dialog = p.job[j].dialog /\ q.job[j].on > 0
      /\ Clean(q.slave[s]) /\ Own(q.slave[s], j)
  BY <1>3, <1>5, <1>6, <1>7
<1>9. \A k \in Job \ {j} : q.job[k] = p.job[k]
  BY <1>7
<1>10. Tidy(q, {})
  BY <1>8, <1>9, ServedTidy
<1> QED
  BY <1>8, <1>10

LEMMA ServingDoneTidy ==
  ASSUME NEW p, Agrees(p, {}), Tidy(p, {}), NEW j \in Job, p.job[j].st \in Serving3,
         p.job[j].on > 0, NEW q, q = Done(p, j)
  PROVE  Tidy(q, {})
  BY ServingFacts, OwnSlave, DoneTidy

LEMMA SlaveIsReadyTidy ==
  ASSUME NEW p, Agrees(p, {}), Tidy(p, {}), NEW j \in Job, p.job[j].st \in Serving3,
         p.job[j].on > 0, NEW q, q = SlaveIsReady(p, j)
  PROVE  Tidy(q, {})
<1>1. CASE p.job[j].st = "cleaning"
  <2>1. q = Done(p, j)
    BY <1>1 DEF SlaveIsReady
  <2> QED
    BY <2>1, ServingDoneTidy
<1>2. CASE p.job[j].st = "busy" /\ p.job[j].left = 0
  <2>1. q = AskCleanUp(p, j)
    BY <1>2 DEF SlaveIsReady
  <2> QED
    BY <2>1, AskCleanUpTidy
<1>3. CASE p.job[j].st \in {"asked", "busy"} /\ p.job[j].left > 0
  <2>1. q = Request(p, j)
    BY <1>3 DEF SlaveIsReady
  <2> QED
    BY <1>3, <2>1, RequestTidy
<1>4. \/ p.job[j].st = "cleaning"
      \/ p.job[j].st = "busy" /\ p.job[j].left = 0
      \/ p.job[j].st \in {"asked", "busy"} /\ p.job[j].left > 0
  <2>1. p.job[j].left \in Nat /\ (p.job[j].st = "asked" => p.job[j].left > 0)
    <3>1. p.job[j] \in JobRecord /\ JobOK(p.job[j])
      BY ServingFacts
    <3> QED
      BY <3>1, FilesAssumption DEF JobRecord, JobOK
  <2> QED
    BY <2>1 DEF Serving3
<1> QED
  BY <1>1, <1>2, <1>3, <1>4

\* start() is called when nothing of another job is left in the pipe.
LEMMA StartedTidy ==
  ASSUME NEW p, Agrees(p, {}), Tidy(p, {}), NEW j \in Job, p.job[j].st \in Serving3,
         NEW s, s = p.job[j].slave, Clean(p.slave[s]), Own(p.slave[s], j),
         NEW q, q = Started(p, j)
  PROVE  Tidy(q, {})
<1> DEFINE r == Again(p.job[j], j \in Viewed)
           d == [p EXCEPT !.job[j] = r]
<1>1. p.job[j] \in JobRecord /\ JobOK(p.job[j]) /\ p.job[j].slave \in Slave
  BY ServingFacts
<1>2. /\ r \in JobRecord /\ r.st = "busy" /\ r.slave = p.job[j].slave
      /\ r.dialog = p.job[j].dialog /\ r.told = p.job[j].told /\ r.on > 0
  <2>1. (j \in Viewed) \in BOOLEAN /\ p.job[j].on \in Nat
    BY <1>1 DEF JobRecord
  <2>2. /\ r \in JobRecord /\ r.st = "busy" /\ r.slave = p.job[j].slave
        /\ r.dialog = p.job[j].dialog /\ r.told = p.job[j].told /\ r.on = p.job[j].on + 1
    BY <1>1, <2>1, AgainType
  <2> HIDE DEF r
  <2> QED
    BY <2>1, <2>2
<1>3. q = SlaveIsReady(d, j)
  BY DEF Started, Again
<1> HIDE DEF r
<1>4. JobOK(r) /\ p \in PoolType
  BY <1>1, <1>2, SlavesAssumption DEF JobOK, Serving3, Agrees, Lists
<1>5. d = [p EXCEPT !.job[j] = r]
  OBVIOUS
<1>6. d.slave = p.slave /\ d.job = [p.job EXCEPT ![j] = r]
  BY <1>2, <1>4, JobEffect
<1> HIDE DEF d
<1>7. Agrees(d, {})
  BY <1>2, <1>4, <1>5, RecordAgrees
<1>8. d.job[j] = r /\ \A k \in Job \ {j} : d.job[k] = p.job[k]
  BY <1>4, <1>6 DEF PoolType
<1>9. Tidy(d, {})
  <2>1. /\ \A x \in Slave \ {s} : d.slave[x] = p.slave[x]
        /\ Clean(d.slave[s]) /\ Own(d.slave[s], j)
        /\ d.job[j].slave = s /\ d.job[j].dialog = p.job[j].dialog /\ d.job[j].on > 0
    BY <1>2, <1>6, <1>8
  <2>2. \A k \in Job \ {j} : d.job[k] = p.job[k]
    BY <1>8
  <2> QED
    BY <2>1, <2>2, ServedTidy
<1>10. d.job[j].st \in Serving3 /\ d.job[j].on > 0
  BY <1>2, <1>8 DEF Serving3
<1> QED
  BY <1>3, <1>7, <1>9, <1>10, SlaveIsReadyTidy

LEMMA AllReadyTidy ==
  ASSUME NEW p, Agrees(p, {}), Tidy(p, {}), NEW j \in Job, p.job[j].st \in Serving3,
         p.job[j].on > 0, NEW q, q = AllReady(p, j)
  PROVE  Tidy(q, {})
<1> DEFINE on   == p.job[j].on
           left == p.job[j].left
           d    == Requests(p, j, left)
           e    == AskCleanUp(d, j)
<1>1. p.job[j] \in JobRecord /\ on \in Nat /\ left \in Nat
  <2>1. p.job[j] \in JobRecord
    BY ServingFacts
  <2> QED
    BY <2>1, FilesAssumption DEF JobRecord
<1>2. CASE p.job[j].st = "cleaning"
  <2>1. q = Done(p, j)
    BY <1>2 DEF AllReady
  <2> QED
    BY <2>1, ServingDoneTidy
<1>3. CASE p.job[j].st # "cleaning" /\ on <= left
  <2>1. q = Requests(p, j, on)
    BY <1>3 DEF AllReady
  <2> QED
    BY <1>1, <1>3, <2>1, RequestsTidy
<1>4. CASE p.job[j].st # "cleaning" /\ ~(on <= left)
  <2>1. q = IF on = left + 1 THEN e ELSE Done(e, j)
    BY <1>4 DEF AllReady
  <2>2. left <= p.job[j].left
    BY <1>1
  <2> HIDE DEF left, on
  <2>3. Agrees(d, {}) /\ d.job[j] = Busy(p.job[j], left)
    BY <1>1, <2>2, RequestsAgrees
  <2>4. d.job[j].st \in Serving3
    BY <1>1, <2>2, <2>3, BusyType DEF Serving3
  <2>5. Tidy(d, {}) /\ d.job[j].on > 0
    BY <1>1, <2>2, RequestsTidy
  <2> HIDE DEF d
  <2>6. Agrees(e, {}) /\ e.job[j] = Cleaning(d.job[j])
    BY <2>3, <2>4, AskCleanUpAgrees
  <2>7. Tidy(e, {}) /\ e.job[j].on > 0
    BY <2>3, <2>4, <2>5, AskCleanUpTidy
  <2>8. e.job[j].st \in Serving3
    <3>1. d.job[j] \in JobRecord
      BY <2>3 DEF Agrees, Lists, PoolType
    <3> QED
      BY <2>6, <3>1, CleaningType DEF Serving3
  <2> HIDE DEF e
  <2>9. Tidy(Done(e, j), {})
    BY <2>6, <2>7, <2>8, ServingDoneTidy
  <2> QED
    BY <2>1, <2>7, <2>9
<1> QED
  BY <1>2, <1>3, <1>4
-----------------------------------------------------------------------------
(* The actions, when no request fails *)

\* A job without a slave changes.
LEMMA TidyIdle ==
  ASSUME NEW p, Tidy(p, {}), NEW j \in Job, p.job[j].slave = NoSlave,
         NEW q, q.slave = p.slave, \A k \in Job \ {j} : q.job[k] = p.job[k],
         q.job[j].slave = NoSlave, q.job[j].dialog = p.job[j].dialog
  PROVE  Tidy(q, {})
<1>1. \A k \in Job : q.job[k].dialog = 0 /\ q.job[k].slave = p.job[k].slave
  BY DEF Tidy
<1>2. ASSUME NEW k \in Job, q.job[k].slave # NoSlave
      PROVE  Fits(q.slave[q.job[k].slave], q.job[k], k)
  <2>1. k # j
    BY <1>2
  <2> QED
    BY <1>2, <2>1 DEF Tidy
<1>3. ASSUME NEW x \in Slave, \A k \in Job : q.job[k].slave # x
      PROVE  Clean(q.slave[x])
  BY <1>1, <1>3 DEF Tidy
<1> QED
  BY <1>1, <1>2, <1>3 DEF Tidy

TidyInv == Tidy(pool, {})

LEMMA ReadTidy ==
  ASSUME Inv, TidyInv, NEW s \in Slave, pool.slave[s].outbox # <<>>, NEW q, q = Read(s)
  PROVE  Tidy(q, {})
<1>1. pool \in PoolType
  BY DEF Inv, Agrees, Lists
<1>2. pool.slave[s] \in SlaveRecord /\ \A k \in Job : pool.job[k].slave \in Slave \cup {NoSlave}
  BY <1>1, PoolFacts
<1>3. /\ q.job = pool.job /\ q.slave[s] = Heard(pool.slave[s])
      /\ \A x \in Slave \ {s} : q.slave[x] = pool.slave[x]
  BY ReadAgrees
<1>4. /\ Clean(pool.slave[s]) => Clean(q.slave[s])
      /\ Asks(pool.slave[s]) => Asks(q.slave[s])
      /\ \A j \in Job : Own(pool.slave[s], j) => Own(q.slave[s], j)
  BY <1>2, <1>3, HeardSays
<1>5. Tidy(pool, {})
  BY DEF TidyInv
<1> QED
  BY <1>2, <1>3, <1>4, <1>5, TidySame

LEMMA StartTidy ==
  ASSUME Inv, TidyInv, NEW j \in Job, Start(j)
  PROVE  TidyInv'
<1>1. PICK s \in Available(pool), n \in (IF j \in Viewed THEN {1} ELSE 1 .. MaxFiles) :
          pool' = GetSlave([pool EXCEPT !.job[j].left = n], j, s)
  BY DEF Start
<1> DEFINE d == Wants(pool, j, n)
<1>2. pool.job[j].st = "new" /\ Agrees(pool, {}) /\ n \in 1 .. MaxFiles
  BY FilesAssumption DEF Start, Inv
<1>3. pool' = GetSlave(d, j, s)
  BY <1>1 DEF Wants
<1>4. d = Wants(pool, j, n)
  OBVIOUS
<1> HIDE DEF d
<1>5. /\ Agrees(d, {}) /\ d.free = pool.free /\ d.slave = pool.slave
      /\ \A k \in Job \ {j} : d.job[k] = pool.job[k]
      /\ d.job[j].st = "new" /\ d.job[j].slave = NoSlave
      /\ pool.job[j].slave = NoSlave /\ d.job[j].dialog = pool.job[j].dialog
  BY <1>2, <1>4, NewJobAgrees
<1>6. s \in Slave /\ (IF d.free = {} THEN d.slave[s].st = "none" ELSE s \in d.free)
  <2>1. pool.free \subseteq Slave
    BY <1>2 DEF Agrees, Lists, PoolType
  <2> QED
    BY <1>5, <2>1 DEF Available, Unused
<1>7. Tidy(d, {})
  BY <1>5, TidyIdle DEF TidyInv
<1>8. Tidy(pool', {})
  BY <1>3, <1>5, <1>6, <1>7, GetSlaveTidy
<1> QED
  BY <1>8 DEF TidyInv

LEMMA UserCancelsTidy ==
  ASSUME Inv, TidyInv, NEW j \in Job, UserCancels(j)
  PROVE  TidyInv'
<1>1. pool' = Cancel(pool, j) /\ Agrees(pool, {}) /\ Tidy(pool, {})
  BY DEF UserCancels, Inv, TidyInv
<1>2. pool.job[j].slave # NoSlave => Holds(pool, {j}, j, pool.job[j].slave)
  BY <1>1 DEF Agrees, Lists, Holds
<1>3. Tidy(pool', {})
  BY <1>1, <1>2, CancelTidy
<1> QED
  BY <1>3 DEF TidyInv

\* A slave that nobody has is deleted.
LEMMA DeleteSlaveTidy ==
  ASSUME NEW p, Agrees(p, {}), Tidy(p, {}), NEW s \in Slave, \A k \in Job : p.job[k].slave # s,
         NEW q, q = DeleteSlave(p, s)
  PROVE  Tidy(q, {})
<1>1. p \in PoolType
  BY DEF Agrees, Lists
<1>2. q.job = p.job /\ q.slave[s] = Gone /\ \A x \in Slave \ {s} : q.slave[x] = p.slave[x]
  <2>1. q = [p EXCEPT !.free = p.free \ {s}, !.slave = [p.slave EXCEPT ![s] = Gone]]
    BY DEF DeleteSlave
  <2>2. q.job = p.job /\ q.slave = [p.slave EXCEPT ![s] = Gone]
    BY <1>1, <2>1 DEF PoolType
  <2> QED
    BY <1>1, <2>2 DEF PoolType
<1>3. \A k \in Job : p.job[k].slave \in Slave \cup {NoSlave}
  BY <1>1, PoolFacts
<1>4. Clean(q.slave[s]) /\ \A k \in Job \ {} : p.job[k].slave # s
  BY <1>2, GoneClean
<1> QED
  BY <1>2, <1>3, <1>4, TidyUnheld

LEMMA SlotTimerTidy ==
  ASSUME Inv, TidyInv, NEW s \in Slave, SlotTimer(s)
  PROVE  TidyInv'
<1>1. s \in pool.free /\ pool' = DeleteSlave(pool, s) /\ Agrees(pool, {}) /\ Tidy(pool, {})
  BY DEF SlotTimer, Inv, TidyInv
<1>2. \A k \in Job : pool.job[k].slave # s
  BY <1>1, SlavesAssumption DEF Agrees, Lists, Holds
<1>3. Tidy(pool', {})
  BY <1>1, <1>2, DeleteSlaveTidy
<1> QED
  BY <1>3 DEF TidyInv

\* When the process id is read, nothing else is left in the pipe.
LEMMA StartJobTidy ==
  ASSUME Inv, TidyInv, NEW s \in Slave, StartJob(s)
  PROVE  TidyInv'
<1> DEFINE q == Read(s)
           x == pool.slave[s]
<1>1. x.outbox # <<>> /\ Head(x.outbox).op = "pid"
  BY DEF StartJob, Reads
<1>2. /\ Agrees(q, {}) /\ Tidy(q, {}) /\ q.job = pool.job /\ q.slave[s] = Heard(x)
  BY <1>1, ReadAgrees, ReadTidy
<1> HIDE DEF q
<1>3. ASSUME NEW j \in Listeners(s), pool' = Started(q, j)
      PROVE  Tidy(pool', {})
  <2>1. j \in Job /\ pool.job[j].slave = s /\ q.job[j].st \in Serving3 /\ x \in SlaveRecord
    BY <1>2, <1>3, ListenerServing DEF Inv, Agrees, Lists, PoolType
  <2>2. Fits(x, pool.job[j], j)
    BY <2>1, SlavesAssumption DEF TidyInv, Tidy
  <2>3. Asks(x)
    BY <1>1, <2>1, <2>2, HeardSays DEF Fits, Odd
  <2>4. Clean(q.slave[s]) /\ Own(q.slave[s], j)
    BY <1>1, <1>2, <2>1, <2>3, HeardSays
  <2>5. s = q.job[j].slave
    BY <1>2, <2>1
  <2> QED
    BY <1>2, <1>3, <2>1, <2>4, <2>5, StartedTidy
<1> QED
  BY <1>2, <1>3 DEF StartJob, TidyInv, q

LEMMA SlaveDoneTidy ==
  ASSUME Inv, TidyInv, NEW s \in Slave, SlaveDone(s)
  PROVE  TidyInv'
<1> DEFINE q == Read(s)
<1>1. pool.slave[s].outbox # <<>>
  BY DEF SlaveDone, Reads
<1>2. Agrees(q, {}) /\ Tidy(q, {}) /\ q.job = pool.job
  BY <1>1, ReadAgrees, ReadTidy
<1> HIDE DEF q
<1>3. ASSUME NEW j \in Listeners(s), Connected(j), pool' = AllReady(q, j)
      PROVE  Tidy(pool', {})
  <2>1. j \in Job /\ q.job[j].st \in Serving3 /\ q.job[j].on > 0
    BY <1>2, <1>3, ListenerServing DEF Connected
  <2> QED
    BY <1>2, <1>3, <2>1, AllReadyTidy
<1> QED
  BY <1>2, <1>3 DEF SlaveDone, TidyInv, q

\* No slave says that a request failed, and no job asks the user.
LEMMA NoErrors ==
  ASSUME Inv, TidyInv
  PROVE  /\ \A s \in Slave : ~FatalError(s) /\ ~OpenAsFile(s)
         /\ \A j \in Job : ~Answer(j)
<1>1. ASSUME NEW s \in Slave, Reads(s, "error") PROVE FALSE
  <2> DEFINE x == pool.slave[s]
  <2>1. x.outbox # <<>> /\ Head(x.outbox).op = "error" /\ x \in SlaveRecord
    BY <1>1 DEF Reads, Inv, Agrees, Lists, PoolType
  <2>2. 1 \in 1 .. Len(x.outbox) /\ Head(x.outbox) = x.outbox[1]
    BY <2>1 DEF SlaveRecord
  <2> HIDE DEF x
  <2>3. ~Asks(x) /\ ~Clean(x)
    BY <2>1, <2>2 DEF Asks, Clean, Odd
  <2>4. Clean(x) \/ \E j \in Job : Fits(x, pool.job[j], j)
    BY SlavesAssumption DEF TidyInv, Tidy, x
  <2> QED
    BY <2>3, <2>4 DEF Fits
<1>2. \A j \in Job : ~Answer(j)
  BY DEF Answer, TidyInv, Tidy
<1> QED
  BY <1>1, <1>2 DEF FatalError, OpenAsFile

LEMMA RedirectionTidy ==
  ASSUME Inv, TidyInv, NEW s \in Slave, Redirection(s)
  PROVE  TidyInv'
<1> DEFINE p == Read(s)
<1>1. pool.slave[s].outbox # <<>>
  BY DEF Redirection, Reads
<1>2. /\ Agrees(p, {}) /\ Tidy(p, {}) /\ p.job = pool.job
      /\ \A t \in Slave : pool.slave[t].st = "none" => p.slave[t].st = "none"
  <2>1. pool.slave[s] \in SlaveRecord
    BY DEF Inv, Agrees, Lists, PoolType
  <2>2. p.slave[s] = Heard(pool.slave[s]) /\ \A y \in Slave \ {s} : p.slave[y] = pool.slave[y]
    BY <1>1, ReadAgrees
  <2>3. Heard(pool.slave[s]).st = pool.slave[s].st
    BY <1>1, <2>1, HeardType
  <2>4. Agrees(p, {}) /\ Tidy(p, {}) /\ p.job = pool.job
    BY <1>1, ReadAgrees, ReadTidy
  <2> HIDE DEF p
  <2> QED
    BY <2>2, <2>3, <2>4
<1> HIDE DEF p
<1>3. CASE pool' = p
  BY <1>2, <1>3 DEF TidyInv
<1>4. ASSUME NEW j \in Listeners(s) \cap Viewed, NEW k \in Later, pool.job[k].st = "new",
             Connected(j), NEW t, t \in Available(DeleteJob(Wants(p, k, 1), j)),
             pool' = GetSlave(DeleteJob(Wants(p, k, 1), j), k, t)
      PROVE  Tidy(pool', {})
  <2> DEFINE d == Wants(p, k, 1)
             q == DeleteJob(d, j)
  <2>1. /\ j \in Job /\ k \in Job /\ p.job[j].st \in Serving3 /\ p.job[k].st = "new"
        /\ j # k /\ 1 \in 1 .. MaxFiles /\ p.job[j].on > 0
    <3>1. j \in Job /\ pool.job[j].st \in Serving3
      BY ListenerServing
    <3>2. k \in Job
      BY JobsAssumption
    <3> QED
      BY <1>2, <1>4, <3>1, <3>2, FilesAssumption DEF Serving3, Connected
  <2>2. t \in Available(q) /\ pool' = GetSlave(q, k, t)
    BY <1>4
  <2>3. d = Wants(p, k, 1)
    OBVIOUS
  <2> HIDE DEF d
  <2>4. /\ Agrees(d, {}) /\ d.slave = p.slave /\ d.job[j] = p.job[j]
        /\ d.job[k].st = "new" /\ d.job[k].slave = NoSlave /\ p.job[k].slave = NoSlave
        /\ d.job[k].dialog = p.job[k].dialog /\ \A i \in Job \ {k} : d.job[i] = p.job[i]
    BY <1>2, <2>1, <2>3, NewJobAgrees
  <2>5. Tidy(d, {})
    BY <1>2, <2>1, <2>4, TidyIdle
  <2>6. k \notin InWaiting(d)
    BY <2>4 DEF Agrees, Lists, InWaiting
  <2>7. Agrees(q, {})
    BY <2>1, <2>4, DeleteJobAgrees
  <2>8. q.job[k] = d.job[k]
    BY <2>1, <2>4, <2>6, DeleteJobAgrees
  <2>9. \A x \in Slave : q.slave[x].st = d.slave[x].st
    BY <2>1, <2>4, DeleteJobAgrees
  <2>10. Tidy(q, {})
    BY <2>1, <2>4, <2>5, DeleteJobTidy
  <2> HIDE DEF q
  <2>11. t \in Slave /\ (IF q.free = {} THEN q.slave[t].st = "none" ELSE t \in q.free)
    <3>1. q.free \subseteq Slave
      BY <2>7 DEF Agrees, Lists, PoolType
    <3> QED
      BY <1>2, <2>2, <2>4, <2>9, <3>1 DEF Available, Unused
  <2> QED
    BY <2>1, <2>2, <2>4, <2>7, <2>8, <2>10, <2>11, GetSlaveTidy
<1> QED
  BY <1>3, <1>4 DEF Redirection, TidyInv, p, Wants

Orphan(r) == [r EXCEPT !.slave = NoSlave, !.error = TRUE]

LEMMA CloseEventTidy ==
  ASSUME Inv, TidyInv, NEW s \in Slave, CloseEvent(s)
  PROVE  TidyInv'
<1> DEFINE q == DeleteSlave(pool, s)
<1>1. /\ pool.slave[s].st = "dead" /\ Agrees(pool, {}) /\ Tidy(pool, {}) /\ pool \in PoolType
  BY DEF CloseEvent, Inv, TidyInv, Agrees, Lists
<1>2. CASE Listeners(s) = {} /\ pool' = q
  <2>1. \A k \in Job : pool.job[k].slave # s
    BY <1>2 DEF Listeners
  <2>2. Tidy(q, {})
    BY <1>1, <2>1, DeleteSlaveTidy
  <2> QED
    BY <1>2, <2>2 DEF TidyInv
<1>3. ASSUME NEW j \in Listeners(s),
             pool' = Cancel([q EXCEPT !.job[j].slave = NoSlave, !.job[j].error = TRUE], j)
      PROVE  Tidy(pool', {})
  <2> DEFINE r == Orphan(pool.job[j])
             d == [q EXCEPT !.job[j] = r]
  <2>1. j \in Job /\ pool.job[j].slave = s /\ pool.job[j].st \in Serving3
    BY <1>3, ListenerServing
  <2>2. j \notin InWaiting(pool)
    BY <1>1, <2>1 DEF Agrees, Lists, InWaiting, Serving3
  <2>3. Agrees(pool, {j})
    BY <1>1, <2>1, <2>2, OneMoreGone
  <2>4. \A k \in Job \ {j} : pool.job[k].slave # s
    BY <1>1, <2>1, SlavesAssumption DEF Agrees, Lists, Holds
  <2>5. Agrees(q, {j}) /\ q.job = pool.job
        /\ \A x \in Slave \ {s} : q.slave[x] = pool.slave[x]
    BY <1>1, <2>3, <2>4, DeleteSlaveAgrees
  <2>6. pool.job[j] \in JobRecord /\ q.slave[s] = Gone
    BY <1>1, <2>1, PoolFacts DEF DeleteSlave, PoolType
  <2>7. r \in JobRecord /\ r.slave = NoSlave /\ r.dialog = pool.job[j].dialog
    BY <2>6 DEF JobRecord, Orphan
  <2>8. pool' = Cancel(d, j)
    BY <1>3, <2>5 DEF Orphan
  <2> HIDE DEF q, r
  <2>9. Tidy(q, {j})
    <3>1. /\ \A k \in Job : pool.job[k].slave \in Slave \cup {NoSlave}
          /\ \A k \in Job \ {j} : pool.job[k].slave # NoSlave
                                    => pool.job[k].slave # pool.job[j].slave
          /\ pool.job[j].slave # NoSlave => Clean(q.slave[pool.job[j].slave])
      BY <1>1, <2>1, <2>4, <2>6, PoolFacts, GoneClean
    <3>2. \A x \in Slave : x # pool.job[j].slave => q.slave[x] = pool.slave[x]
      BY <2>1, <2>5
    <3> QED
      BY <1>1, <2>1, <2>5, <3>1, <3>2, TidyGone
  <2>10. d = [q EXCEPT !.job[j] = r]
    OBVIOUS
  <2>11. d.slave = q.slave /\ d.job = [q.job EXCEPT ![j] = r] /\ q \in PoolType
    BY <2>1, <2>5, <2>7, JobEffect DEF Agrees, Lists
  <2>12. Agrees(d, {j})
    BY <2>1, <2>5, <2>7, <2>10, GoneJobAgrees
  <2> HIDE DEF d
  <2>13. d.job[j] = r /\ \A k \in Job \ {j} : d.job[k] = q.job[k]
    BY <2>1, <2>11 DEF PoolType
  <2>14. Tidy(d, {j})
    BY <2>5, <2>7, <2>9, <2>11, <2>13 DEF Tidy
  <2> QED
    BY <2>1, <2>7, <2>8, <2>12, <2>13, <2>14, CancelTidy
<1> QED
  BY <1>2, <1>3 DEF CloseEvent, TidyInv

LEMMA ConnectTidy ==
  ASSUME Inv, TidyInv, NEW s \in Slave, Connect(s)
  PROVE  TidyInv'
<1> DEFINE d == [pool EXCEPT !.slave[s].st = "up"]
           x == pool.slave[s]
           u == [x EXCEPT !.st = "up"]
<1>1. d = [pool EXCEPT !.slave[s].st = "up"]
  OBVIOUS
<1> HIDE DEF d, x, u
<1>2. /\ pool' = FreeSlave(d, s) /\ Lists(d, {}) /\ d.job = pool.job
      /\ \A k \in Job : d.job[k].slave # s
      /\ \A y \in Slave \ {s} : d.slave[y] = pool.slave[y]
  <2>1. pool' = FreeSlave(d, s) /\ Lists(d, {}) /\ d.job = pool.job
    BY <1>1, ConnectUp
  <2>2. \A k \in Job : d.job[k].slave # s
    BY <1>1, ConnectUp
  <2>3. \A y \in Slave \ {s} : d.slave[y] = pool.slave[y]
    BY <1>1, ConnectUp
  <2> QED
    BY <2>1, <2>2, <2>3
<1>3. d.slave[s] = u
  <2>1. d.slave[s] = [pool.slave[s] EXCEPT !.st = "up"]
    BY <1>1, ConnectUp
  <2> QED
    BY <2>1 DEF u, x
<1>4. x \in SlaveRecord /\ pool \in PoolType /\ Tidy(pool, {})
  BY DEF Inv, TidyInv, Agrees, Lists, PoolType, x
<1>5. u.inbox = x.inbox /\ u.outbox = x.outbox
  BY <1>4 DEF SlaveRecord, u
<1>6. Clean(x)
  BY <1>2, <1>4 DEF Tidy, x
<1>7. Clean(u)
  BY <1>5, <1>6 DEF Clean
<1>8. /\ \A k \in Job : pool.job[k].slave \in Slave \cup {NoSlave}
      /\ \A k \in Job \ {} : pool.job[k].slave # s
      /\ Clean(d.slave[s])
  BY <1>2, <1>3, <1>4, <1>7, PoolFacts
<1>9. Tidy(d, {})
  BY <1>2, <1>4, <1>8, TidyUnheld
<1>10. Tidy(FreeSlave(d, s), {})
  BY <1>2, <1>9, FreeSlaveTidy
<1> QED
  BY <1>2, <1>10 DEF TidyInv

\* A slave's process goes on, dies or was not started; no request fails.
LEMMA ProcessTidy ==
  ASSUME "error" \notin Env, Inv, TidyInv, NEW s \in Slave,
         ExecFails(s) \/ SendPID(s) \/ CleanUp(s) \/ Work(s) \/ Redirects(s) \/ Dies(s)
  PROVE  TidyInv'
<1> DEFINE x == pool.slave[s]
           m(op) == Msg(op, Head(x.inbox).job)
           dead == [x EXCEPT !.st = "dead", !.inbox = <<>>]
<1>1. /\ x \in SlaveRecord /\ pool \in PoolType /\ Tidy(pool, {})
      /\ \A k \in Job : pool.job[k].slave \in Slave \cup {NoSlave}
  BY PoolFacts DEF Inv, TidyInv, Agrees, Lists, PoolType
<1>2. ASSUME NEW y, pool' = [pool EXCEPT !.slave[s] = y]
      PROVE  /\ pool'.job = pool.job /\ pool'.slave[s] = y
             /\ \A z \in Slave \ {s} : pool'.slave[z] = pool.slave[z]
  BY <1>1, <1>2 DEF PoolType
<1>3. ASSUME NEW y, pool' = [pool EXCEPT !.slave[s] = y],
             Clean(x) => Clean(y), Asks(x) => Asks(y), \A j \in Job : Own(x, j) => Own(y, j)
      PROVE  Tidy(pool', {})
  <2>1. pool'.job = pool.job /\ pool'.slave[s] = y
    BY <1>2, <1>3
  <2>2. \A z \in Slave \ {s} : pool'.slave[z] = pool.slave[z]
    BY <1>2, <1>3
  <2> HIDE <1>2
  <2> QED
    BY <1>1, <1>3, <2>1, <2>2, TidySame
<1>4. ASSUME x.inbox # <<>>, NEW op \in {"pid", "done", "redirect"}
      PROVE  m(op) \in Message /\ m(op) = Msg(op, Head(x.inbox).job)
  <2>1. Head(x.inbox) \in Message
    BY <1>1, <1>4, HeadTailProperties DEF SlaveRecord
  <2> QED
    BY <2>1 DEF Message, Msg
<1>5. CASE ExecFails(s)
  <2>1. x.st = "starting" /\ pool' = [pool EXCEPT !.slave[s] = Unborn]
    BY <1>5 DEF ExecFails
  <2>2. \A k \in Job \ {} : pool.job[k].slave # s
    BY <2>1, SlavesAssumption DEF Inv, Agrees, Lists, Holds
  <2>3. Clean(Unborn)
    BY DEF Unborn, NoProcess, Clean
  <2>4. /\ pool'.job = pool.job /\ Clean(pool'.slave[s])
        /\ \A z \in Slave \ {s} : pool'.slave[z] = pool.slave[z]
    BY <1>2, <2>1, <2>3
  <2>5. Tidy(pool', {})
    BY <1>1, <2>2, <2>4, TidyUnheld
  <2> QED
    BY <2>5 DEF TidyInv
<1>6. CASE Dies(s)
  <2>1. pool' = [pool EXCEPT !.slave[s] = dead]
    BY <1>6 DEF Dies
  <2>2. dead.inbox = <<>> /\ dead.outbox = x.outbox
    BY <1>1 DEF SlaveRecord
  <2> HIDE DEF m, dead
  <2>3. /\ Clean(x) => Clean(dead)
        /\ Asks(x) => Asks(dead)
        /\ \A j \in Job : Own(x, j) => Own(dead, j)
    BY <2>2 DEF Clean, Asks, Own
  <2>4. Tidy(pool', {})
    BY <1>3, <2>1, <2>3
  <2> QED
    BY <2>4 DEF TidyInv
<1>7. ASSUME NEW op \in {"pid", "done"}, x.inbox # <<>>, op = "pid" <=> Head(x.inbox).op = "getPID",
             pool' = Tell(s, op)
      PROVE  Tidy(pool', {})
  <2>1. pool' = [pool EXCEPT !.slave[s] = Served(x, m(op))]
    BY <1>7 DEF Tell, Served
  <2>2. m(op) \in Message /\ m(op) = Msg(op, Head(x.inbox).job)
    BY <1>4, <1>7
  <2> HIDE DEF m, dead, x
  <2>3. /\ Clean(x) => Clean(Served(x, m(op)))
        /\ Asks(x) => Asks(Served(x, m(op)))
        /\ \A j \in Job : Own(x, j) => Own(Served(x, m(op)), j)
    BY <1>1, <1>7, <2>2, ServedSays
  <2> QED
    BY <1>3, <2>1, <2>3 DEF x
<1>8. CASE Redirects(s)
  <2>1. /\ x.inbox # <<>> /\ Head(x.inbox).op = "work"
        /\ pool' = [pool EXCEPT !.slave[s] = Said(x, m("redirect"))]
    BY <1>8 DEF Redirects, Asked, Said
  <2>2. m("redirect") \in Message /\ m("redirect") = Msg("redirect", Head(x.inbox).job)
    BY <1>4, <2>1
  <2>3. Head(x.inbox).op \notin Odd
    BY <2>1 DEF Odd
  <2> HIDE DEF m, dead, x
  <2>4. /\ Clean(x) => Clean(Said(x, m("redirect")))
        /\ Asks(x) => Asks(Said(x, m("redirect")))
        /\ \A j \in Job : Own(x, j) => Own(Said(x, m("redirect")), j)
    BY <1>1, <2>1, <2>2, <2>3, SaidSays
  <2>5. Tidy(pool', {})
    BY <1>3, <2>1, <2>4 DEF x
  <2> QED
    BY <2>5 DEF TidyInv
<1>9. CASE SendPID(s)
  <2>1. x.inbox # <<>> /\ Head(x.inbox).op = "getPID" /\ pool' = Tell(s, "pid")
    BY <1>9 DEF SendPID, Asked
  <2> QED
    BY <1>7, <2>1 DEF TidyInv
<1>10. ASSUME x.inbox # <<>>, Head(x.inbox).op # "getPID", pool' = Tell(s, "done")
       PROVE  TidyInv'
  BY <1>7, <1>10 DEF TidyInv
<1>11. ASSUME x.inbox # <<>>, NEW j, j = Head(x.inbox).job,
              pool' = [pool EXCEPT !.slave[s].inbox = Tail(@), !.job[j].lost = TRUE]
       PROVE  TidyInv'
  <2> DEFINE y == Silent(x)
             q == [pool EXCEPT !.slave[s] = y]
             r == Missed(q.job[j])
  <2>1. y \in SlaveRecord /\ j \in Job /\ y.inbox = Tail(x.inbox) /\ y.outbox = x.outbox
    BY <1>1, <1>11, SilentType
  <2>2. pool' = [q EXCEPT !.job[j] = r]
    BY <1>1, <1>11 DEF Silent, Missed, PoolType
  <2>3. q.job = pool.job /\ q.slave = [pool.slave EXCEPT ![s] = y] /\ q \in PoolType
    BY <1>1, <2>1 DEF PoolType
  <2> HIDE DEF m, dead, x, y, q
  <2>4. /\ Clean(x) => Clean(y)
        /\ Asks(x) => Asks(y)
        /\ \A k \in Job : Own(x, k) => Own(y, k)
    BY <1>1, <1>11, <2>1, SilentSays
  <2>5. q.slave[s] = y /\ \A z \in Slave \ {s} : q.slave[z] = pool.slave[z]
    BY <1>1, <2>3 DEF PoolType
  <2>6. Tidy(q, {})
    BY <1>1, <2>3, <2>4, <2>5, TidySame DEF x
  <2>7. r \in JobRecord /\ r.slave = q.job[j].slave /\ r.dialog = q.job[j].dialog
        /\ r.on = q.job[j].on /\ r.st = q.job[j].st
    <3>1. q.job[j] \in JobRecord
      BY <2>1, <2>3, PoolFacts
    <3> QED
      BY <3>1 DEF Missed, JobRecord
  <2> HIDE DEF r
  <2>8. pool'.slave = q.slave /\ pool'.job = [q.job EXCEPT ![j] = r]
    BY <2>1, <2>2, <2>3, <2>7, JobEffect
  <2>9. pool'.job[j] = r /\ \A k \in Job \ {j} : pool'.job[k] = q.job[k]
    BY <2>1, <2>3, <2>8 DEF PoolType
  <2>10. Tidy(pool', {})
    BY <2>1, <2>6, <2>7, <2>8, <2>9, TidyNoted
  <2> QED
    BY <2>10 DEF TidyInv
<1>12. CASE CleanUp(s)
  BY <1>10, <1>12 DEF CleanUp, Asked
<1>13. CASE Work(s)
  BY <1>10, <1>11, <1>13 DEF Work, Asked
<1> QED
  BY <1>5, <1>6, <1>8, <1>9, <1>12, <1>13

LEMMA InitTidy == Init => TidyInv
<1> SUFFICES ASSUME Init PROVE TidyInv
  OBVIOUS
<1>1. /\ \A j \in Job : pool.job[j] = NewJob
      /\ \A s \in Slave : pool.slave[s] = NoProcess
  BY DEF Init
<1>2. /\ NewJob.dialog = 0 /\ NewJob.slave = NoSlave
      /\ Clean(NoProcess)
  BY DEF NewJob, NoProcess, Clean
<1> QED
  BY <1>1, <1>2 DEF TidyInv, Tidy

LEMMA NextTidy ==
  ASSUME "error" \notin Env
  PROVE  Inv /\ TidyInv /\ [Next]_pool => TidyInv'
<1> SUFFICES ASSUME Inv, TidyInv, [Next]_pool PROVE TidyInv'
  OBVIOUS
<1>1. CASE UNCHANGED pool
  BY <1>1 DEF TidyInv
<1>2. ASSUME NEW j \in Job, Start(j) \/ UserCancels(j) \/ Answer(j) PROVE TidyInv'
  BY <1>2, StartTidy, UserCancelsTidy, NoErrors
<1>3. ASSUME NEW s \in Slave, Reading(s) PROVE TidyInv'
  BY <1>3, StartJobTidy, SlaveDoneTidy, NoErrors, RedirectionTidy, CloseEventTidy DEF Reading
<1>4. ASSUME NEW s \in Slave, Serving(s) \/ ExecFails(s) \/ Redirects(s) \/ Dies(s) PROVE TidyInv'
  BY <1>4, ConnectTidy, ProcessTidy DEF Serving
<1>5. ASSUME NEW s \in Slave, SlotTimer(s) PROVE TidyInv'
  BY <1>5, SlotTimerTidy
<1> QED
  BY <1>1, <1>2, <1>3, <1>4, <1>5 DEF Next

\* When no request fails, a job that has been started hears of its own
\* requests only: a slave that was handed back in the middle of its work
\* answers getPID after everything else, and a job listens from then on
\* (kiojob.cpp:1207-1217, 1633-1644).
THEOREM AnswersOwn ==
  ASSUME "error" \notin Env
  PROVE  Spec => []OwnAnswers
<1>1. Inv /\ TidyInv => OwnAnswers
  <2> SUFFICES ASSUME Inv, TidyInv, NEW j \in Job, pool.job[j].on > 0, pool.job[j].slave # NoSlave,
                      NEW s, s = pool.slave[pool.job[j].slave],
                      NEW m \in {s.inbox[i] : i \in DOMAIN s.inbox}
                                   \cup {s.outbox[i] : i \in DOMAIN s.outbox}
               PROVE  m.job = j
    BY DEF OwnAnswers
  <2>1. s \in SlaveRecord
    BY PoolFacts DEF Inv, Agrees, Lists
  <2>2. Own(s, j)
    BY DEF TidyInv, Tidy, Fits
  <2>3. DOMAIN s.inbox = 1 .. Len(s.inbox) /\ DOMAIN s.outbox = 1 .. Len(s.outbox)
    <3>1. s.inbox \in Seq(Message) /\ s.outbox \in Seq(Message)
      BY <2>1 DEF SlaveRecord
    <3> QED
      BY <3>1, LenProperties
  <2>4. /\ \A i \in DOMAIN s.inbox : s.inbox[i].job = j
        /\ \A i \in DOMAIN s.outbox : s.outbox[i].job = j
    BY <2>2, <2>3 DEF Own
  <2> QED
    BY <2>4
<1>2. Spec => []TidyInv
  BY AlwaysInv, InitTidy, NextTidy, PTL DEF Spec
<1> QED
  BY <1>1, <1>2, AlwaysInv, PTL
=============================================================================
