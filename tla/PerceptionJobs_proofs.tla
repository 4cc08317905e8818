-------------------------- MODULE PerceptionJobs_proofs --------------------------
(***************************************************************************)
(* The worker plane for any jobs, samples, keys, workers and requests.     *)
(* What a job carries comes from its own runs, and so does what a result   *)
(* has read of it, however old; on a job that no two results met on, what  *)
(* the one under way has read is what is there.  And a key on which no two *)
(* requests met has its job recorded, or in the hands of the one request   *)
(* that inserted it.                                                       *)
(***************************************************************************)
EXTENDS PerceptionJobs, TLAPS

Own(j) == {r \in Runs : heard[r] # None /\ heard[r].job = j}

Whole(doc, j) ==
  /\ \A u \in doc.ids : \E r \in Own(j) : u \in IdsOf(r)
  /\ doc.status = "complete" => doc.state = "complete"
  /\ doc.state = "complete" => doc.offset = FullOffset /\ \E r \in Own(j) : IdsOf(r) \subseteq doc.ids

JobOK(j) == Exists(j) => Whole(jobs[j], j) /\ (jobs[j].state = "queued" => jobs[j].by = None)

CallOK(c) ==
  /\ c.op = "enqueue" => c.key \in Keys /\ c.pc \in {"lookup", "find", "insert", "record"}
  /\ c.op = "sample" => c.pc \in {"lookup", "insert", "complete"}
  /\ c.op = "sample" /\ c.pc = "lookup" => c.key \in Keys
  /\ c.op = "result" => /\ c.pc \in {"read", "write"} /\ c.key = None
                        /\ c.ref \in Jobs /\ Exists(c.ref) /\ c.run \in Own(c.ref)
  /\ c.pc \in {"find", "record"} => c.ref \in Jobs /\ Exists(c.ref)
  /\ c.pc = "record" => jobs[c.ref].key = c.key
  /\ c.pc = "complete" => c.ref \in Samples /\ samples[c.ref] # None
  /\ c.pc = "write" => c.doc # None /\ Whole(c.doc, c.ref)

CallsOK == \A c \in calls : CallOK(c)

IdemOK == \A k \in Keys : idem[k] # None => Exists(idem[k]) /\ jobs[idem[k]].key = k

UnderJobKey(k) == {j \in Jobs : Exists(j) /\ jobs[j].key = k}

\* A key on which nobody was disturbed: its one request in progress of each kind, its job
\* recorded or about to be, and no insert under way where there is something already.
KeyOK(k) ==
  /\ \A c, d \in calls : c.op = d.op /\ c.key = k /\ d.key = k => c = d
  /\ \A j \in UnderJobKey(k) :
       idem[k] = j \/ \E c \in calls : c.op = "enqueue" /\ c.pc = "record" /\ c.key = k /\ c.ref = j
  /\ \A c \in calls : c.key = k /\ c.pc = "insert" =>
       IF c.op = "enqueue" THEN UnderJobKey(k) = {} ELSE UnderKey(k) = {}
  /\ \A i, j \in UnderJobKey(k) : i = j
  /\ \A s, t \in UnderKey(k) : s = t

\* A job that no two results met on: one is under way at most, and its copy is not stale.
CrossOK(j) ==
  j \notin crossed =>
    /\ \A c, d \in calls : c.op = "result" /\ d.op = "result" /\ c.ref = j /\ d.ref = j => c = d
    /\ \A c \in calls : c.op = "result" /\ c.pc = "write" /\ c.ref = j => c.doc.ids = jobs[j].ids

Arrived(r, j) ==
  /\ Exists(j) /\ jobs[j].state = "complete" /\ jobs[j].offset = FullOffset
  /\ j \in crossed \/ IdsOf(r) \subseteq jobs[j].ids

AnsweredOK(r) == heard[r] # None /\ Arrived(r, heard[r].job)

HeardOK == \A r \in Runs : heard[r] # None => Exists(heard[r].job)

ResultsOK == (\A j \in Jobs : CrossOK(j)) /\ \A r \in answered : AnsweredOK(r)

JobsInv ==
  /\ TypeOK /\ CallsOK /\ IdemOK /\ HeardOK /\ ResultsOK
  /\ \A j \in Jobs : JobOK(j)
  /\ \A k \in Keys \ disturbed : KeyOK(k)

--------------------------------------------------------------------------------
(* Runs and documents.                                                         *)

LEMMA OffsetsAre == Offsets \subseteq Nat /\ \A n \in Offsets : n <= n /\ Later(n, FullOffset) = FullOffset
  BY DEF Offsets, FullOffset, Later

LEMMA IdsAre ==
  ASSUME JobsInv, NEW r \in Runs, heard[r] # None
  PROVE  IdsOf(r) \subseteq UnitIds /\ heard[r].job \in Jobs
  <1>1. heard[r] \in Heard
    BY DEF JobsInv, TypeOK
  <1>2. heard[r].job \in Jobs /\ heard[r].units \in Nat /\ heard[r].units <= Units
    BY <1>1, PerceptionAssumption DEF Heard
  <1> QED
    BY <1>2, PerceptionAssumption DEF IdsOf, UnitIds

LEMMA QueuedIs ==
  ASSUME NEW k \in Keys, NEW j
  PROVE  /\ Queued(k) \in Job /\ Queued(k) # None /\ Queued(k).key = k
         /\ Queued(k).by = None /\ Queued(k).state = "queued"
         /\ Queued(k).ids = {} /\ Queued(k).offset = 0 /\ Queued(k).status = "none"
  <1>1. Queued(k) \in Job
    BY PerceptionAssumption DEF Queued, Job, Offsets, Statuses, UnitIds
  <1> QED
    BY <1>1, PerceptionAssumption DEF Queued

--------------------------------------------------------------------------------
(* What stays true of the requests, and of a key.                              *)

Grown ==
  /\ \A j \in Jobs : Exists(j) => Exists(j)' /\ jobs'[j].key = jobs[j].key
  /\ \A r \in Runs : heard[r] # None => heard'[r] = heard[r]
  /\ \A s \in Samples : samples[s] # None => samples'[s] # None

LEMMA CallIs ==
  ASSUME JobsInv, NEW c \in calls
  PROVE  /\ c \in Calls /\ CallOK(c) /\ c.key \in Keys \cup {None}
         /\ c.doc \in Job \cup {None} /\ c.op \in {"enqueue", "result", "sample"}
         /\ c.op = "enqueue" => c.key \in Keys
  <1>1. c \in Calls /\ CallOK(c)
    BY DEF JobsInv, TypeOK, CallsOK
  <1> QED
    BY <1>1 DEF Calls, CallOK

LEMMA OwnGrows ==
  ASSUME Grown, NEW j
  PROVE  Own(j) \subseteq Own(j)' /\ \A r \in Own(j) : IdsOf(r)' = IdsOf(r)
  BY DEF Grown, Own, IdsOf

LEMMA WholeStays ==
  ASSUME Grown, NEW j, NEW doc, Whole(doc, j)
  PROVE  Whole(doc, j)'
  BY OwnGrows DEF Whole

LEMMA HeardStays ==
  ASSUME JobsInv, Grown, heard' = heard
  PROVE  HeardOK'
  BY IdsAre DEF JobsInv, HeardOK, Grown

LEMMA StaysOK ==
  ASSUME Grown, NEW c \in Calls, CallOK(c)
  PROVE  CallOK(c)'
  <1>1. c.pc = "write" => Whole(c.doc, c.ref)'
    BY WholeStays DEF CallOK
  <1>2. c.op = "result" => c.run \in Own(c.ref)'
    BY OwnGrows DEF CallOK
  <1> QED
    BY <1>1, <1>2 DEF Grown, CallOK

\* A step that leaves the runs, the answers and what jobs carry alone, and adds no result.
LEMMA ResultsQuiet ==
  ASSUME JobsInv, UNCHANGED <<heard, answered, crossed>>,
         \A j \in Jobs : Exists(j) =>
           /\ Exists(j)' /\ jobs'[j].ids = jobs[j].ids /\ jobs'[j].offset = jobs[j].offset
           /\ jobs[j].state = "complete" => jobs'[j].state = "complete",
         \A d \in calls' : d.op = "result" => d \in calls
  PROVE  ResultsOK'
  <1>1. ASSUME NEW j \in Jobs PROVE CrossOK(j)'
    <2>1. CrossOK(j)
      BY DEF JobsInv, ResultsOK
    <2>2. \A d \in calls' : d.op = "result" /\ d.ref = j => d \in calls /\ Exists(j)
      BY DEF JobsInv, CallsOK, CallOK
    <2> QED
      BY <2>1, <2>2 DEF CrossOK
  <1>2. ASSUME NEW r \in answered PROVE AnsweredOK(r)'
    <2>1. AnsweredOK(r) /\ heard[r].job \in Jobs
      BY IdsAre DEF JobsInv, TypeOK, ResultsOK, AnsweredOK
    <2>2. IdsOf(r)' = IdsOf(r)
      BY DEF IdsOf
    <2> QED
      BY <2>1, <2>2 DEF AnsweredOK, Arrived
  <1> QED
    BY <1>1, <1>2 DEF ResultsOK

LEMMA JobsStep ==
  ASSUME JobsInv, Grown,
         jobs' \in [Jobs -> Job \cup {None}], idem' \in [Keys -> Jobs \cup {None}],
         samples' \in [Samples -> Sample \cup {None}], heard' \in [Runs -> Heard \cup {None}],
         answered' \subseteq Runs, disturbed' \subseteq Keys, crossed' \subseteq Jobs, HeardOK', ResultsOK',
         \A j \in Jobs : JobOK(j)', IdemOK',
         \A d \in calls' \ calls : d \in Calls /\ CallOK(d)',
         \A k \in Keys \ disturbed' : KeyOK(k)'
  PROVE  JobsInv'
  <1>1. \A c \in calls' : c \in Calls /\ CallOK(c)'
    <2> SUFFICES ASSUME NEW c \in calls' PROVE c \in Calls /\ CallOK(c)'
      OBVIOUS
    <2>1. CASE c \in calls
      BY <2>1, CallIs, StaysOK
    <2>2. CASE c \notin calls
      BY <2>2
    <2> QED
      BY <2>1, <2>2
  <1>2. TypeOK' /\ CallsOK'
    BY <1>1 DEF TypeOK, CallsOK
  <1> QED
    BY <1>2 DEF JobsInv

\* What a key is mapped to, and what lies under it, is as before; so are its requests.
LEMMA KeyUntouched ==
  ASSUME NEW k, KeyOK(k), idem'[k] = idem[k], UnderJobKey(k)' = UnderJobKey(k), UnderKey(k)' = UnderKey(k),
         \A c \in calls \ calls' : c.key # k, \A d \in calls' \ calls : d.key # k
  PROVE  KeyOK(k)'
  BY DEF KeyOK

\* One of its requests goes on, or ends, with nothing to record.
LEMMA KeyMovesOn ==
  ASSUME NEW k, KeyOK(k), idem'[k] = idem[k], UnderJobKey(k)' = UnderJobKey(k), UnderKey(k)' = UnderKey(k),
         NEW c \in calls, c.key = k, c.pc # "record", NEW d, d.op = c.op, d.key = k,
         Continue(c, d) \/ End(c),
         d.pc = "insert" => IF d.op = "enqueue" THEN UnderJobKey(k) = {} ELSE UnderKey(k) = {}
  PROVE  KeyOK(k)'
  <1>1. \A e \in calls' : e \in calls \/ e = d
    BY DEF Continue, End
  <1>2. \A e \in calls' : e.op = c.op /\ e.key = k => e = d
    BY <1>1 DEF KeyOK, Continue, End
  <1>3. \A e, f \in calls' : e.op = f.op /\ e.key = k /\ f.key = k => e = f
    BY <1>1, <1>2 DEF KeyOK
  <1>4. \A e \in calls : e # c => e \in calls'
    BY DEF Continue, End
  <1>5. \A j \in UnderJobKey(k)' :
          idem'[k] = j \/ \E e \in calls' : e.op = "enqueue" /\ e.pc = "record" /\ e.key = k /\ e.ref = j
    BY <1>4 DEF KeyOK
  <1>6. \A e \in calls' : e.key = k /\ e.pc = "insert" =>
          IF e.op = "enqueue" THEN UnderJobKey(k)' = {} ELSE UnderKey(k)' = {}
    BY <1>1 DEF KeyOK
  <1> QED
    BY <1>3, <1>5, <1>6 DEF KeyOK

\* No document changes.
LEMMA CallStep ==
  ASSUME JobsInv, UNCHANGED <<jobs, idem, samples, heard>>, disturbed' \subseteq Keys,
         answered' \subseteq Runs, crossed' \subseteq Jobs, ResultsOK',
         \A d \in calls' \ calls : d \in Calls /\ CallOK(d)',
         \A k \in Keys \ disturbed' : KeyOK(k)'
  PROVE  JobsInv'
  <1>1. Grown
    BY DEF Grown, Exists
  <1>2. (\A j \in Jobs : JobOK(j)') /\ IdemOK'
    BY <1>1, WholeStays DEF JobsInv, JobOK, IdemOK, Exists
  <1> QED
    BY <1>1, <1>2, HeardStays, JobsStep DEF JobsInv, TypeOK

LEMMA SameUnder ==
  ASSUME UNCHANGED <<jobs, samples>>, NEW k
  PROVE  UnderJobKey(k)' = UnderJobKey(k) /\ UnderKey(k)' = UnderKey(k)
  BY DEF UnderJobKey, UnderKey, Exists

LEMMA MovesOn ==
  ASSUME JobsInv, UNCHANGED <<jobs, idem, samples, heard, answered, disturbed, crossed>>,
         NEW c \in calls, c.op # "result", c.pc # "record", NEW d \in Calls, CallOK(d)', d.op = c.op, d.key = c.key,
         Continue(c, d),
         d.pc = "insert" /\ c.key \in Keys \ disturbed =>
           IF d.op = "enqueue" THEN UnderJobKey(c.key) = {} ELSE UnderKey(c.key) = {}
  PROVE  JobsInv'
  <1>1. \A k \in Keys \ disturbed' : KeyOK(k)'
    <2> SUFFICES ASSUME NEW k \in Keys \ disturbed PROVE KeyOK(k)'
      OBVIOUS
    <2>1. KeyOK(k)
      BY DEF JobsInv
    <2>2. CASE c.key = k
      BY <2>1, <2>2, SameUnder, KeyMovesOn
    <2>3. CASE c.key # k
      BY <2>1, <2>3, SameUnder, KeyUntouched DEF Continue
    <2> QED
      BY <2>2, <2>3
  <1>2. ResultsOK'
    BY ResultsQuiet DEF Continue, Exists
  <1> QED
    BY <1>1, <1>2, CallStep DEF Continue, JobsInv, TypeOK

\* Steps of a result that write no job.
LEMMA ResultStep ==
  ASSUME JobsInv, UNCHANGED <<jobs, idem, samples, heard, disturbed>>,
         answered' \subseteq Runs, crossed' \subseteq Jobs, ResultsOK',
         \A c \in calls \ calls' : c.key = None,
         \A d \in calls' \ calls : d \in Calls /\ CallOK(d)' /\ d.key = None
  PROVE  JobsInv'
  <1>1. \A k \in Keys \ disturbed' : KeyOK(k)'
    <2> SUFFICES ASSUME NEW k \in Keys \ disturbed PROVE KeyOK(k)'
      OBVIOUS
    <2>1. KeyOK(k) /\ k # None
      BY PerceptionAssumption DEF JobsInv
    <2> QED
      BY <2>1, SameUnder, KeyUntouched
  <1> QED
    BY <1>1, CallStep DEF JobsInv, TypeOK

LEMMA EndsKeep ==
  ASSUME JobsInv, UNCHANGED <<jobs, idem, samples, heard, answered, crossed>>, NEW c \in calls, End(c),
         \/ disturbed' = disturbed /\ c.pc # "record"
         \/ disturbed' = disturbed \cup {c.key} /\ c.op = "enqueue"
  PROVE  JobsInv'
  <1>1. disturbed \subseteq disturbed' /\ disturbed' \subseteq Keys
    BY CallIs DEF JobsInv, TypeOK
  <1>2. \A k \in Keys \ disturbed' : KeyOK(k)'
    <2> SUFFICES ASSUME NEW k \in Keys \ disturbed' PROVE KeyOK(k)'
      OBVIOUS
    <2>1. KeyOK(k)
      BY <1>1 DEF JobsInv
    <2>2. CASE c.key = k
      <3>1. c.pc # "record"
        BY <2>2
      <3>2. CASE c.pc = "insert"
        BY <2>1, <2>2, <3>2, SameUnder, KeyMovesOn DEF KeyOK
      <3>3. CASE c.pc # "insert"
        BY <2>1, <2>2, <3>1, <3>3, SameUnder, KeyMovesOn
      <3> QED
        BY <3>2, <3>3
    <2>3. CASE c.key # k
      BY <2>1, <2>3, SameUnder, KeyUntouched DEF End
    <2> QED
      BY <2>2, <2>3
  <1>3. ResultsOK'
    BY ResultsQuiet DEF End, Exists
  <1> QED
    BY <1>1, <1>2, <1>3, CallStep DEF End, JobsInv, TypeOK

--------------------------------------------------------------------------------
(* Requests arrive.                                                            *)

\* A request under a key that another of its kind is under disturbs it.
LEMMA StartKeeps ==
  ASSUME JobsInv, UNCHANGED <<jobs, idem, samples, heard, answered, crossed>>, disturbed' \subseteq Keys,
         disturbed \subseteq disturbed', NEW d \in Calls, d.op # "result", CallOK(d)', calls' = calls \cup {d},
         \A k \in Keys \ disturbed' : \A c \in calls : c.op = d.op /\ c.key = k => d.key # k,
         d.pc = "insert" => d.key = None
  PROVE  JobsInv'
  <1>1. \A k \in Keys \ disturbed' : KeyOK(k)'
    <2> SUFFICES ASSUME NEW k \in Keys \ disturbed' PROVE KeyOK(k)'
      OBVIOUS
    <2>1. KeyOK(k) /\ k # None
      BY PerceptionAssumption DEF JobsInv
    <2>2. UnderJobKey(k)' = UnderJobKey(k) /\ UnderKey(k)' = UnderKey(k)
      BY SameUnder
    <2>3. \A e, f \in calls' : e.op = f.op /\ e.key = k /\ f.key = k => e = f
      BY <2>1 DEF KeyOK
    <2>4. \A e \in calls' : e.key = k /\ e.pc = "insert" => e \in calls
      BY <2>1
    <2> QED
      BY <2>1, <2>2, <2>3, <2>4 DEF KeyOK
  <1>2. ResultsOK'
    BY ResultsQuiet DEF Exists
  <1> QED
    BY <1>1, <1>2, CallStep DEF JobsInv, TypeOK

LEMMA MetIs ==
  ASSUME NEW op, NEW key \in Keys \cup {None}
  PROVE  /\ Met(op, key) \subseteq Keys
         /\ \A k \in Keys \ Met(op, key) : \A c \in calls : c.op = op /\ c.key = k => key # k
  <1>1. CASE key # None /\ \E c \in calls : c.op = op /\ c.key = key
    BY <1>1 DEF Met
  <1>2. CASE ~(key # None /\ \E c \in calls : c.op = op /\ c.key = key)
    BY <1>2, PerceptionAssumption DEF Met
  <1> QED
    BY <1>1, <1>2

\* A result that meets another one of its job crosses it.
LEMMA PostKeeps ==
  ASSUME JobsInv, NEW h \in Handlers, NEW r \in Runs, Post(h, r)
  PROVE  JobsInv'
  <1>1. PICK j \in Jobs : j = heard[r].job /\ heard[r] # None
    BY IdsAre DEF Post
  <1> DEFINE d == [by |-> h, op |-> "result", pc |-> "read", key |-> None, ref |-> j,
                   doc |-> None, run |-> r]
             met == {c.ref : c \in {e \in calls : e.op = "result" /\ e.ref = j}}
  <1>2. /\ calls' = calls \cup {d} /\ crossed' = crossed \cup met /\ r \in Own(j)
        /\ UNCHANGED <<jobs, idem, samples, heard, answered, disturbed>>
    BY <1>1 DEF Post, Start, Own
  <1>3. d \in Calls /\ d.key = None /\ d.pc = "read" /\ d.op = "result" /\ d.ref = j /\ d.run = r
    BY DEF Calls
  <1>4. met \subseteq {j} /\ (\A c \in calls : c.op = "result" /\ c.ref = j => met = {j})
    OBVIOUS
  <1> HIDE DEF d, met
  <1>5. Exists(j)
    BY <1>1 DEF JobsInv, HeardOK
  <1>6. CallOK(d)'
    BY <1>2, <1>3, <1>5 DEF CallOK, Exists, Own
  <1>7. ASSUME NEW i \in Jobs PROVE CrossOK(i)'
    <2>1. CrossOK(i)
      BY DEF JobsInv, ResultsOK
    <2>2. CASE i = j
      BY <1>2, <1>3, <1>4, <2>1, <2>2 DEF CrossOK
    <2>3. CASE i # j
      BY <1>2, <1>3, <2>1, <2>3 DEF CrossOK
    <2> QED
      BY <2>2, <2>3
  <1>8. ASSUME NEW q \in answered PROVE AnsweredOK(q)'
    BY <1>2 DEF JobsInv, ResultsOK, AnsweredOK, Arrived, Exists, IdsOf
  <1>9. ResultsOK'
    BY <1>2, <1>7, <1>8 DEF ResultsOK
  <1>10. crossed' \subseteq Jobs /\ answered' \subseteq Runs
    BY <1>2, <1>4 DEF JobsInv, TypeOK
  <1> QED
    BY <1>2, <1>3, <1>6, <1>9, <1>10, ResultStep

LEMMA ArriveKeeps ==
  ASSUME JobsInv, NEW h \in Handlers, Arrive(h)
  PROVE  JobsInv'
  <1>0. disturbed \subseteq Keys
    BY DEF JobsInv, TypeOK
  <1>1. ASSUME NEW k \in Keys, Enqueue(h, k) PROVE JobsInv'
    <2> DEFINE d == [by |-> h, op |-> "enqueue", pc |-> "lookup", key |-> k, ref |-> None,
                     doc |-> None, run |-> None]
    <2>1. d \in Calls /\ d.op = "enqueue" /\ d.key = k /\ d.pc = "lookup" /\ CallOK(d)'
      BY <1>0 DEF Calls, CallOK
    <2>2. calls' = calls \cup {d} /\ disturbed' = disturbed \cup Met("enqueue", k)
      BY <1>1 DEF Enqueue, Start
    <2> HIDE DEF d
    <2> QED
      BY <1>0, <1>1, <2>1, <2>2, StartKeeps, MetIs DEF Enqueue
  <1>2. ASSUME NEW r \in Runs, Post(h, r) PROVE JobsInv'
    BY <1>2, PostKeeps
  <1>3. ASSUME NEW k \in Keys \cup {None}, RunSample(h, k) PROVE JobsInv'
    <2> DEFINE pc == IF k = None THEN "insert" ELSE "lookup"
               d == [by |-> h, op |-> "sample", pc |-> pc, key |-> k, ref |-> None,
                     doc |-> None, run |-> None]
    <2>1. /\ d \in Calls /\ d.op = "sample" /\ d.key = k /\ CallOK(d)'
          /\ d.pc = "insert" => d.key = None
      BY <1>0 DEF Calls, CallOK
    <2>2. calls' = calls \cup {d} /\ disturbed' = disturbed \cup Met("sample", k)
      BY <1>3 DEF RunSample, Start
    <2> HIDE DEF d
    <2> QED
      BY <1>0, <1>3, <2>1, <2>2, StartKeeps, MetIs DEF RunSample
  <1> QED
    BY <1>1, <1>2, <1>3 DEF Arrive

--------------------------------------------------------------------------------
(* enqueue_job.                                                                *)

LEMMA LookupKeeps ==
  ASSUME JobsInv, NEW c \in calls, Lookup(c)
  PROVE  JobsInv'
  <1>1. /\ c.op = "enqueue" /\ c.pc = "lookup" /\ c.key \in Keys /\ c \in Calls
        /\ UNCHANGED <<jobs, idem, samples, heard, answered, disturbed, crossed>>
        /\ Continue(c, IF idem[c.key] = None THEN [c EXCEPT !.pc = "insert"]
                       ELSE [c EXCEPT !.pc = "find", !.ref = idem[c.key]])
    BY CallIs DEF Lookup, Recalled
  <1>2. CASE idem[c.key] = None
    <2> DEFINE d == [c EXCEPT !.pc = "insert"]
    <2>1. d \in Calls /\ Continue(c, d) /\ d.op = c.op /\ d.key = c.key /\ d.pc = "insert"
      BY <1>1, <1>2 DEF Calls
    <2> HIDE DEF d
    <2>2. CallOK(d)'
      BY <1>1, <2>1 DEF CallOK
    <2>3. c.key \in Keys \ disturbed => UnderJobKey(c.key) = {}
      <3> SUFFICES ASSUME c.key \in Keys \ disturbed, NEW j \in UnderJobKey(c.key) PROVE FALSE
        OBVIOUS
      <3>1. KeyOK(c.key) /\ j # None
        BY PerceptionAssumption DEF JobsInv, UnderJobKey
      <3>2. PICK e \in calls : e.op = "enqueue" /\ e.pc = "record" /\ e.key = c.key
        BY <1>2, <3>1 DEF KeyOK
      <3> QED
        BY <1>1, <3>1, <3>2 DEF KeyOK
    <2> QED
      BY <1>1, <2>1, <2>2, <2>3, MovesOn
  <1>3. CASE idem[c.key] # None
    <2>1. PICK j \in Jobs : j = idem[c.key] /\ Exists(j)
      BY <1>1, <1>3 DEF JobsInv, TypeOK, IdemOK
    <2> DEFINE d == [c EXCEPT !.pc = "find", !.ref = j]
    <2>2. d \in Calls /\ Continue(c, d) /\ d.op = c.op /\ d.key = c.key /\ d.pc = "find" /\ d.ref = j
      BY <1>1, <1>3, <2>1 DEF Calls
    <2> HIDE DEF d
    <2>3. CallOK(d)'
      BY <1>1, <2>1, <2>2 DEF CallOK, Exists
    <2> QED
      BY <1>1, <2>2, <2>3, MovesOn
  <1> QED
    BY <1>2, <1>3

LEMMA FindKeeps ==
  ASSUME JobsInv, NEW c \in calls, Find(c)
  PROVE  JobsInv'
  BY CallIs, EndsKeep DEF Find, CallOK, Exists

LEMMA InsertJobKeeps ==
  ASSUME JobsInv, NEW c \in calls, NEW j \in Jobs, InsertJob(c, j)
  PROVE  JobsInv'
  <1> DEFINE new == Queued(c.key)
             d == [c EXCEPT !.pc = "record", !.ref = j]
  <1>1. /\ c.op = "enqueue" /\ c.pc = "insert" /\ c.key \in Keys /\ ~Exists(j)
        /\ jobs' = [jobs EXCEPT ![j] = new] /\ UNCHANGED <<idem, samples, heard, answered, disturbed, crossed>>
        /\ d \in Calls /\ calls' = (calls \ {c}) \cup {d}
    BY CallIs DEF InsertJob, Continue, Exists, Calls
  <1>2. d.op = "enqueue" /\ d.pc = "record" /\ d.key = c.key /\ d.ref = j
    BY <1>1, CallIs DEF Calls
  <1>3. /\ new \in Job /\ new # None /\ new.key = c.key /\ new.by = None /\ new.state = "queued"
        /\ new.ids = {} /\ new.status = "none"
    BY <1>1, QueuedIs
  <1> HIDE DEF new, d
  <1>4. /\ jobs'[j] = new /\ \A i \in Jobs : i # j => jobs'[i] = jobs[i]
        /\ jobs' \in [Jobs -> Job \cup {None}]
    BY <1>1, <1>3 DEF JobsInv, TypeOK
  <1>6. Grown
    BY <1>1, <1>4 DEF Grown, Exists
  <1>7. \A i \in Jobs : JobOK(i)'
    <2>1. JobOK(j)'
      BY <1>3, <1>4 DEF JobOK, Whole
    <2>2. \A i \in Jobs : i # j => JobOK(i)'
      BY <1>4, <1>6, WholeStays DEF JobsInv, JobOK, Exists
    <2> QED
      BY <2>1, <2>2
  <1>8. IdemOK'
    BY <1>1, <1>4 DEF JobsInv, TypeOK, IdemOK, Exists
  <1>9. CallOK(d)'
    BY <1>1, <1>2, <1>3, <1>4 DEF CallOK, Exists
  <1>10. \A k \in Keys \ disturbed' : KeyOK(k)'
    <2> SUFFICES ASSUME NEW k \in Keys \ disturbed PROVE KeyOK(k)'
      BY <1>1
    <2>1. KeyOK(k) /\ UnderKey(k)' = UnderKey(k)
      BY <1>1 DEF JobsInv, UnderKey
    <2>2. CASE c.key # k
      <3>1. UnderJobKey(k)' = UnderJobKey(k)
        BY <1>1, <1>3, <1>4, <2>2 DEF UnderJobKey, Exists
      <3> QED
        BY <1>1, <1>2, <2>1, <2>2, <3>1, KeyUntouched
    <2>3. CASE c.key = k
      <3>1. UnderJobKey(k) = {}
        BY <1>1, <2>1, <2>3 DEF KeyOK
      <3>2. UnderJobKey(k)' = {j}
        BY <1>3, <1>4, <2>3, <3>1 DEF UnderJobKey, Exists
      <3>3. \A e \in calls' : e.op = "enqueue" /\ e.key = k => e = d
        BY <1>1, <2>1, <2>3 DEF KeyOK
      <3>4. \A e, f \in calls' : e.op = f.op /\ e.key = k /\ f.key = k => e = f
        BY <1>1, <1>2, <2>1, <3>3 DEF KeyOK
      <3>5. \A e \in calls' : e.key = k /\ e.pc = "insert" => e.op # "enqueue" /\ e \in calls
        BY <1>1, <1>2, <3>3
      <3>6. d \in calls'
        BY <1>1
      <3> QED
        BY <1>2, <2>1, <2>3, <3>2, <3>4, <3>5, <3>6 DEF KeyOK
    <2> QED
      BY <2>2, <2>3
  <1>11. ResultsOK'
    BY <1>1, <1>2, <1>4, ResultsQuiet DEF Exists
  <1> QED
    BY <1>1, <1>4, <1>6, <1>7, <1>8, <1>9, <1>10, <1>11, HeardStays, JobsStep DEF JobsInv, TypeOK

\* On an undisturbed key the job recorded is the only one there is.
LEMMA RecordKeeps ==
  ASSUME JobsInv, NEW c \in calls, Record(c)
  PROVE  JobsInv'
  <1>1. /\ c.pc = "record" /\ calls' = calls \ {c} /\ c.op = "enqueue" /\ c.key \in Keys
        /\ c.ref \in UnderJobKey(c.key) /\ c.ref \in Jobs /\ c.ref # None
        /\ idem' = [idem EXCEPT ![c.key] = Recorded(c.key, c.ref)]
        /\ UNCHANGED <<jobs, samples, heard, answered, disturbed, crossed>>
    BY CallIs, PerceptionAssumption DEF Record, End, CallOK, UnderJobKey
  <1>2. /\ idem'[c.key] = (IF idem[c.key] = None THEN c.ref ELSE idem[c.key])
        /\ \A k \in Keys : k # c.key => idem'[k] = idem[k]
        /\ idem' \in [Keys -> Jobs \cup {None}]
    BY <1>1 DEF JobsInv, TypeOK, Recorded
  <1>3. IdemOK'
    BY <1>1, <1>2 DEF JobsInv, IdemOK, UnderJobKey, Exists
  <1>4. Grown /\ (\A j \in Jobs : JobOK(j)') /\ ResultsOK'
    <2>1. Grown
      BY <1>1 DEF Grown, Exists
    <2> QED
      BY <1>1, <2>1, WholeStays, ResultsQuiet DEF Exists, JobsInv, JobOK
  <1>5. \A k \in Keys \ disturbed' : KeyOK(k)'
    <2> SUFFICES ASSUME NEW k \in Keys \ disturbed PROVE KeyOK(k)'
      BY <1>1
    <2>1. KeyOK(k) /\ UnderKey(k)' = UnderKey(k) /\ UnderJobKey(k)' = UnderJobKey(k)
      BY <1>1, SameUnder DEF JobsInv
    <2>2. CASE c.key # k
      BY <1>1, <1>2, <2>1, <2>2, KeyUntouched
    <2>3. CASE c.key = k
      <3>1. \A j \in UnderJobKey(k) : j = c.ref
        BY <1>1, <2>1, <2>3 DEF KeyOK
      <3>2. idem[k] # None => idem[k] \in UnderJobKey(k)
        BY DEF JobsInv, TypeOK, IdemOK, UnderJobKey
      <3>3. idem'[k] = c.ref
        BY <1>2, <2>3, <3>1, <3>2
      <3> QED
        BY <1>1, <2>1, <3>1, <3>3 DEF KeyOK
    <2> QED
      BY <2>2, <2>3
  <1> QED
    BY <1>1, <1>2, <1>3, <1>4, <1>5, HeardStays, JobsStep DEF JobsInv, TypeOK

--------------------------------------------------------------------------------
(* claim_next and apply_result.                                                *)

\* One job's document is rewritten, its key kept.
LEMMA JobRewritten ==
  ASSUME JobsInv, NEW j \in Jobs, Exists(j), NEW new \in Job, new.key = jobs[j].key,
         jobs' = [jobs EXCEPT ![j] = new], Whole(new, j), new.state = "queued" => new.by = None,
         UNCHANGED <<idem, samples, heard, disturbed, crossed>>, answered' \subseteq Runs, ResultsOK',
         \A c \in calls \ calls' : c.key = None, calls' \subseteq calls
  PROVE  JobsInv'
  <1>1. /\ jobs'[j] = new /\ \A i \in Jobs : i # j => jobs'[i] = jobs[i]
        /\ jobs' \in [Jobs -> Job \cup {None}] /\ new # None
    BY PerceptionAssumption DEF JobsInv, TypeOK
  <1>2. \A i \in Jobs : (Exists(i)' <=> Exists(i)) /\ (Exists(i) => jobs'[i].key = jobs[i].key)
    BY <1>1 DEF Exists
  <1>3. Grown
    BY <1>2 DEF Grown
  <1>4. \A i \in Jobs : JobOK(i)'
    BY <1>1, <1>3, WholeStays DEF JobsInv, JobOK, Exists
  <1>5. IdemOK'
    BY <1>2 DEF JobsInv, TypeOK, IdemOK
  <1>6. \A k \in Keys \ disturbed' : KeyOK(k)'
    <2> SUFFICES ASSUME NEW k \in Keys \ disturbed PROVE KeyOK(k)'
      OBVIOUS
    <2>1. UnderJobKey(k)' = UnderJobKey(k) /\ UnderKey(k)' = UnderKey(k)
      BY <1>2 DEF UnderJobKey, UnderKey
    <2>2. k # None
      BY PerceptionAssumption
    <2> QED
      BY <2>1, <2>2, KeyUntouched DEF JobsInv
  <1> QED
    BY <1>1, <1>3, <1>4, <1>5, <1>6, HeardStays, JobsStep DEF JobsInv, TypeOK

LEMMA ClaimKeeps ==
  ASSUME JobsInv, NEW w \in Workers, NEW j \in Jobs, Claim(w, j)
  PROVE  JobsInv'
  <1> DEFINE new == [jobs[j] EXCEPT !.state = "claimed", !.by = w]
  <1>1. Claimable(j) /\ Exists(j) /\ jobs' = [jobs EXCEPT ![j] = new] /\ UNCHANGED <<idem, samples, heard, calls, answered, disturbed, crossed>>
    BY DEF Claim, Claimable, Exists
  <1>2. jobs[j] \in Job /\ Whole(jobs[j], j) /\ jobs[j].state = "queued"
    BY <1>1 DEF JobsInv, TypeOK, JobOK, Exists, Claimable
  <1>3. /\ new \in Job /\ new.key = jobs[j].key /\ new.state = "claimed" /\ new # None
        /\ new.ids = jobs[j].ids /\ new.offset = jobs[j].offset /\ new.status = jobs[j].status
    BY <1>2, PerceptionAssumption DEF Job
  <1> HIDE DEF new
  <1>4. Whole(new, j)
    BY <1>2, <1>3 DEF Whole
  <1>5. ResultsOK'
    <2>1. jobs'[j] = new /\ \A i \in Jobs : i # j => jobs'[i] = jobs[i]
      BY <1>1 DEF JobsInv, TypeOK
    <2> QED
      BY <1>1, <1>2, <1>3, <2>1, ResultsQuiet DEF Exists
  <1> QED
    BY <1>1, <1>3, <1>4, <1>5, JobRewritten DEF JobsInv, TypeOK

LEMMA ProcessKeeps ==
  ASSUME JobsInv, NEW r \in Runs, NEW j \in Jobs, Process(r, j)
  PROVE  JobsInv'
  <1>1. PICK new : /\ new \in Heard /\ new.job = j /\ heard' = [heard EXCEPT ![r] = new]
                   /\ heard[r] = None /\ Exists(j)
                   /\ UNCHANGED <<jobs, idem, samples, calls, answered, disturbed, crossed>>
    BY DEF Process, Heard, Exists
  <1>2. /\ heard' \in [Runs -> Heard \cup {None}] /\ heard'[r] = new
        /\ \A q \in Runs : q # r => heard'[q] = heard[q]
    BY <1>1 DEF JobsInv, TypeOK
  <1>3. Grown
    BY <1>1, <1>2 DEF Grown, Exists
  <1>4. (\A i \in Jobs : JobOK(i)') /\ HeardOK'
    <2>1. \A i \in Jobs : JobOK(i)'
      BY <1>1, <1>3, WholeStays DEF JobsInv, JobOK, Exists
    <2>2. HeardOK'
      BY <1>1, <1>2 DEF JobsInv, HeardOK, Exists
    <2> QED
      BY <2>1, <2>2
  <1>5. IdemOK' /\ \A k \in Keys \ disturbed' : KeyOK(k)'
    BY <1>1, SameUnder, KeyUntouched DEF JobsInv, IdemOK, Exists
  <1>6. ResultsOK'
    <2>1. \A i \in Jobs : CrossOK(i)'
      BY <1>1 DEF JobsInv, ResultsOK, CrossOK
    <2>2. ASSUME NEW q \in answered PROVE AnsweredOK(q)'
      <3>1. AnsweredOK(q) /\ q \in Runs
        BY DEF JobsInv, TypeOK, ResultsOK
      <3>2. heard'[q] = heard[q]
        BY <1>1, <1>2, <3>1 DEF AnsweredOK
      <3> QED
        BY <1>1, <3>1, <3>2 DEF AnsweredOK, Arrived, Exists, IdsOf
    <2> QED
      BY <1>1, <2>1, <2>2 DEF ResultsOK
  <1> QED
    BY <1>1, <1>2, <1>3, <1>4, <1>5, <1>6, JobsStep DEF JobsInv, TypeOK

\* A result that the job carries already is answered; another one takes a copy of the job.
LEMMA ReadKeeps ==
  ASSUME JobsInv, NEW c \in calls, Read(c)
  PROVE  JobsInv'
  <1>1. /\ c.pc = "read" /\ c.op = "result" /\ c.key = None /\ c.ref \in Jobs /\ Exists(c.ref)
        /\ c.run \in Own(c.ref) /\ c.run \in Runs /\ c.ref = heard[c.run].job
        /\ UNCHANGED <<jobs, idem, samples, heard, disturbed, crossed>>
    BY CallIs DEF Read, CallOK, Own
  <1>2. jobs[c.ref] \in Job /\ jobs[c.ref] # None /\ Whole(jobs[c.ref], c.ref)
    BY <1>1 DEF JobsInv, TypeOK, JobOK, Exists
  <1>3. CASE Replayed(jobs[c.ref], ResultOf(c.run)) /\ End(c) /\ answered' = answered \cup {c.run}
    <2>1. AnsweredOK(c.run)
      BY <1>1, <1>2, <1>3 DEF Replayed, ResultOf, Whole, AnsweredOK, Arrived, Own
    <2>2. calls' = calls \ {c}
      BY <1>3 DEF End
    <2>3. \A i \in Jobs : CrossOK(i)'
      BY <1>1, <2>2 DEF JobsInv, ResultsOK, CrossOK
    <2>4. \A q \in answered' : AnsweredOK(q)'
      BY <1>1, <1>3, <2>1 DEF JobsInv, ResultsOK, AnsweredOK, Arrived, Exists, IdsOf
    <2>5. ResultsOK' /\ answered' \subseteq Runs /\ crossed' \subseteq Jobs
      BY <1>1, <1>3, <2>3, <2>4 DEF ResultsOK, JobsInv, TypeOK
    <2> QED
      BY <1>1, <2>2, <2>5, ResultStep
  <1>4. CASE Continue(c, [c EXCEPT !.pc = "write", !.doc = jobs[c.ref]]) /\ UNCHANGED answered
    <2>1. PICK doc \in Job : doc = jobs[c.ref] /\ doc # None /\ Whole(doc, c.ref)
      BY <1>2
    <2> DEFINE d == [c EXCEPT !.pc = "write", !.doc = doc]
    <2>2. /\ d \in Calls /\ calls' = (calls \ {c}) \cup {d} /\ d.op = c.op /\ d.key = c.key
          /\ d.pc = "write" /\ d.doc = doc /\ d.ref = c.ref /\ d.run = c.run
      BY <1>4, <2>1, CallIs DEF Calls, Continue
    <2> HIDE DEF d
    <2>3. CallOK(d)'
      BY <1>1, <2>1, <2>2, CallIs DEF CallOK, Whole, Exists, Own, IdsOf
    <2>4. ASSUME NEW i \in Jobs PROVE CrossOK(i)'
      BY <1>1, <2>1, <2>2 DEF JobsInv, ResultsOK, CrossOK
    <2>5. \A q \in answered' : AnsweredOK(q)'
      BY <1>1, <1>4 DEF JobsInv, ResultsOK, AnsweredOK, Arrived, Exists, IdsOf
    <2>6. ResultsOK' /\ answered' \subseteq Runs /\ crossed' \subseteq Jobs
      BY <1>1, <1>4, <2>4, <2>5 DEF ResultsOK, JobsInv, TypeOK
    <2> QED
      BY <1>1, <2>2, <2>3, <2>6, ResultStep
  <1> QED
    BY <1>3, <1>4 DEF Read

\* What is written is the copy, with the units of the run.
LEMMA WriteIs ==
  ASSUME JobsInv, NEW c \in calls, Write(c)
  PROVE  \E new \in Job :
           /\ jobs' = [jobs EXCEPT ![c.ref] = new] /\ new.key = jobs[c.ref].key /\ new.by = jobs[c.ref].by
           /\ new.state = "complete" /\ new.offset = FullOffset /\ Whole(new, c.ref)
           /\ new.ids = c.doc.ids \cup IdsOf(c.run) /\ c.doc.offset <= new.offset
  <1>1. /\ c.pc = "write" /\ c.ref \in Jobs /\ Exists(c.ref) /\ c.run \in Own(c.ref) /\ c.run \in Runs
        /\ heard[c.run] # None /\ c.doc \in Job /\ Whole(c.doc, c.ref)
    BY CallIs DEF Write, CallOK, Own
  <1>2. jobs[c.ref] \in Job
    BY <1>1 DEF JobsInv, TypeOK, Exists
  <1> PICK job \in Job, doc \in Job : job = jobs[c.ref] /\ doc = c.doc
    BY <1>1, <1>2
  <1> PICK res : res = ResultOf(c.run)
    OBVIOUS
  <1> PICK new : new = Applied(job, doc, res)
    OBVIOUS
  <1>3. jobs' = [jobs EXCEPT ![c.ref] = new]
    BY DEF Write
  <1>4. res.offset = FullOffset /\ res.ids = IdsOf(c.run) /\ res.status = "complete" /\ res.ids \subseteq UnitIds
    BY <1>1, IdsAre DEF ResultOf
  <1>5. Later(doc.offset, FullOffset) = FullOffset /\ doc.offset <= FullOffset /\ FullOffset \in Offsets
    BY DEF Job, Offsets, Later, FullOffset
  <1>6. /\ new \in Job /\ new.key = job.key /\ new.by = job.by /\ new.state = "complete"
        /\ new.offset = FullOffset /\ new.ids = doc.ids \cup res.ids /\ new.status = "complete"
    <2> PICK ids : ids = doc.ids \cup res.ids
      OBVIOUS
    <2>1. ids \in SUBSET UnitIds
      BY <1>4 DEF Job
    <2>2. new = [job EXCEPT !.state = "complete", !.offset = FullOffset, !.ids = ids, !.status = "complete"]
      BY <1>4, <1>5 DEF Applied
    <2>3. "complete" \in Statuses /\ FullOffset \in Offsets
      BY <1>5 DEF Statuses
    <2>4. new \in Job
      BY <2>1, <2>2, <2>3 DEF Job
    <2> QED
      BY <2>2, <2>4 DEF Job
  <1>7. Whole(new, c.ref)
    BY <1>1, <1>4, <1>6 DEF Whole
  <1> QED
    BY <1>3, <1>4, <1>5, <1>6, <1>7

LEMMA WriteKeeps ==
  ASSUME JobsInv, NEW c \in calls, Write(c)
  PROVE  JobsInv'
  <1>1. /\ c.key = None /\ c.ref \in Jobs /\ Exists(c.ref) /\ calls' = calls \ {c} /\ c.pc = "write"
        /\ c.op = "result" /\ c.run \in Runs /\ heard[c.run] # None /\ heard[c.run].job = c.ref
        /\ answered' = answered \cup {c.run} /\ UNCHANGED <<idem, samples, heard, disturbed, crossed>>
    BY CallIs DEF Write, CallOK, End, Own
  <1>2. PICK new \in Job : /\ jobs' = [jobs EXCEPT ![c.ref] = new] /\ new.key = jobs[c.ref].key
                           /\ new.state = "complete" /\ new.offset = FullOffset /\ Whole(new, c.ref)
                           /\ new.ids = c.doc.ids \cup IdsOf(c.run)
    BY WriteIs
  <1>3. jobs'[c.ref] = new /\ new # None /\ \A i \in Jobs : i # c.ref => jobs'[i] = jobs[i]
    BY <1>1, <1>2, PerceptionAssumption DEF JobsInv, TypeOK
  <1>4. c.ref \notin crossed => jobs[c.ref].ids \subseteq new.ids
    BY <1>1, <1>2 DEF JobsInv, ResultsOK, CrossOK
  <1>5. ASSUME NEW i \in Jobs PROVE CrossOK(i)'
    <2>1. CrossOK(i)
      BY DEF JobsInv, ResultsOK
    <2>2. CASE i = c.ref
      BY <1>1, <2>1, <2>2 DEF CrossOK
    <2>3. CASE i # c.ref
      BY <1>1, <1>3, <2>1, <2>3 DEF CrossOK
    <2> QED
      BY <2>2, <2>3
  <1>6. ASSUME NEW q \in answered' PROVE AnsweredOK(q)'
    <2>1. CASE q = c.run
      BY <1>1, <1>2, <1>3, <2>1 DEF AnsweredOK, Arrived, Exists, IdsOf
    <2>2. CASE q # c.run
      <3>1. AnsweredOK(q) /\ heard[q].job \in Jobs
        BY <1>1, <2>2, IdsAre DEF JobsInv, TypeOK, ResultsOK, AnsweredOK
      <3>2. IdsOf(q)' = IdsOf(q)
        BY <1>1 DEF IdsOf
      <3>3. CASE heard[q].job = c.ref
        BY <1>1, <1>2, <1>3, <1>4, <3>1, <3>2, <3>3 DEF AnsweredOK, Arrived, Exists
      <3>4. CASE heard[q].job # c.ref
        BY <1>1, <1>3, <3>1, <3>2, <3>4 DEF AnsweredOK, Arrived, Exists
      <3> QED
        BY <3>3, <3>4
    <2> QED
      BY <2>1, <2>2
  <1>7. ResultsOK' /\ answered' \subseteq Runs
    BY <1>1, <1>5, <1>6 DEF ResultsOK, JobsInv, TypeOK
  <1> QED
    BY <1>1, <1>2, <1>7, JobRewritten

--------------------------------------------------------------------------------
(* run_sample.                                                                 *)

LEMMA LookupSampleKeeps ==
  ASSUME JobsInv, NEW c \in calls, LookupSample(c)
  PROVE  JobsInv'
  <1>1. c.op = "sample" /\ c.pc = "lookup" /\ c.key \in Keys /\ UNCHANGED <<jobs, idem, samples, heard, answered, disturbed, crossed>>
    BY CallIs DEF LookupSample, CallOK
  <1>2. CASE UnderKey(c.key) = {} /\ Continue(c, [c EXCEPT !.pc = "insert"])
    <2> DEFINE d == [c EXCEPT !.pc = "insert"]
    <2>1. d \in Calls /\ Continue(c, d) /\ d.op = c.op /\ d.key = c.key /\ d.pc = "insert"
      BY <1>2, CallIs DEF Calls
    <2> HIDE DEF d
    <2>2. CallOK(d)'
      BY <1>1, <2>1 DEF CallOK
    <2> QED
      BY <1>1, <1>2, <2>1, <2>2, MovesOn
  <1>3. ASSUME NEW s \in UnderKey(c.key), Continue(c, [c EXCEPT !.pc = "complete", !.ref = s]) PROVE JobsInv'
    <2> DEFINE d == [c EXCEPT !.pc = "complete", !.ref = s]
    <2>1. s \in Samples /\ samples[s] # None
      BY DEF UnderKey
    <2>2. d \in Calls /\ Continue(c, d) /\ d.op = c.op /\ d.key = c.key /\ d.pc = "complete" /\ d.ref = s
      BY <1>3, <2>1, CallIs DEF Calls
    <2> HIDE DEF d
    <2>3. CallOK(d)'
      BY <1>1, <2>1, <2>2 DEF CallOK
    <2> QED
      BY <1>1, <2>2, <2>3, MovesOn
  <1> QED
    BY <1>2, <1>3 DEF LookupSample

\* Steps that write one sample: nothing else knows of it.
LEMMA SamplesStep ==
  ASSUME JobsInv, UNCHANGED <<jobs, idem, heard, answered, disturbed, crossed>>, samples' \in [Samples -> Sample \cup {None}],
         \A s \in Samples : samples[s] # None => samples'[s] # None,
         \A d \in calls' \ calls : d \in Calls /\ CallOK(d)' /\ d.op # "result",
         \A k \in Keys \ disturbed : KeyOK(k)'
  PROVE  JobsInv'
  <1>1. Grown
    BY DEF Grown, Exists
  <1>2. IdemOK' /\ \A j \in Jobs : JobOK(j)'
    BY <1>1, WholeStays DEF JobsInv, IdemOK, JobOK, Exists
  <1>3. ResultsOK'
    BY ResultsQuiet DEF Exists
  <1> QED
    BY <1>1, <1>2, <1>3, HeardStays, JobsStep DEF JobsInv, TypeOK

LEMMA InsertSampleKeeps ==
  ASSUME JobsInv, NEW c \in calls, NEW s \in Samples, InsertSample(c, s)
  PROVE  JobsInv'
  <1> DEFINE new == [key |-> c.key, status |-> "pending"]
             d == [c EXCEPT !.pc = "complete", !.ref = s]
  <1>1. /\ c.op = "sample" /\ c.pc = "insert" /\ samples[s] = None /\ samples' = [samples EXCEPT ![s] = new]
        /\ UNCHANGED <<jobs, idem, heard, answered, disturbed, crossed>> /\ d \in Calls /\ calls' = (calls \ {c}) \cup {d}
    BY CallIs DEF InsertSample, Continue, Calls
  <1>2. d.op = "sample" /\ d.pc = "complete" /\ d.key = c.key /\ d.ref = s
    BY <1>1, CallIs DEF Calls
  <1>3. new \in Sample /\ new # None /\ new.key = c.key
    <2>1. new \in Sample
      BY CallIs DEF Sample
    <2> QED
      BY <2>1, PerceptionAssumption
  <1> HIDE DEF new, d
  <1>4. /\ samples'[s] = new /\ \A t \in Samples : t # s => samples'[t] = samples[t]
        /\ samples' \in [Samples -> Sample \cup {None}]
    BY <1>1, <1>3 DEF JobsInv, TypeOK
  <1>5. CallOK(d)'
    BY <1>2, <1>3, <1>4 DEF CallOK
  <1>6. ASSUME NEW k \in Keys \ disturbed PROVE KeyOK(k)'
    <2>1. KeyOK(k) /\ UnderJobKey(k)' = UnderJobKey(k)
      BY <1>1 DEF JobsInv, UnderJobKey, Exists
    <2>2. CASE c.key # k
      <3>1. UnderKey(k)' = UnderKey(k)
        BY <1>1, <1>3, <1>4, <2>2 DEF UnderKey
      <3> QED
        BY <1>1, <1>2, <2>1, <2>2, <3>1, KeyUntouched
    <2>3. CASE c.key = k
      <3>1. UnderKey(k) = {}
        BY <1>1, <2>1, <2>3 DEF KeyOK
      <3>2. UnderKey(k)' = {s}
        BY <1>3, <1>4, <2>3, <3>1 DEF UnderKey
      <3>3. \A e \in calls' : e.op = "sample" /\ e.key = k => e = d
        BY <1>1, <2>1, <2>3 DEF KeyOK
      <3>4. \A e, f \in calls' : e.op = f.op /\ e.key = k /\ f.key = k => e = f
        BY <1>1, <1>2, <2>1, <3>3 DEF KeyOK
      <3>5. \A e \in calls' : e.key = k /\ e.pc = "insert" => e.op = "enqueue" /\ e \in calls
        <4> SUFFICES ASSUME NEW e \in calls', e.key = k, e.pc = "insert" PROVE e.op = "enqueue" /\ e \in calls
          OBVIOUS
        <4>1. e \in calls /\ e.op # "sample"
          BY <1>1, <1>2, <3>3
        <4> QED
          BY <4>1, CallIs DEF CallOK
      <3>6. \A e \in calls : e.pc = "record" => e \in calls'
        BY <1>1
      <3> QED
        BY <1>1, <2>1, <3>2, <3>4, <3>5, <3>6 DEF KeyOK
    <2> QED
      BY <2>2, <2>3
  <1>7. \A t \in Samples : samples[t] # None => samples'[t] # None
    BY <1>3, <1>4
  <1>8. \A e \in calls' \ calls : e \in Calls /\ CallOK(e)' /\ e.op # "result"
    BY <1>1, <1>2, <1>5
  <1> QED
    BY <1>1, <1>4, <1>6, <1>7, <1>8, SamplesStep

LEMMA CompleteSampleKeeps ==
  ASSUME JobsInv, NEW c \in calls, CompleteSample(c)
  PROVE  JobsInv'
  <1> DEFINE s == c.ref
             new == [samples[s] EXCEPT !.status = "complete"]
  <1>1. /\ c.pc = "complete" /\ c.op = "sample" /\ s \in Samples /\ samples[s] # None
        /\ samples' = [samples EXCEPT ![s] = new] /\ calls' = calls \ {c}
        /\ UNCHANGED <<jobs, idem, heard, answered, disturbed, crossed>>
    BY CallIs DEF CompleteSample, End, CallOK
  <1>2. new \in Sample /\ new.key = samples[s].key /\ new # None
    <2>1. samples[s] \in Sample
      BY <1>1 DEF JobsInv, TypeOK
    <2>2. new \in Sample /\ new.key = samples[s].key
      BY <2>1 DEF Sample
    <2> QED
      BY <2>2, PerceptionAssumption
  <1> HIDE DEF s, new
  <1>3. /\ samples'[s] = new /\ \A t \in Samples : t # s => samples'[t] = samples[t]
        /\ samples' \in [Samples -> Sample \cup {None}]
    BY <1>1, <1>2 DEF JobsInv, TypeOK
  <1>4. ASSUME NEW k \in Keys \ disturbed PROVE KeyOK(k)'
    <2>1. KeyOK(k) /\ UnderJobKey(k)' = UnderJobKey(k) /\ idem'[k] = idem[k]
      BY <1>1 DEF JobsInv, UnderJobKey, Exists
    <2>2. UnderKey(k)' = UnderKey(k)
      BY <1>1, <1>2, <1>3 DEF UnderKey
    <2>3. CASE c.key = k
      BY <1>1, <2>1, <2>2, <2>3, KeyMovesOn DEF End
    <2>4. CASE c.key # k
      BY <1>1, <2>1, <2>2, <2>4, KeyUntouched
    <2> QED
      BY <2>3, <2>4
  <1> QED
    BY <1>1, <1>2, <1>3, <1>4, SamplesStep

--------------------------------------------------------------------------------
(* The theorems.                                                               *)

LEMMA StepKeeps ==
  ASSUME JobsInv, NEW c \in calls, Step(c)
  PROVE  JobsInv'
  <1>1. CASE Lookup(c) \/ Find(c) \/ (\E j \in Jobs : InsertJob(c, j)) \/ Record(c)
    BY <1>1, LookupKeeps, FindKeeps, InsertJobKeeps, RecordKeeps
  <1>2. CASE Read(c) \/ Write(c)
    BY <1>2, ReadKeeps, WriteKeeps
  <1>3. CASE LookupSample(c) \/ (\E s \in Samples : InsertSample(c, s)) \/ CompleteSample(c)
    BY <1>3, LookupSampleKeeps, InsertSampleKeeps, CompleteSampleKeeps
  <1>4. CASE Die(c) /\ c.pc = "record"
    BY <1>4, CallIs, EndsKeep DEF Die, CallOK
  <1>5. CASE Die(c) /\ c.pc # "record"
    BY <1>5, EndsKeep DEF Die
  <1> QED
    BY <1>1, <1>2, <1>3, <1>4, <1>5 DEF Step

LEMMA JobsInitInv == Init => JobsInv
  BY PerceptionAssumption
     DEF Init, JobsInv, TypeOK, CallsOK, IdemOK, HeardOK, ResultsOK, CrossOK, JobOK, KeyOK, UnderJobKey,
         UnderKey, Exists

LEMMA JobsKept == JobsInv /\ [Next]_vars => JobsInv'
  <1> SUFFICES ASSUME JobsInv, [Next]_vars PROVE JobsInv'
    OBVIOUS
  <1>1. CASE UNCHANGED vars
    <2>1. ResultsOK'
      BY <1>1, ResultsQuiet DEF vars, Exists
    <2> QED
      BY <1>1, <2>1, CallStep, SameUnder, KeyUntouched DEF vars, JobsInv, TypeOK
  <1>2. ASSUME NEW h \in Handlers, Arrive(h) PROVE JobsInv'
    BY <1>2, ArriveKeeps
  <1>3. ASSUME NEW c \in calls, Step(c) PROVE JobsInv'
    BY <1>3, StepKeeps
  <1>4. ASSUME NEW j \in Jobs, (\E r \in Runs : Process(r, j)) \/ \E w \in Workers : Claim(w, j)
        PROVE  JobsInv'
    BY <1>4, ProcessKeeps, ClaimKeeps
  <1> QED
    BY <1>1, <1>2, <1>3, <1>4 DEF Next

THEOREM JobsInductive == Spec => []JobsInv
  BY JobsInitInv, JobsKept, PTL DEF Spec

\* Every variable of the worker plane keeps its type.
THEOREM JobsTypeCorrect == Spec => []TypeOK
  BY JobsInductive, PTL DEF JobsInv

LEMMA OneByKey == JobsInv => OneOfAKey
  BY DEF JobsInv, KeyOK, OneOfAKey, UnderJobKey

\* enqueue_job and run_sample are idempotent under a key, but for two requests that meet
\* on it and for an enqueue that dies before its record.
THEOREM OneOfAKeyHolds == Spec => []OneOfAKey
  BY JobsInductive, OneByKey, PTL

LEMMA KeptByJob == JobsInv => AnsweredIsKept
  <1> SUFFICES ASSUME JobsInv PROVE AnsweredIsKept
    OBVIOUS
  <1>1. ASSUME NEW r \in answered
        PROVE  /\ jobs[heard[r].job].state = "complete" /\ jobs[heard[r].job].offset = FullOffset
               /\ heard[r].job \in crossed \/ IdsOf(r) \subseteq jobs[heard[r].job].ids
    BY DEF JobsInv, ResultsOK, AnsweredOK, Arrived
  <1>2. ASSUME NEW j \in Jobs, Exists(j)
        PROVE  /\ jobs[j].state = "complete" => \E r \in Own(j) : IdsOf(r) \subseteq jobs[j].ids
               /\ jobs[j].ids \subseteq UNION {IdsOf(r) : r \in Own(j)}
    BY <1>2 DEF JobsInv, JobOK, Whole
  <1> QED
    BY <1>1, <1>2 DEF AnsweredIsKept, Own

\* apply_result: what was answered has arrived and stays, unless two results of its job met;
\* a complete job carries a whole run, and no job a unit none of its runs has heard.
THEOREM AnsweredIsKeptHolds == Spec => []AnsweredIsKept
  BY JobsInductive, KeptByJob, PTL

Advances(j) ==
  /\ jobs[j].ids \subseteq jobs'[j].ids /\ jobs[j].offset <= jobs'[j].offset
  /\ jobs[j].by \in {None, jobs'[j].by}

LEMMA UnchangedAdvances ==
  ASSUME JobsInv, NEW j \in Jobs, Exists(j), jobs'[j] = jobs[j]
  PROVE  Advances(j)
  <1>1. jobs[j].offset \in Nat
    BY OffsetsAre DEF JobsInv, TypeOK, Exists, Job
  <1> QED
    BY <1>1 DEF Advances

LEMMA ProgressStep ==
  ASSUME JobsInv, Next, NEW j \in Jobs, Exists(j)
  PROVE  Advances(j) \/ \E c \in calls \ calls' : c.pc = "write" /\ c.ref = j /\ c.doc # jobs[j]
  <1>0. jobs \in [Jobs -> Job \cup {None}] /\ jobs[j] \in Job /\ jobs[j].offset \in Nat
    BY OffsetsAre DEF JobsInv, TypeOK, Exists, Job
  <1>1. ASSUME NEW c \in calls, Write(c), c.ref = j
        PROVE  Advances(j) \/ \E e \in calls \ calls' : e.pc = "write" /\ e.ref = j /\ e.doc # jobs[j]
    <2>1. c \notin calls' /\ c.pc = "write"
      BY <1>1 DEF Write, End
    <2>2. PICK new \in Job : /\ jobs' = [jobs EXCEPT ![j] = new] /\ new.by = jobs[j].by
                             /\ c.doc.ids \subseteq new.ids /\ c.doc.offset <= new.offset
      BY <1>1, WriteIs
    <2>3. jobs'[j] = new
      BY <1>0, <2>2
    <2>4. c.doc = jobs[j] => Advances(j)
      BY <2>2, <2>3 DEF Advances
    <2> QED
      BY <1>1, <2>1, <2>4
  <1>2. ASSUME NEW w \in Workers, Claim(w, j) PROVE Advances(j)
    <2>1. jobs[j].by = None
      BY <1>2 DEF Claim, Claimable, JobsInv, JobOK, Exists
    <2> DEFINE new == [jobs[j] EXCEPT !.state = "claimed", !.by = w]
    <2>2. jobs' = [jobs EXCEPT ![j] = new] /\ new.ids = jobs[j].ids /\ new.offset = jobs[j].offset
      BY <1>0, <1>2 DEF Claim, Job
    <2> HIDE DEF new
    <2>3. jobs'[j] = new
      BY <1>0, <2>2
    <2> QED
      BY <1>0, <2>1, <2>2, <2>3 DEF Advances
  <1>3. CASE jobs'[j] = jobs[j]
    BY <1>3, UnchangedAdvances
  <1>4. ASSUME NEW c \in calls, NEW i \in Jobs, InsertJob(c, i) PROVE jobs'[j] = jobs[j]
    BY <1>0, <1>4 DEF InsertJob, Exists
  <1>5. ASSUME NEW c \in calls, Write(c), c.ref # j PROVE jobs'[j] = jobs[j]
    BY <1>0, <1>5, CallIs DEF Write
  <1>6. ASSUME NEW i \in Jobs, NEW w \in Workers, Claim(w, i), i # j PROVE jobs'[j] = jobs[j]
    BY <1>0, <1>6 DEF Claim
  <1> QED
    BY <1>1, <1>2, <1>3, <1>4, <1>5, <1>6
       DEF Next, Arrive, Enqueue, Post, RunSample, Step, Lookup, Find, Record, Read, LookupSample,
           InsertSample, CompleteSample, Die, Process

\* A checkpoint never moves back, and a claim never changes hands, but under a result that
\* had read the job before its last change.
THEOREM ProgressKeptHolds == Spec => ProgressKept
  <1>1. JobsInv /\ [Next]_vars =>
          [\A j \in Jobs : Exists(j) =>
             \/ /\ jobs[j].ids \subseteq jobs'[j].ids /\ jobs[j].offset <= jobs'[j].offset
                /\ jobs[j].by \in {None, jobs'[j].by}
             \/ \E c \in calls \ calls' : c.pc = "write" /\ c.ref = j /\ c.doc # jobs[j]]_vars
    BY ProgressStep DEF Advances
  <1> QED
    BY <1>1, JobsInductive, PTL DEF Spec, ProgressKept
================================================================================
