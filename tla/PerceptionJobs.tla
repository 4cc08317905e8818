---------------------------- MODULE PerceptionJobs ----------------------------
(***************************************************************************)
(* The worker plane: extraction jobs are enqueued under an idempotency     *)
(* key, claimed by workers and advanced by the results they post; samples  *)
(* are run inline.  A step is one Mongo operation with the code up to the  *)
(* next one.                                                               *)
(*                                                                         *)
(* A worker hears a whole job in one run of process_job, which fails or    *)
(* gives one result: all the units of the run under fresh ids, a fixed     *)
(* offset, "complete".  What drives the workers is not in the repository:  *)
(* a job may be run again (after a death, say), and a result posted at any *)
(* time and any number of times (a post may be delayed, or retried after   *)
(* its answer was lost).  The endpoint would take "partial_failed" from a  *)
(* worker; no worker sends it.  No startup code creates the unique indexes *)
(* that the modules declare, so none is modelled.                          *)
(***************************************************************************)
EXTENDS Naturals, FiniteSets

CONSTANTS
  Jobs,      \* job ids, minted one per insert
  Samples,   \* sample refs, likewise
  Keys,      \* idempotency keys
  Workers,
  Runs,      \* runs of process_job: each mints the ids of its own units
  Units,     \* how many units a run yields at most
  Handlers,  \* requests served at once
  None

VARIABLES
  jobs,       \* perception_jobs documents
  idem,       \* perception_idempotency: the job recorded under a key
  samples,    \* extraction_samples documents
  heard,      \* the runs that gave a result: of which job, and how many units
  calls,      \* requests in progress
  answered,   \* history: runs whose result was answered 202
  disturbed,  \* history: keys two requests met on, or whose enqueue died half done
  crossed     \* history: jobs two results met on

vars == <<jobs, idem, samples, heard, calls, answered, disturbed, crossed>>

FullOffset == 3600
Offsets == {0, FullOffset}
UnitIds == Runs \X (1 .. Units)
Statuses == {"none", "partial_failed", "complete"}
Job == [key : Keys, state : {"queued", "claimed", "running", "complete"},
        by : Workers \cup {None}, offset : Offsets, ids : SUBSET UnitIds,
        status : Statuses]
Sample == [key : Keys \cup {None}, status : {"pending", "complete"}]

Heard == [job : Jobs, units : 0 .. Units]

ASSUME PerceptionAssumption ==
  /\ Units \in Nat \ {0}
  /\ None \notin Jobs \cup Samples \cup Keys \cup Workers \cup Runs \cup Job \cup Sample \cup Heard

Calls == [by : Handlers, op : {"enqueue", "result", "sample"},
          pc : {"lookup", "find", "insert", "record", "read", "write", "complete"},
          key : Keys \cup {None}, ref : Jobs \cup Samples \cup {None},
          doc : Job \cup {None}, run : Runs \cup {None}]

Free(h) == \A c \in calls : c.by # h
Start(h, op, pc, key, ref, run) ==
  /\ Free(h)
  /\ calls' = calls \cup {[by |-> h, op |-> op, pc |-> pc, key |-> key, ref |-> ref,
                           doc |-> None, run |-> run]}
Continue(c, d) == calls' = (calls \ {c}) \cup {d}
End(c) == calls' = calls \ {c}

Met(op, key) ==
  IF key # None /\ \E c \in calls : c.op = op /\ c.key = key THEN {key} ELSE {}

------------------------------------------------------------------------------
(* enqueue_job: look the key up, find the job, insert another, record it.  *)

Enqueue(h, key) ==
  /\ Start(h, "enqueue", "lookup", key, None, None)
  /\ disturbed' = disturbed \cup Met("enqueue", key)
  /\ UNCHANGED <<jobs, idem, samples, heard, answered, crossed>>

\* Mutant: no key is remembered.
Recalled_Nothing(key) == None

Recalled(key) == idem[key]

Lookup(c) ==
  /\ c.op = "enqueue" /\ c.pc = "lookup"
  /\ Continue(c, IF Recalled(c.key) = None THEN [c EXCEPT !.pc = "insert"]
                 ELSE [c EXCEPT !.pc = "find", !.ref = Recalled(c.key)])
  /\ UNCHANGED <<jobs, idem, samples, heard, answered, disturbed, crossed>>

\* A mapping without its job does not stop the mint.
Find(c) ==
  /\ c.pc = "find"
  /\ IF jobs[c.ref] # None THEN End(c) ELSE Continue(c, [c EXCEPT !.pc = "insert", !.ref = None])
  /\ UNCHANGED <<jobs, idem, samples, heard, answered, disturbed, crossed>>

Queued(key) == [key |-> key, state |-> "queued", by |-> None, offset |-> 0, ids |-> {},
                status |-> "none"]

InsertJob(c, j) ==
  /\ c.op = "enqueue" /\ c.pc = "insert" /\ jobs[j] = None
  /\ jobs' = [jobs EXCEPT ![j] = Queued(c.key)]
  /\ Continue(c, [c EXCEPT !.pc = "record", !.ref = j])
  /\ UNCHANGED <<idem, samples, heard, answered, disturbed, crossed>>

\* $setOnInsert under upsert: the first job recorded keeps the key.
Recorded(key, j) == IF idem[key] = None THEN j ELSE idem[key]

Record(c) ==
  /\ c.pc = "record" /\ End(c)
  /\ idem' = [idem EXCEPT ![c.key] = Recorded(c.key, c.ref)]
  /\ UNCHANGED <<jobs, samples, heard, answered, disturbed, crossed>>

------------------------------------------------------------------------------
(* claim_next and apply_result.                                            *)

\* Mutant: the update does not ask for a queued job.
Claimable_Any(j) == jobs[j] # None

Claimable(j) == jobs[j] # None /\ jobs[j].state = "queued"

\* One find_one_and_update.
Claim(w, j) ==
  /\ Claimable(j)
  /\ jobs' = [jobs EXCEPT ![j].state = "claimed", ![j].by = w]
  /\ UNCHANGED <<idem, samples, heard, calls, answered, disturbed, crossed>>

\* process_job of a worker: of the job it has claimed, or of one it was handed as it was
\* enqueued.  The stub yields no unit.
Process(r, j) ==
  /\ heard[r] = None /\ jobs[j] # None
  /\ \E n \in 0 .. Units : heard' = [heard EXCEPT ![r] = [job |-> j, units |-> n]]
  /\ UNCHANGED <<jobs, idem, samples, calls, answered, disturbed, crossed>>

IdsOf(r) == {r} \X (1 .. heard[r].units)
ResultOf(r) == [offset |-> FullOffset, ids |-> IdsOf(r), status |-> "complete"]

\* The router's existence check comes first and changes nothing.
Post(h, r) ==
  /\ heard[r] # None
  /\ Start(h, "result", "read", None, heard[r].job, r)
  /\ crossed' = crossed \cup {c.ref : c \in {d \in calls : d.op = "result" /\ d.ref = heard[r].job}}
  /\ UNCHANGED <<jobs, idem, samples, heard, answered, disturbed>>

\* Mutant: as the docstring has it, "idempotent on offset + status".
Replayed_AsDocumented(doc, result) == doc.offset = result.offset /\ doc.status = result.status

Replayed(doc, result) ==
  doc.offset = result.offset /\ doc.ids = result.ids /\ doc.status = result.status

Read(c) ==
  /\ c.pc = "read"
  /\ IF Replayed(jobs[c.ref], ResultOf(c.run))
     THEN End(c) /\ answered' = answered \cup {c.run}
     ELSE Continue(c, [c EXCEPT !.pc = "write", !.doc = jobs[c.ref]]) /\ UNCHANGED answered
  /\ UNCHANGED <<jobs, idem, samples, heard, disturbed, crossed>>

Later(a, b) == IF a >= b THEN a ELSE b

\* What was read, merged with the result; claimed_by is left alone.
Applied(job, doc, result) ==
  [job EXCEPT !.state = IF result.status = "complete" THEN "complete" ELSE "running",
              !.offset = Later(doc.offset, result.offset),
              !.ids = doc.ids \cup result.ids, !.status = result.status]

Write(c) ==
  /\ c.pc = "write" /\ End(c)
  /\ jobs' = [jobs EXCEPT ![c.ref] = Applied(@, c.doc, ResultOf(c.run))]
  /\ answered' = answered \cup {c.run}
  /\ UNCHANGED <<idem, samples, heard, disturbed, crossed>>

------------------------------------------------------------------------------
(* run_sample, completed in the same request by the stub.                  *)

RunSample(h, key) ==
  /\ Start(h, "sample", IF key = None THEN "insert" ELSE "lookup", key, None, None)
  /\ disturbed' = disturbed \cup Met("sample", key)
  /\ UNCHANGED <<jobs, idem, samples, heard, answered, crossed>>

UnderKey(key) == {s \in Samples : samples[s] # None /\ samples[s].key = key}

LookupSample(c) ==
  /\ c.op = "sample" /\ c.pc = "lookup"
  /\ \/ UnderKey(c.key) = {} /\ Continue(c, [c EXCEPT !.pc = "insert"])
     \/ \E s \in UnderKey(c.key) : Continue(c, [c EXCEPT !.pc = "complete", !.ref = s])
  /\ UNCHANGED <<jobs, idem, samples, heard, answered, disturbed, crossed>>

InsertSample(c, s) ==
  /\ c.op = "sample" /\ c.pc = "insert" /\ samples[s] = None
  /\ samples' = [samples EXCEPT ![s] = [key |-> c.key, status |-> "pending"]]
  /\ Continue(c, [c EXCEPT !.pc = "complete", !.ref = s])
  /\ UNCHANGED <<jobs, idem, heard, answered, disturbed, crossed>>

CompleteSample(c) ==
  /\ c.pc = "complete" /\ End(c)
  /\ samples' = [samples EXCEPT ![c.ref].status = "complete"]
  /\ UNCHANGED <<jobs, idem, heard, answered, disturbed, crossed>>

\* The process dies, or Mongo fails the request.
Die(c) ==
  /\ End(c)
  /\ disturbed' = disturbed \cup (IF c.pc = "record" THEN {c.key} ELSE {})
  /\ UNCHANGED <<jobs, idem, samples, heard, answered, crossed>>

Init ==
  /\ jobs = [j \in Jobs |-> None] /\ idem = [k \in Keys |-> None]
  /\ samples = [s \in Samples |-> None] /\ heard = [r \in Runs |-> None]
  /\ calls = {} /\ answered = {} /\ disturbed = {} /\ crossed = {}

Arrive(h) ==
  \/ \E k \in Keys : Enqueue(h, k)
  \/ \E r \in Runs : Post(h, r)
  \/ \E k \in Keys \cup {None} : RunSample(h, k)

Step(c) ==
  \/ Lookup(c) \/ Find(c) \/ (\E j \in Jobs : InsertJob(c, j)) \/ Record(c)
  \/ Read(c) \/ Write(c)
  \/ LookupSample(c) \/ (\E s \in Samples : InsertSample(c, s)) \/ CompleteSample(c)
  \/ Die(c)

Next ==
  \/ \E h \in Handlers : Arrive(h)
  \/ \E c \in calls : Step(c)
  \/ \E j \in Jobs : (\E r \in Runs : Process(r, j)) \/ \E w \in Workers : Claim(w, j)

Spec == Init /\ [][Next]_vars

------------------------------------------------------------------------------
(* Properties.                                                             *)

TypeOK ==
  /\ jobs \in [Jobs -> Job \cup {None}] /\ idem \in [Keys -> Jobs \cup {None}]
  /\ samples \in [Samples -> Sample \cup {None}]
  /\ heard \in [Runs -> Heard \cup {None}]
  /\ calls \subseteq Calls /\ answered \subseteq Runs /\ disturbed \subseteq Keys /\ crossed \subseteq Jobs

Exists(j) == jobs[j] # None

\* A retried dispatch finds its job, and a retried sample its sample: a key has more
\* than one only when two requests met on it, or an enqueue died before its record.
OneOfAKey ==
  \A k \in Keys \ disturbed :
    /\ \A i, j \in Jobs : Exists(i) /\ Exists(j) /\ jobs[i].key = k /\ jobs[j].key = k => i = j
    /\ \A s, t \in UnderKey(k) : s = t

\* What was answered 202 has arrived: its job is complete for good, at the full offset, and
\* carries every unit of the run, unless two results of the job met.  Even then a complete
\* job carries a whole run, and never a unit that no run of its own has heard.
AnsweredIsKept ==
  /\ \A r \in answered :
       LET j == heard[r].job IN
       /\ jobs[j].state = "complete" /\ jobs[j].offset = FullOffset
       /\ j \in crossed \/ IdsOf(r) \subseteq jobs[j].ids
  /\ \A j \in Jobs : Exists(j) =>
       LET own == {r \in Runs : heard[r] # None /\ heard[r].job = j} IN
       /\ jobs[j].state = "complete" => \E r \in own : IdsOf(r) \subseteq jobs[j].ids
       /\ jobs[j].ids \subseteq UNION {IdsOf(r) : r \in own}

\* A checkpoint moves back, or a claim or a key changes hands, only under a result
\* that had read the job before its last change.
ProgressKept ==
  [][\A j \in Jobs : Exists(j) =>
       \/ /\ jobs[j].ids \subseteq jobs'[j].ids /\ jobs[j].offset <= jobs'[j].offset
          /\ jobs[j].by \in {None, jobs'[j].by}
       \/ \E c \in calls \ calls' : c.pc = "write" /\ c.ref = j /\ c.doc # jobs[j]]_vars
=============================================================================
