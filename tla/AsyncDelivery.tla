---------------------------- MODULE AsyncDelivery ----------------------------
(***************************************************************************)
(* Asynchronous objective delivery: two admission doors that insert an     *)
(* accepted document in Mongo, a bounded in-process asyncio queue, the     *)
(* worker pool that packages and settles objectives, the cancel handler,   *)
(* the doorbell webhook, and the boot-time recovery sweep.                 *)
(*                                                                         *)
(* Mongo documents and ledger rows survive a restart; the queue, the       *)
(* workers and the HTTP handlers do not.  An action is what runs between   *)
(* two awaits: at most one Mongo operation, plus the in-process code up to *)
(* the next one.                                                           *)
(*                                                                         *)
(* Every POST that reaches new_id("obj") names a fresh objective, so an    *)
(* objective is identified with the POST handler that allocated it.        *)
(***************************************************************************)
EXTENDS Naturals, Sequences, FiniteSets

CONSTANTS
  Posts,       \* POST handlers; also the identities of the objectives they allocate
  Cancels,     \* POST /objectives/{id}/cancel handlers
  Workers,     \* the tasks start_workers spawns
  Keys,        \* idempotency keys clients send; may contain NoKey
  NoKey,       \* the request carries no idempotency key
  Bodies,      \* request bodies, as told apart by canonical_request_hash
  FormOf,      \* the output form each body asks for
  Doors,       \* the admission doors in use
  Registered,  \* TRUE when the callers' apps have registered a webhook
  LlmKey,      \* FALSE when the deployment may lack its Emergent LLM key
  QueueMax,    \* AKKI_ASYNC_QUEUE_MAX
  MaxCrashes,  \* bound: how often the process dies
  None         \* no objective

ASSUME ConstantsAssumption ==
  /\ None \notin Posts \cup Bodies
  /\ QueueMax \in Nat \ {0}
  /\ MaxCrashes \in Nat
  /\ LlmKey \in BOOLEAN /\ Registered \in BOOLEAN
  /\ FormOf \in [Bodies -> {"composed_conclusion", "qualified_data"}]
  /\ Doors \subseteq {"objectives", "dispatch"}

VARIABLES
  server,      \* "down", "sweeping" (startup hook running) or "up"
  crashes,     \* how often the process has died
  status,      \* Mongo: status of each objective's document, "absent" if there is none
  undelivered, \* Mongo: the document's webhook_undelivered flag
  ledger,      \* Mongo: number of ledger rows of each kind on the objective's trace
  queue,       \* in process: the asyncio queue
  worker,      \* in process: one record per worker task
  post,        \* in process: one record per POST handler
  cancel,      \* in process: one record per cancel handler
  todo,        \* in process: candidates the recovery sweep has not handled
  left,        \* objectives this process has logged and given up on until the next boot
  doorbells    \* outside: statuses announced to the caller by webhook

mongo == <<status, undelivered, ledger>>
process == <<queue, worker, post, cancel, todo, left>>
vars == <<server, crashes, status, undelivered, ledger, queue, worker, post,
          cancel, todo, left, doorbells>>

-----------------------------------------------------------------------------
Terminal == {"delivered", "refused", "cancelled"}
Live == {"accepted", "running"}
Statuses == {"absent"} \cup Live \cup Terminal

\* Rows on an objective's trace: the quote events, one row per packaging
\* result that is ledgered, and the cancellation.
RefusalRows == {"floor", "license", "standard"}
Rows == RefusalRows \cup
        {"minted", "composed", "cancelled", "quote_accepted", "quote_rejected"}

\* What packaging an objective of a form can come to, on what the Registry
\* holds at that moment.
Results(form) ==
  IF form = "composed_conclusion"
    THEN {"composed", "floor", "license"}
    ELSE {"payload", "standard", "license"}

AllResults == RefusalRows \cup {"composed", "payload"}

SettledAs(result) == IF result = "composed" THEN "delivered" ELSE "refused"

Idle == [pc |-> "idle", obj |-> None, result |-> "none"]

\* The worker call stack after a claim has succeeded.
Packaging == {"package", "synth", "check", "emit", "settle"}
WorkerSteps == {"idle", "claim", "webhook", "quote"} \cup Packaging
PostSteps == {"new", "lookup", "quote", "insert", "recheck", "enqueue",
              "rollback", "done", "dead"}
Answers == {"none", "accepted", "key_missing", "key_reused", "quote_refused",
            "saturated", "error"}
CancelSteps == {"new", "try_running", "try_accepted", "refetch", "emit",
                "webhook", "done", "dead"}

Documents == {p \in Posts : status[p] # "absent"}

\* Mutant: no unique index on idempotency_key and no lookup by it.
DocumentsWith_None(key) == {}

\* What the unique index on idempotency_key, and a lookup by it, see.
DocumentsWith(key) == {p \in Documents : post[p].key = key}

Log(p, row) == ledger' = [ledger EXCEPT ![p][row] = @ + 1]
SetStatus(p, s) == status' = [status EXCEPT ![p] = s]

\* put_nowait
Put(p) == queue' = Append(queue, p)
HasRoom == Len(queue) < QueueMax

\* Objective ids that some client has read in a 202 body.
Announced == {post[p].obj : p \in {q \in Posts : post[q].answer = "accepted"}}

-----------------------------------------------------------------------------
(* Admission: POST /objectives and the fresh fork of the v2 dispatch.      *)

Goto(p, pc) == post' = [post EXCEPT ![p].pc = pc]

\* The handler answers; obj is the objective named in a 202 body.
Answer(p, answer, obj) ==
  post' = [post EXCEPT ![p] = [@ EXCEPT !.pc = "done", !.answer = answer, !.obj = obj]]

\* A request reaches a door.  A keyless external_request is refused on the
\* spot; a keyless work_order, which only POST /objectives takes, skips the
\* lookup.
Arrive(p) ==
  /\ server = "up" /\ post[p].pc = "new"
  /\ \E door \in Doors, key \in Keys, body \in Bodies :
       LET request == [door |-> door, key |-> key, body |-> body, obj |-> None,
                       pc |-> "lookup", answer |-> "none"] IN
       \/ /\ key # NoKey
          /\ post' = [post EXCEPT ![p] = request]
       \/ /\ key = NoKey
          /\ post' = [post EXCEPT ![p] =
                        [request EXCEPT !.pc = "done", !.answer = "key_missing"]]
       \/ /\ key = NoKey /\ door = "objectives"
          /\ post' = [post EXCEPT ![p] = [request EXCEPT !.pc = "quote"]]
  /\ UNCHANGED <<server, crashes, mongo, queue, worker, cancel, todo, left, doorbells>>

\* Mutant: a known key is replayed whatever the body.
AnswerFrom_AnyBody(p, q) == Answer(p, "accepted", q)

\* Replay when a document already carries this key and this body, refusal
\* when it carries another body.
AnswerFrom(p, q) ==
  IF post[q].body = post[p].body THEN Answer(p, "accepted", q)
                                 ELSE Answer(p, "key_reused", None)

\* find_by_idempotency_key, ahead of the quote.
Lookup(p) ==
  /\ post[p].pc = "lookup"
  /\ \/ \E q \in DocumentsWith(post[p].key) : AnswerFrom(p, q)
     \/ DocumentsWith(post[p].key) = {} /\ Goto(p, "quote")
  /\ UNCHANGED <<server, crashes, mongo, queue, worker, cancel, todo, left, doorbells>>

\* issue_quote: a governed refusal, or a quote whose minted event is ledgered
\* before the document exists.
Quote(p) ==
  /\ post[p].pc = "quote"
  /\ \/ Answer(p, "quote_refused", None) /\ UNCHANGED ledger
     \/ Goto(p, "insert") /\ Log(p, "minted")
  /\ UNCHANGED <<server, crashes, status, undelivered, queue, worker, cancel, todo,
                 left, doorbells>>

\* insert_one under the unique index on idempotency_key.  A missing key is
\* stored as an explicit null, which the sparse index covers.  Only the
\* /objectives door catches DuplicateKeyError.
Insert(p) ==
  /\ post[p].pc = "insert"
  /\ \/ /\ DocumentsWith(post[p].key) = {}
        /\ SetStatus(p, "accepted")
        /\ Goto(p, "enqueue")
     \/ /\ DocumentsWith(post[p].key) # {}
        /\ IF post[p].door = "objectives" THEN Goto(p, "recheck")
                                          ELSE Answer(p, "error", None)
        /\ UNCHANGED status
  /\ UNCHANGED <<server, crashes, undelivered, ledger, queue, worker, cancel, todo,
                 left, doorbells>>

\* After DuplicateKeyError: look the key up again ("" finds nothing).
Recheck(p) ==
  LET found == IF post[p].key = NoKey THEN {} ELSE DocumentsWith(post[p].key) IN
  /\ post[p].pc = "recheck"
  /\ \/ \E q \in found : AnswerFrom(p, q)
     \/ found = {} /\ Answer(p, "key_reused", None)
  /\ UNCHANGED <<server, crashes, mongo, queue, worker, cancel, todo, left, doorbells>>

\* enqueue_objective.  On a full queue /objectives goes on to delete the
\* document; the dispatch door answers 503 and leaves it behind.
Enqueue(p) ==
  /\ post[p].pc = "enqueue"
  /\ \/ /\ HasRoom
        /\ Put(p)
        /\ Answer(p, "accepted", p)
        /\ UNCHANGED left
     \/ /\ ~HasRoom /\ post[p].door = "objectives"
        /\ Goto(p, "rollback")
        /\ UNCHANGED <<queue, left>>
     \/ /\ ~HasRoom /\ post[p].door = "dispatch"
        /\ Answer(p, "saturated", None)
        /\ left' = left \cup {p}
        /\ UNCHANGED queue
  /\ UNCHANGED <<server, crashes, mongo, worker, cancel, todo, doorbells>>

\* Mutant: the 503 goes out and the accepted document stays.
Rollback_Forgotten(p) ==
  /\ post[p].pc = "rollback"
  /\ Answer(p, "saturated", None)
  /\ UNCHANGED <<server, crashes, mongo, queue, worker, cancel, todo, left, doorbells>>

\* rollback_saturated_queue_admit: an unconditional delete_one, then 503.
Rollback(p) ==
  /\ post[p].pc = "rollback"
  /\ SetStatus(p, "absent")
  /\ undelivered' = [undelivered EXCEPT ![p] = FALSE]
  /\ Answer(p, "saturated", None)
  /\ UNCHANGED <<server, crashes, ledger, queue, worker, cancel, todo, left, doorbells>>

PostStep(p) ==
  Lookup(p) \/ Quote(p) \/ Insert(p) \/ Recheck(p) \/ Enqueue(p) \/ Rollback(p)

-----------------------------------------------------------------------------
(* The worker pool: worker_loop, _process_one and package_*.               *)

Become(w, pc, result) ==
  worker' = [worker EXCEPT ![w] = [pc |-> pc, obj |-> worker[w].obj, result |-> result]]

Rest(w) == worker' = [worker EXCEPT ![w] = Idle]

Take(w) ==
  /\ server = "up" /\ worker[w].pc = "idle" /\ queue # << >>
  /\ queue' = Tail(queue)
  /\ worker' = [worker EXCEPT ![w] = [pc |-> "claim", obj |-> Head(queue), result |-> "none"]]
  /\ UNCHANGED <<server, crashes, mongo, post, cancel, todo, left, doorbells>>

\* Mutant: the claim loses the status condition of its filter.
Claimable_AnyStatus(p) == status[p] # "absent"

\* The filter of atomic_claim_accepted_to_running.
Claimable(p) == status[p] = "accepted"

Claim(w) ==
  LET p == worker[w].obj IN
  /\ worker[w].pc = "claim"
  /\ \/ Claimable(p) /\ SetStatus(p, "running") /\ Become(w, "package", "none")
     \/ ~Claimable(p) /\ UNCHANGED status /\ Rest(w)
  /\ UNCHANGED <<server, crashes, undelivered, ledger, queue, post, cancel, todo, left,
                 doorbells>>

\* package_composed_conclusion and package_qualified_data.  A conclusion and a
\* below-floor refusal are ledgered here, each time packaging runs.  A
\* QualifiedDataPayload matches no branch of _process_one, which returns with
\* the objective still running.
Package(w) ==
  LET p == worker[w].obj IN
  /\ worker[w].pc = "package"
  /\ \E result \in Results(FormOf[post[p].body]) :
       \/ /\ result = "composed"
          /\ Log(p, "composed") /\ Become(w, "synth", result) /\ UNCHANGED left
       \/ /\ result = "floor"
          /\ Log(p, "floor") /\ Become(w, "check", result) /\ UNCHANGED left
       \/ /\ result \in {"license", "standard"}
          /\ UNCHANGED <<ledger, left>> /\ Become(w, "check", result)
       \/ /\ result = "payload"
          /\ UNCHANGED ledger /\ Rest(w) /\ left' = left \cup {p}
  /\ UNCHANGED <<server, crashes, status, undelivered, queue, post, cancel, todo, doorbells>>

\* Answer text: every LLM transient falls back to the mechanical composer; a
\* missing key raises, and worker_loop logs it and moves on.
Synthesise(w) ==
  /\ worker[w].pc = "synth"
  /\ \/ Become(w, "settle", worker[w].result) /\ UNCHANGED left
     \/ ~LlmKey /\ Rest(w) /\ left' = left \cup {worker[w].obj}
  /\ UNCHANGED <<server, crashes, mongo, queue, post, cancel, todo, doorbells>>

\* Mutant: emission is not guarded by the row-exists check.
RefusalRowExists_Never(p, result) == FALSE

\* Mutant: the check always answers that the row is there.
RefusalRowExists_Always(p, result) == TRUE

\* _refusal_row_exists_for_objective: is this reason already on the trace?
RefusalRowExists(p, result) == status[p] # "absent" /\ ledger[p][result] > 0

CheckRefusal(w) ==
  LET result == worker[w].result IN
  /\ worker[w].pc = "check"
  /\ Become(w, IF RefusalRowExists(worker[w].obj, result) THEN "settle" ELSE "emit", result)
  /\ UNCHANGED <<server, crashes, mongo, queue, post, cancel, todo, left, doorbells>>

\* emit_refusal_ledger_row
EmitRefusal(w) ==
  /\ worker[w].pc = "emit"
  /\ Log(worker[w].obj, worker[w].result)
  /\ Become(w, "settle", worker[w].result)
  /\ UNCHANGED <<server, crashes, status, undelivered, queue, post, cancel, todo, left,
                 doorbells>>

\* Mutant: the terminal write matches on objective_id alone.
Settleable_AnyStatus(p) == status[p] # "absent"

\* The filter of _atomic_terminal_transition for a worker.
Settleable(p) == status[p] = "running"

\* transition_to_delivered / transition_to_refused.  The worker does not look
\* at what they return.
Settle(w) ==
  LET p == worker[w].obj IN
  /\ worker[w].pc = "settle"
  /\ IF Settleable(p) THEN SetStatus(p, SettledAs(worker[w].result))
                      ELSE UNCHANGED status
  /\ Become(w, "webhook", worker[w].result)
  /\ UNCHANGED <<server, crashes, undelivered, ledger, queue, post, cancel, todo, left,
                 doorbells>>

\* fire_webhook: nothing registered, the caller is told, or five attempts have
\* failed and the document, if there is one, is marked.
FireWebhook(p, announced) ==
  \/ ~Registered /\ UNCHANGED <<doorbells, undelivered>>
  \/ /\ Registered
     /\ doorbells' = [doorbells EXCEPT ![p] = @ \cup {announced}]
     /\ UNCHANGED undelivered
  \/ /\ Registered
     /\ undelivered' = [undelivered EXCEPT ![p] = status[p] # "absent"]
     /\ UNCHANGED doorbells

WorkerWebhook(w) ==
  LET result == worker[w].result IN
  /\ worker[w].pc = "webhook"
  /\ FireWebhook(worker[w].obj, SettledAs(result))
  /\ IF result = "floor" THEN Rest(w) ELSE Become(w, "quote", result)
  /\ UNCHANGED <<server, crashes, status, ledger, queue, post, cancel, todo, left>>

\* _record_quote_delivered_if_present
RecordQuote(w) ==
  /\ worker[w].pc = "quote"
  /\ Log(worker[w].obj,
         IF worker[w].result = "composed" THEN "quote_accepted" ELSE "quote_rejected")
  /\ Rest(w)
  /\ UNCHANGED <<server, crashes, status, undelivered, queue, post, cancel, todo, left,
                 doorbells>>

WorkerStep(w) ==
  \/ Claim(w) \/ Package(w) \/ Synthesise(w) \/ CheckRefusal(w) \/ EmitRefusal(w)
  \/ Settle(w) \/ WorkerWebhook(w) \/ RecordQuote(w)

-----------------------------------------------------------------------------
(* cancel_objective.  answer is what the caller reads: the status inside   *)
(* the envelope, or "not_found" when the handler returns None.             *)

CancelGoto(c, pc) == cancel' = [cancel EXCEPT ![c].pc = pc]

CancelAnswer(c, answer) ==
  cancel' = [cancel EXCEPT ![c] = [@ EXCEPT !.pc = "done", !.answer = answer]]

\* Mutant: the handler returns the document, whatever its status.
Envelope_AnyStatus(p) == status[p]

\* The envelope of a live or deleted objective is None.
Envelope(p) == IF status[p] \in Terminal THEN status[p] ELSE "not_found"

\* find_by_objective_id, on an id the caller has been given.
CancelRead(c) ==
  /\ server = "up" /\ cancel[c].pc = "new"
  /\ \E p \in Announced :
       cancel' = [cancel EXCEPT ![c] =
                    IF status[p] \in Live
                      THEN [pc |-> "try_running", obj |-> p, answer |-> "none"]
                      ELSE [pc |-> "done", obj |-> p, answer |-> Envelope(p)]]
  /\ UNCHANGED <<server, crashes, mongo, queue, worker, post, todo, left, doorbells>>

\* Mutant: a lost transition is ledgered like a won one.
CancelTry_LedgerAnyway(c, pc, from, next) ==
  /\ cancel[c].pc = pc
  /\ UNCHANGED status
  /\ CancelGoto(c, "emit")
  /\ UNCHANGED <<server, crashes, undelivered, ledger, queue, worker, post, todo, left,
                 doorbells>>

\* transition_to_cancelled: two conditional updates, one after the other.
CancelTry(c, pc, from, next) ==
  LET p == cancel[c].obj IN
  /\ cancel[c].pc = pc
  /\ \/ status[p] = from /\ SetStatus(p, "cancelled") /\ CancelGoto(c, "emit")
     \/ status[p] # from /\ UNCHANGED status /\ CancelGoto(c, next)
  /\ UNCHANGED <<server, crashes, undelivered, ledger, queue, worker, post, todo, left,
                 doorbells>>

CancelRunning(c) == CancelTry(c, "try_running", "running", "try_accepted")
CancelAccepted(c) == CancelTry(c, "try_accepted", "accepted", "refetch")

CancelRefetch(c) ==
  /\ cancel[c].pc = "refetch"
  /\ CancelAnswer(c, Envelope(cancel[c].obj))
  /\ UNCHANGED <<server, crashes, mongo, queue, worker, post, todo, left, doorbells>>

\* emit_ledger_terminate_cancelled: after the transition, under a fresh run_id.
CancelEmit(c) ==
  /\ cancel[c].pc = "emit"
  /\ Log(cancel[c].obj, "cancelled")
  /\ CancelGoto(c, "webhook")
  /\ UNCHANGED <<server, crashes, status, undelivered, queue, worker, post, todo, left,
                 doorbells>>

CancelWebhook(c) ==
  /\ cancel[c].pc = "webhook"
  /\ FireWebhook(cancel[c].obj, "cancelled")
  /\ CancelAnswer(c, "cancelled")
  /\ UNCHANGED <<server, crashes, status, ledger, queue, worker, post, todo, left>>

CancelStep(c) ==
  \/ CancelRunning(c) \/ CancelAccepted(c) \/ CancelRefetch(c) \/ CancelEmit(c)
  \/ CancelWebhook(c)

-----------------------------------------------------------------------------
(* The process: death at any moment, and the startup hook.                 *)

\* Everything that lives in the process is gone, a graceful shutdown included:
\* stop_workers cancels the tasks wherever they are.
Crash ==
  /\ server # "down" /\ crashes < MaxCrashes
  /\ server' = "down" /\ crashes' = crashes + 1
  /\ queue' = << >>
  /\ worker' = [w \in Workers |-> Idle]
  /\ post' = [p \in Posts |-> IF post[p].pc \in {"new", "done"} THEN post[p]
                              ELSE [post[p] EXCEPT !.pc = "dead"]]
  /\ cancel' = [c \in Cancels |-> IF cancel[c].pc \in {"new", "done"} THEN cancel[c]
                                  ELSE [cancel[c] EXCEPT !.pc = "dead"]]
  /\ todo' = {} /\ left' = {}
  /\ UNCHANGED <<mongo, doorbells>>

\* Mutant: the recovery query forgets the running objectives.
RecoveryCandidates_AcceptedOnly == {p \in Posts : status[p] = "accepted"}

\* find_recovery_candidates
RecoveryCandidates == {p \in Posts : status[p] \in Live}

\* Mutant: the sweep is run again in a process that is already serving.
BootFrom_AnyTime == server # "sweeping"

\* recovery_sweep runs from the startup hook only.
BootFrom == server = "down"

Boot ==
  /\ BootFrom
  /\ server' = "sweeping"
  /\ todo' = RecoveryCandidates
  /\ UNCHANGED <<crashes, mongo, queue, worker, post, cancel, left, doorbells>>

\* One candidate of recovery_sweep.  Nothing else runs until the startup hook
\* ends, so the reset and the enqueue are one step; the enqueue_time order of
\* the candidates is left open.
Sweep(p) ==
  /\ server = "sweeping" /\ p \in todo
  /\ SetStatus(p, "accepted")
  /\ IF HasRoom THEN Put(p) /\ UNCHANGED left
                ELSE left' = left \cup {p} /\ UNCHANGED queue
  /\ todo' = todo \ {p}
  /\ UNCHANGED <<server, crashes, undelivered, ledger, worker, post, cancel, doorbells>>

\* start_workers, and the server begins to accept requests.
Serve ==
  /\ server = "sweeping" /\ todo = {}
  /\ server' = "up"
  /\ UNCHANGED <<crashes, mongo, process, doorbells>>

Startup == Boot \/ Serve \/ \E p \in Posts : Sweep(p)

-----------------------------------------------------------------------------
Init ==
  /\ server = "down" /\ crashes = 0
  /\ status = [p \in Posts |-> "absent"]
  /\ undelivered = [p \in Posts |-> FALSE]
  /\ ledger = [p \in Posts |-> [row \in Rows |-> 0]]
  /\ queue = << >>
  /\ worker = [w \in Workers |-> Idle]
  /\ post = [p \in Posts |-> [pc |-> "new", door |-> "objectives", key |-> NoKey,
                              body |-> None, obj |-> None, answer |-> "none"]]
  /\ cancel = [c \in Cancels |-> [pc |-> "new", obj |-> None, answer |-> "none"]]
  /\ todo = {} /\ left = {}
  /\ doorbells = [p \in Posts |-> {}]

Next ==
  \/ \E p \in Posts : Arrive(p) \/ PostStep(p)
  \/ \E w \in Workers : Take(w) \/ WorkerStep(w)
  \/ \E c \in Cancels : CancelRead(c) \/ CancelStep(c)
  \/ Startup
  \/ Crash

Spec == Init /\ [][Next]_vars

\* The event loop runs every task that is ready, Mongo answers, and whatever
\* supervises the process restarts it.  Clients owe nothing, and neither does
\* the process owe a crash.
Fairness ==
  /\ WF_vars(Startup)
  /\ \A p \in Posts : WF_vars(PostStep(p))
  /\ \A w \in Workers : WF_vars(Take(w)) /\ WF_vars(WorkerStep(w))
  /\ \A c \in Cancels : WF_vars(CancelStep(c))

FairSpec == Spec /\ Fairness

-----------------------------------------------------------------------------
(* What holds.                                                             *)

WorkerRecords == [pc : WorkerSteps, obj : Posts \cup {None},
                  result : AllResults \cup {"none"}]
PostRecords == [pc : PostSteps, door : {"objectives", "dispatch"}, key : Keys \cup {NoKey},
                body : Bodies \cup {None}, obj : Posts \cup {None}, answer : Answers]
CancelRecords == [pc : CancelSteps, obj : Posts \cup {None},
                  answer : Terminal \cup {"none", "not_found"}]

\* Type correctness of every variable of the delivery substrate.
TypeOK ==
  /\ server \in {"down", "sweeping", "up"}
  /\ crashes \in Nat
  /\ status \in [Posts -> Statuses]
  /\ undelivered \in [Posts -> BOOLEAN]
  /\ ledger \in [Posts -> [Rows -> Nat]]
  /\ queue \in Seq(Posts)
  /\ worker \in [Workers -> WorkerRecords]
  /\ post \in [Posts -> PostRecords]
  /\ cancel \in [Cancels -> CancelRecords]
  /\ todo \in SUBSET Posts
  /\ left \in SUBSET Posts
  /\ doorbells \in [Posts -> SUBSET Terminal]

\* A terminal status is never overwritten, whichever of worker, cancel handler,
\* recovery sweep and restarted worker comes last; only the saturation rollback
\* may still delete the document.
TerminalIsFinal ==
  [][\A p \in Posts : status[p] \in Terminal =>
       \/ status'[p] = status[p]
       \/ status'[p] = "absent" /\ post[p].pc = "rollback"]_vars

\* No two workers ever hold the same objective, across claims, abandoned
\* attempts and recovery: terminal writes need no generation check because of it.
OneAttempt ==
  \A v, w \in Workers :
    v # w /\ worker[v].pc # "idle" /\ worker[w].pc # "idle" => worker[v].obj # worker[w].obj

\* Write-ahead: a settled objective has the ledger row of its outcome, also
\* when the attempt that wrote the row died before the transition.
OutcomeOnRecord ==
  \A p \in Posts :
    /\ status[p] = "delivered" => ledger[p]["composed"] > 0
    /\ status[p] = "refused" => \E row \in RefusalRows : ledger[p][row] > 0

\* The worker's own refusal rows are emitted once per objective and reason,
\* however often a crash between emission and transition repeats the attempt.
AdmissionRefusalOnce ==
  \A p \in Posts : ledger[p]["license"] <= 1 /\ ledger[p]["standard"] <= 1

\* A terminate_cancelled row is written at most once on a trace, and only for
\* a cancel that won.
CancelRowTruthful ==
  \A p \in Posts :
    /\ ledger[p]["cancelled"] <= 1
    /\ ledger[p]["cancelled"] = 1 => status[p] \in {"cancelled", "absent"}

InHand(p, pcs) == \E w \in Workers : worker[w].obj = p /\ worker[w].pc \in pcs
Queued(p) == \E i \in DOMAIN queue : queue[i] = p

\* While the server is up every live objective is on its way: queued, about to
\* be queued, in a worker's hands, or one the process has logged as left behind.
NothingStranded ==
  server = "up" =>
    \A p \in Posts :
      /\ status[p] = "accepted" =>
           \/ Queued(p) \/ InHand(p, {"claim"}) \/ p \in left
           \/ post[p].pc \in {"enqueue", "rollback"}
      /\ status[p] = "running" => InHand(p, Packaging) \/ p \in left

\* A 503 from POST /objectives means that nothing was and nothing will be packaged
\* for the request, in this process or after a restart.
SaturatedNeverRuns ==
  \A p \in Posts :
    post[p].answer = "saturated" /\ post[p].door = "objectives" =>
      \A row \in Rows \ {"minted", "cancelled"} : ledger[p][row] = 0

\* 202 answers under one idempotency key name one objective, admitted with the
\* body of every request so answered, unless the saturation rollback has deleted
\* what one of them names: a replay may see a document before it is rolled back,
\* and the key is then free for another.
ReplaysAgree ==
  \A p, q \in Posts :
    /\ post[p].answer = "accepted" /\ post[q].answer = "accepted"
    /\ post[p].key = post[q].key /\ post[p].key # NoKey
    /\ {post[p].obj, post[q].obj} \subseteq Documents
    => post[p].obj = post[q].obj /\ post[p].body = post[q].body

\* Every objective a client was given a 202 for reaches a terminal status,
\* through crashes and recoveries.
AnnouncedSettles == \A p \in Posts : p \in Announced ~> status[p] \in Terminal

Lifecycle == INSTANCE ObjectiveLifecycle WITH
  Objectives <- Posts,
  attempts <- {worker[w].obj : w \in {v \in Workers : worker[v].pc \in Packaging}}

\* The substrate implements the abstract lifecycle: one live attempt per
\* objective, and only that attempt delivers or refuses it.
RefinesLifecycle == Lifecycle!LifecycleSpec

-----------------------------------------------------------------------------
(* What the documentation says and the code does not do.                   *)

\* async_state.py: recovery emits exactly one converge row for a conclusion.
ConclusionRowOnce == \A p \in Posts : ledger[p]["composed"] <= 1

\* The webhook fires only for the status the objective really came to.
DoorbellsTruthful ==
  \A p \in Posts : status[p] # "absent" => doorbells[p] \subseteq {status[p]}

\* A request without a key is never refused for reusing one.
KeylessIsNotReuse == \A p \in Posts : post[p].answer = "key_reused" => post[p].key # NoKey
=============================================================================
