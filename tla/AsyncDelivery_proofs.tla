------------------------ MODULE AsyncDelivery_proofs ------------------------
(***************************************************************************)
(* Theorems about AsyncDelivery, for every set of handlers, workers, keys  *)
(* and bodies, every queue size and every number of crashes.               *)
(***************************************************************************)
EXTENDS AsyncDelivery, TLAPS

-----------------------------------------------------------------------------
(* Typing of the helpers the actions are built from.                       *)

PostType == post \in [Posts -> PostRecords]
WorkerType == worker \in [Workers -> WorkerRecords]
CancelType == cancel \in [Cancels -> CancelRecords]
LedgerType == ledger \in [Posts -> [Rows -> Nat]]
StatusType == status \in [Posts -> Statuses]

\* A busy worker holds an objective.  TypeOK is not inductive without it: an
\* abandoned attempt puts the worker's objective in left.
HoldsOK == \A w \in Workers : worker[w].pc # "idle" => worker[w].obj \in Posts

\* Moving a POST handler on keeps its record typed.
LEMMA GotoType ==
  ASSUME PostType, NEW p \in Posts, NEW pc \in PostSteps, Goto(p, pc)
  PROVE  PostType'
BY DEF PostType, Goto, PostRecords

\* Answering keeps the record typed.
LEMMA AnswerType ==
  ASSUME PostType, NEW p \in Posts, NEW answer \in Answers, NEW obj \in Posts \cup {None},
         Answer(p, answer, obj)
  PROVE  PostType'
<1>1. "done" \in PostSteps
  BY DEF PostSteps
<1> QED
  BY <1>1 DEF PostType, Answer, PostRecords

\* Ledgering a row keeps the counts natural numbers.
LEMMA LogType ==
  ASSUME LedgerType, NEW p, NEW row, Log(p, row)
  PROVE  LedgerType'
<1> DEFINE counts == [ledger[p] EXCEPT ![row] = ledger[p][row] + 1]
<1>1. ASSUME p \in Posts PROVE counts \in [Rows -> Nat]
  <2>1. ledger[p] \in [Rows -> Nat]
    BY <1>1 DEF LedgerType
  <2>2. row \in Rows => ledger[p][row] + 1 \in Nat
    BY <2>1
  <2> QED BY <2>1, <2>2
<1>2. ledger' = [ledger EXCEPT ![p] = counts]
  BY DEF Log
<1> HIDE DEF counts
<1> QED
  BY <1>1, <1>2 DEF LedgerType

\* A status write keeps the statuses typed.
LEMMA SetStatusType ==
  ASSUME StatusType, NEW p, NEW s \in Statuses, SetStatus(p, s)
  PROVE  StatusType'
BY DEF StatusType, SetStatus

\* A worker that goes on still holds its objective.
LEMMA BecomeType ==
  ASSUME WorkerType, HoldsOK, NEW w \in Workers, NEW pc \in WorkerSteps,
         NEW result \in AllResults \cup {"none"}, worker[w].pc # "idle", Become(w, pc, result)
  PROVE  WorkerType' /\ HoldsOK'
BY DEF WorkerType, HoldsOK, Become, WorkerRecords

\* A worker that rests holds nothing.
LEMMA RestType ==
  ASSUME WorkerType, HoldsOK, NEW w \in Workers, Rest(w)
  PROVE  WorkerType' /\ HoldsOK'
<1>1. Idle \in WorkerRecords /\ Idle.pc = "idle"
  BY DEF Idle, WorkerRecords, WorkerSteps
<1> QED
  BY <1>1 DEF WorkerType, HoldsOK, Rest

\* Moving a cancel handler on keeps its record typed.
LEMMA CancelGotoType ==
  ASSUME CancelType, NEW c \in Cancels, NEW pc \in CancelSteps, CancelGoto(c, pc)
  PROVE  CancelType'
BY DEF CancelType, CancelGoto, CancelRecords

\* Answering a cancel keeps its record typed.
LEMMA CancelAnswerType ==
  ASSUME CancelType, NEW c \in Cancels, NEW answer \in Terminal \cup {"none", "not_found"},
         CancelAnswer(c, answer)
  PROVE  CancelType'
<1>1. "done" \in CancelSteps
  BY DEF CancelSteps
<1> QED
  BY <1>1 DEF CancelType, CancelAnswer, CancelRecords

\* The doorbell announces a terminal status, or marks the document.
LEMMA FireWebhookType ==
  ASSUME doorbells \in [Posts -> SUBSET Terminal], undelivered \in [Posts -> BOOLEAN],
         NEW p, NEW announced \in Terminal, FireWebhook(p, announced)
  PROVE  /\ doorbells' \in [Posts -> SUBSET Terminal]
         /\ undelivered' \in [Posts -> BOOLEAN]
BY DEF FireWebhook
-----------------------------------------------------------------------------
(* Type correctness.                                                       *)

Typing == TypeOK /\ HoldsOK

\* The type invariant holds initially.
LEMMA TypingInit == Init => Typing
<1> SUFFICES ASSUME Init PROVE Typing
  OBVIOUS
<1> USE DEF Init
<1>1. PostType
  BY DEF PostType, PostRecords, PostSteps, Answers
<1>2. WorkerType /\ HoldsOK
  BY DEF WorkerType, HoldsOK, WorkerRecords, WorkerSteps, Idle
<1>3. CancelType
  BY DEF CancelType, CancelRecords, CancelSteps
<1>4. StatusType /\ LedgerType
  BY DEF StatusType, LedgerType, Statuses
<1> QED
  BY <1>1, <1>2, <1>3, <1>4
  DEF Typing, TypeOK, PostType, WorkerType, CancelType, LedgerType, StatusType

\* Every step of a POST handler preserves the types.
LEMMA TypingPost ==
  ASSUME Typing, NEW p \in Posts, Arrive(p) \/ PostStep(p)
  PROVE  Typing'
<1> USE DEF Typing, TypeOK, PostType, StatusType, LedgerType
<1>0. HoldsOK' \/ worker' # worker
  BY DEF HoldsOK
<1>1. CASE Arrive(p)
  <2> PICK door \in Doors, key \in Keys, body \in Bodies :
        LET request == [door |-> door, key |-> key, body |-> body, obj |-> None,
                        pc |-> "lookup", answer |-> "none"] IN
        \/ post' = [post EXCEPT ![p] = request]
        \/ post' = [post EXCEPT ![p] =
                      [request EXCEPT !.pc = "done", !.answer = "key_missing"]]
        \/ post' = [post EXCEPT ![p] = [request EXCEPT !.pc = "quote"]]
    BY <1>1 DEF Arrive
  <2> DEFINE request == [door |-> door, key |-> key, body |-> body, obj |-> None,
                         pc |-> "lookup", answer |-> "none"]
  <2>2. /\ request \in PostRecords
        /\ [request EXCEPT !.pc = "done", !.answer = "key_missing"] \in PostRecords
        /\ [request EXCEPT !.pc = "quote"] \in PostRecords
    BY ConstantsAssumption DEF PostRecords, PostSteps, Answers
  <2>1. PostType'
    BY <2>2
  <2> QED BY <1>0, <1>1, <2>1 DEF Arrive, mongo
<1>2. CASE Lookup(p)
  <2>1. PostType'
    BY <1>2, GotoType, AnswerType
    DEF Lookup, AnswerFrom, DocumentsWith, Documents, PostSteps, Answers
  <2> QED BY <1>0, <1>2, <2>1 DEF Lookup, mongo
<1>3. CASE Quote(p)
  <2>1. PostType' /\ LedgerType'
    BY <1>3, GotoType, AnswerType, LogType DEF Quote, PostSteps, Answers, Rows
  <2> QED BY <1>0, <1>3, <2>1 DEF Quote
<1>4. CASE Insert(p)
  <2>1. PostType' /\ StatusType'
    BY <1>4, GotoType, AnswerType, SetStatusType
    DEF Insert, PostSteps, Answers, Statuses, Live
  <2> QED BY <1>0, <1>4, <2>1 DEF Insert
<1>5. CASE Recheck(p)
  <2>1. PostType'
    BY <1>5, AnswerType DEF Recheck, AnswerFrom, DocumentsWith, Documents, Answers
  <2> QED BY <1>0, <1>5, <2>1 DEF Recheck, mongo
<1>6. CASE Enqueue(p)
  <2>1. PostType'
    BY <1>6, GotoType, AnswerType DEF Enqueue, PostSteps, Answers
  <2>2. queue' \in Seq(Posts) /\ left' \in SUBSET Posts
    <3>1. Append(queue, p) \in Seq(Posts) /\ left \cup {p} \in SUBSET Posts
      OBVIOUS
    <3> QED BY <1>6, <3>1 DEF Enqueue, Put
  <2> QED BY <1>0, <1>6, <2>1, <2>2 DEF Enqueue, mongo
<1>7. CASE Rollback(p)
  <2>1. PostType' /\ StatusType'
    BY <1>7, AnswerType, SetStatusType DEF Rollback, Answers, Statuses
  <2>2. undelivered' \in [Posts -> BOOLEAN]
    BY <1>7 DEF Rollback
  <2> QED BY <1>0, <1>7, <2>1, <2>2 DEF Rollback
<1> QED
  BY <1>1, <1>2, <1>3, <1>4, <1>5, <1>6, <1>7 DEF PostStep

\* Every step of a worker preserves the types.
LEMMA TypingWorker ==
  ASSUME Typing, NEW w \in Workers, Take(w) \/ WorkerStep(w)
  PROVE  Typing'
<1> USE DEF Typing, TypeOK, WorkerType, StatusType, LedgerType
<1>0. worker[w].pc # "idle" => worker[w].obj \in Posts
  BY DEF HoldsOK
<1>r. worker[w].result \in AllResults \cup {"none"}
  BY DEF WorkerRecords
<1>1. CASE Take(w)
  <2>1. Head(queue) \in Posts /\ Tail(queue) \in Seq(Posts)
    BY <1>1 DEF Take
  <2>2. [pc |-> "claim", obj |-> Head(queue), result |-> "none"] \in WorkerRecords
    BY <2>1 DEF Idle, WorkerRecords, WorkerSteps
  <2>3. WorkerType' /\ HoldsOK'
    BY <1>1, <2>1, <2>2 DEF Take, HoldsOK, Idle
  <2> QED BY <1>1, <2>1, <2>3 DEF Take, mongo
<1>2. CASE Claim(w)
  <2>1. WorkerType' /\ HoldsOK' /\ StatusType'
    BY <1>2, BecomeType, RestType, SetStatusType
    DEF Claim, WorkerSteps, Packaging, Statuses, Live
  <2> QED BY <1>2, <2>1 DEF Claim
<1>3. CASE Package(w)
  <2>1. \E result \in AllResults, pc \in {"synth", "check"} :
          \/ Log(worker[w].obj, result) /\ Become(w, pc, result) /\ UNCHANGED left
             /\ result \in Rows
          \/ UNCHANGED <<ledger, left>> /\ Become(w, pc, result)
          \/ UNCHANGED ledger /\ Rest(w) /\ left' = left \cup {worker[w].obj}
    BY <1>3 DEF Package, Results, AllResults, RefusalRows, Rows
  <2>2. WorkerType' /\ HoldsOK' /\ LedgerType' /\ left' \in SUBSET Posts
    BY <1>0, <1>3, <2>1, BecomeType, RestType, LogType DEF Package, WorkerSteps, Packaging
  <2> QED BY <1>3, <2>2 DEF Package
<1>4. CASE Synthesise(w)
  <2>1. WorkerType' /\ HoldsOK' /\ left' \in SUBSET Posts
    BY <1>0, <1>r, <1>4, BecomeType, RestType DEF Synthesise, WorkerSteps, Packaging
  <2> QED BY <1>4, <2>1 DEF Synthesise, mongo
<1>5. CASE CheckRefusal(w)
  <2>1. WorkerType' /\ HoldsOK'
    BY <1>r, <1>5, BecomeType DEF CheckRefusal, WorkerSteps, Packaging
  <2> QED BY <1>5, <2>1 DEF CheckRefusal, mongo
<1>6. CASE EmitRefusal(w)
  <2>1. WorkerType' /\ HoldsOK'
    BY <1>r, <1>6, BecomeType DEF EmitRefusal, WorkerSteps, Packaging
  <2>2. LedgerType'
    BY <1>6, LogType DEF EmitRefusal
  <2> QED BY <1>6, <2>1, <2>2 DEF EmitRefusal
<1>7. CASE Settle(w)
  <2>1. WorkerType' /\ HoldsOK' /\ StatusType'
    BY <1>r, <1>7, BecomeType, SetStatusType
    DEF Settle, SettledAs, WorkerSteps, Statuses, Terminal
  <2> QED BY <1>7, <2>1 DEF Settle
<1>8. CASE WorkerWebhook(w)
  <2>1. WorkerType' /\ HoldsOK'
    BY <1>r, <1>8, BecomeType, RestType DEF WorkerWebhook, WorkerSteps
  <2>2. doorbells' \in [Posts -> SUBSET Terminal] /\ undelivered' \in [Posts -> BOOLEAN]
    BY <1>8, FireWebhookType DEF WorkerWebhook, SettledAs, Terminal
  <2> QED BY <1>8, <2>1, <2>2 DEF WorkerWebhook
<1>9. CASE RecordQuote(w)
  <2>1. WorkerType' /\ HoldsOK' /\ LedgerType'
    BY <1>0, <1>9, RestType, LogType DEF RecordQuote, Rows
  <2> QED BY <1>9, <2>1 DEF RecordQuote
<1> QED
  BY <1>1, <1>2, <1>3, <1>4, <1>5, <1>6, <1>7, <1>8, <1>9 DEF WorkerStep

\* Every step of a cancel handler preserves the types.
LEMMA TypingCancel ==
  ASSUME Typing, NEW c \in Cancels, CancelRead(c) \/ CancelStep(c)
  PROVE  Typing'
<1> USE DEF Typing, TypeOK, CancelType, StatusType, LedgerType
<1>0. HoldsOK' \/ worker' # worker
  BY DEF HoldsOK
<1>1. CASE CancelRead(c)
  <2>1. PICK p \in Announced :
          \/ cancel' = [cancel EXCEPT ![c] = [pc |-> "try_running", obj |-> p,
                                             answer |-> "none"]]
          \/ cancel' = [cancel EXCEPT ![c] = [pc |-> "done", obj |-> p,
                                             answer |-> Envelope(p)]]
    BY <1>1 DEF CancelRead
  <2>2. p \in Posts \cup {None}
    BY DEF Announced, PostRecords
  <2>3. Envelope(p) \in Terminal \cup {"none", "not_found"}
    BY DEF Envelope
  <2>4. /\ [pc |-> "try_running", obj |-> p, answer |-> "none"] \in CancelRecords
        /\ [pc |-> "done", obj |-> p, answer |-> Envelope(p)] \in CancelRecords
    BY <2>2, <2>3 DEF CancelRecords, CancelSteps
  <2>5. CancelType'
    BY <2>1, <2>4
  <2> QED BY <1>0, <1>1, <2>5 DEF CancelRead, mongo
<1>2. CASE CancelRunning(c) \/ CancelAccepted(c)
  <2>1. CancelType' /\ StatusType'
    BY <1>2, CancelGotoType, SetStatusType
    DEF CancelRunning, CancelAccepted, CancelTry, CancelSteps, Statuses, Terminal
  <2> QED BY <1>0, <1>2, <2>1 DEF CancelRunning, CancelAccepted, CancelTry
<1>3. CASE CancelRefetch(c)
  <2>1. CancelType'
    BY <1>3, CancelAnswerType DEF CancelRefetch, Envelope
  <2> QED BY <1>0, <1>3, <2>1 DEF CancelRefetch, mongo
<1>4. CASE CancelEmit(c)
  <2>1. CancelType'
    BY <1>4, CancelGotoType DEF CancelEmit, CancelSteps
  <2>2. LedgerType'
    BY <1>4, LogType DEF CancelEmit
  <2> QED BY <1>0, <1>4, <2>1, <2>2 DEF CancelEmit
<1>5. CASE CancelWebhook(c)
  <2>1. CancelType'
    BY <1>5, CancelAnswerType DEF CancelWebhook, Terminal
  <2>2. doorbells' \in [Posts -> SUBSET Terminal] /\ undelivered' \in [Posts -> BOOLEAN]
    BY <1>5, FireWebhookType DEF CancelWebhook, Terminal
  <2> QED BY <1>0, <1>5, <2>1, <2>2 DEF CancelWebhook
<1> QED
  BY <1>1, <1>2, <1>3, <1>4, <1>5 DEF CancelStep

\* Death of the process and every startup step preserve the types.
LEMMA TypingProcess ==
  ASSUME Typing, Crash \/ Startup
  PROVE  Typing'
<1> USE DEF Typing, TypeOK
<1>0. HoldsOK' \/ worker' # worker
  BY DEF HoldsOK
<1>1. CASE Crash
  <2>1. ASSUME NEW p \in Posts
        PROVE  post[p] \in PostRecords /\ [post[p] EXCEPT !.pc = "dead"] \in PostRecords
    <3>1. post[p] \in PostRecords /\ "dead" \in PostSteps
      BY DEF PostSteps
    <3> QED BY <3>1 DEF PostRecords
  <2>2. \A c \in Cancels : cancel[c] \in CancelRecords
                          /\ [cancel[c] EXCEPT !.pc = "dead"] \in CancelRecords
    BY DEF CancelRecords, CancelSteps
  <2>3. Idle \in WorkerRecords /\ Idle.pc = "idle"
    BY DEF Idle, WorkerRecords, WorkerSteps
  <2>4. post' \in [Posts -> PostRecords]
    BY <1>1, <2>1 DEF Crash
  <2>5. cancel' \in [Cancels -> CancelRecords]
    BY <1>1, <2>2 DEF Crash
  <2>6. worker' \in [Workers -> WorkerRecords] /\ HoldsOK'
    BY <1>1, <2>3 DEF Crash, HoldsOK
  <2>7. crashes' \in Nat /\ queue' \in Seq(Posts)
    BY <1>1 DEF Crash
  <2> QED BY <1>1, <2>4, <2>5, <2>6, <2>7 DEF Crash, mongo
<1>2. CASE Boot
  BY <1>0, <1>2 DEF Boot, RecoveryCandidates, mongo
<1>3. CASE Serve
  BY <1>0, <1>3 DEF Serve, mongo, process
<1>4. ASSUME NEW p \in Posts, Sweep(p) PROVE Typing'
  <2>1. StatusType'
    BY <1>4, SetStatusType DEF Sweep, StatusType, Statuses, Live
  <2>2. Append(queue, p) \in Seq(Posts) /\ left \cup {p} \in SUBSET Posts
    OBVIOUS
  <2> QED BY <1>0, <1>4, <2>1, <2>2 DEF Sweep, Put, StatusType
<1> QED
  BY <1>1, <1>2, <1>3, <1>4 DEF Startup

\* Every step preserves the types.
LEMMA TypingNext == Typing /\ [Next]_vars => Typing'
<1> SUFFICES ASSUME Typing, [Next]_vars PROVE Typing'
  OBVIOUS
<1>1. CASE UNCHANGED vars
  BY <1>1 DEF Typing, TypeOK, HoldsOK, vars, mongo
<1> QED
  BY <1>1, TypingPost, TypingWorker, TypingCancel, TypingProcess DEF Next

\* TypeOK holds of the delivery substrate, whatever its parameters.
THEOREM TypeCorrect == Spec => []TypeOK
<1>1. Spec => []Typing
  BY TypingInit, TypingNext, PTL DEF Spec
<1>2. Typing => TypeOK
  BY DEF Typing
<1> QED
  BY <1>1, <1>2, PTL

-----------------------------------------------------------------------------
(***************************************************************************)
(* Where an objective can be, and what follows from it: terminal statuses  *)
(* are final, no objective has two attempts, nothing is stranded.          *)
(***************************************************************************)

-----------------------------------------------------------------------------
(* The inductive invariant.                                                *)

Held(p) == \E w \in Workers : worker[w].pc # "idle" /\ worker[w].obj = p

\* Between a death and the end of the startup hook nothing runs.
Quiet ==
  /\ server # "up" => /\ \A w \in Workers : worker[w].pc = "idle"
                      /\ \A p \in Posts : post[p].pc \in {"new", "done", "dead"}
                      /\ \A c \in Cancels : cancel[c].pc \in {"new", "done", "dead"}
  /\ server = "down" => queue = << >>
  /\ server # "sweeping" => todo = {}

\* A document was inserted by its own POST handler.
Admitted ==
  \A p \in Posts : status[p] # "absent" => post[p].pc \in {"enqueue", "rollback", "done", "dead"}

\* Until that handler lets go of it, it can only be cancelled.
Pending ==
  \A p \in Posts :
    post[p].pc \in {"enqueue", "rollback"} => status[p] \in {"accepted", "cancelled"}

\* Queue and workers know only objectives whose handler has ended.
Fresh == \A p \in Posts : post[p].pc \notin {"done", "dead"} => ~Queued(p) /\ ~Held(p)

\* An objective is in one place: the queue, once, or one worker, or the sweep.
Placed == \A p \in Posts : Queued(p) => ~Held(p) /\ p \notin todo
QueueOnce == \A i, j \in DOMAIN queue : queue[i] = queue[j] => i = j
TodoLive == \A p \in todo : status[p] \in Live

\* What is queued or held has a document.
Documented == \A p \in Posts : Queued(p) \/ Held(p) => status[p] # "absent"

Places ==
  /\ Quiet /\ Admitted /\ Pending /\ Fresh /\ Placed /\ QueueOnce /\ TodoLive /\ Documented
  /\ OneAttempt

-----------------------------------------------------------------------------
(* How the helpers move an objective from place to place.                  *)

\* What moving a POST handler on changes, and what it leaves alone.
LEMMA GotoMoves ==
  ASSUME PostType, NEW p \in Posts, NEW pc, Goto(p, pc)
  PROVE  /\ post'[p].pc = pc /\ post'[p].answer = post[p].answer
         /\ post'[p].door = post[p].door /\ post'[p].obj = post[p].obj
         /\ \A q \in Posts \ {p} : post'[q] = post[q]
<1>1. post[p] \in PostRecords
  BY DEF PostType
<1>2. [post[p] EXCEPT !.pc = pc].pc = pc
  BY <1>1 DEF PostRecords
<1>3. /\ [post[p] EXCEPT !.pc = pc].answer = post[p].answer
      /\ [post[p] EXCEPT !.pc = pc].door = post[p].door
      /\ [post[p] EXCEPT !.pc = pc].obj = post[p].obj
  BY <1>1 DEF PostRecords
<1> QED
  BY <1>1, <1>2, <1>3 DEF PostType, Goto

\* What answering changes, and what it leaves alone.
LEMMA AnswerMoves ==
  ASSUME PostType, NEW p \in Posts, NEW answer, NEW obj, Answer(p, answer, obj)
  PROVE  /\ post'[p].pc = "done" /\ post'[p].answer = answer /\ post'[p].obj = obj
         /\ post'[p].door = post[p].door
         /\ \A q \in Posts \ {p} : post'[q] = post[q]
<1> DEFINE done == [post[p] EXCEPT !.pc = "done", !.answer = answer, !.obj = obj]
<1>1. post[p] \in PostRecords
  BY DEF PostType
<1>2. /\ done.pc = "done" /\ done.answer = answer /\ done.obj = obj
      /\ done.door = post[p].door
  BY <1>1 DEF PostRecords
<1>3. post' = [post EXCEPT ![p] = done]
  BY DEF Answer
<1> HIDE DEF done
<1> QED
  BY <1>2, <1>3 DEF PostType

\* A request leaves the client for a lookup, an answer or a quote.
LEMMA ArriveMoves ==
  ASSUME Typing, NEW p \in Posts, Arrive(p)
  PROVE  /\ post[p].pc = "new" /\ server = "up"
         /\ post'[p].pc \in {"lookup", "done", "quote"}
         /\ post'[p].answer \in {"none", "key_missing"}
         /\ \A q \in Posts \ {p} : post'[q] = post[q]
<1>1. PICK door \in Doors, key \in Keys, body \in Bodies :
        LET request == [door |-> door, key |-> key, body |-> body, obj |-> None,
                        pc |-> "lookup", answer |-> "none"] IN
        \/ post' = [post EXCEPT ![p] = request]
        \/ post' = [post EXCEPT ![p] =
                      [request EXCEPT !.pc = "done", !.answer = "key_missing"]]
        \/ post' = [post EXCEPT ![p] = [request EXCEPT !.pc = "quote"]]
  BY DEF Arrive
<1> DEFINE request == [door |-> door, key |-> key, body |-> body, obj |-> None,
                       pc |-> "lookup", answer |-> "none"]
           refused == [request EXCEPT !.pc = "done", !.answer = "key_missing"]
           keyless == [request EXCEPT !.pc = "quote"]
<1>2. /\ request.pc = "lookup" /\ request.answer = "none"
      /\ request \in [door : {door}, key : {key}, body : {body}, obj : {None},
                      pc : {"lookup"}, answer : {"none"}]
  OBVIOUS
<1> HIDE DEF request
<1>3. refused.pc = "done" /\ refused.answer = "key_missing"
  BY <1>2
<1>4. keyless.pc = "quote" /\ keyless.answer = "none"
  BY <1>2
<1>5. \E r \in {request, refused, keyless} : post' = [post EXCEPT ![p] = r]
  BY <1>1 DEF request
<1> HIDE DEF refused, keyless
<1>6. post'[p] \in {request, refused, keyless} /\ \A q \in Posts \ {p} : post'[q] = post[q]
  BY <1>5 DEF Typing, TypeOK
<1> QED
  BY <1>2, <1>3, <1>4, <1>6 DEF Arrive

\* put_nowait adds the objective to the queue, and nothing else.
LEMMA PutPlaces ==
  ASSUME queue \in Seq(Posts), NEW p \in Posts, Put(p)
  PROVE  /\ \A q \in Posts : Queued(q)' <=> Queued(q) \/ q = p
         /\ QueueOnce /\ ~Queued(p) => QueueOnce'
BY DEF Put, Queued, QueueOnce

\* A get takes the head away, and with no duplicates it is gone.
LEMMA TakePlaces ==
  ASSUME queue \in Seq(Posts), queue # << >>, QueueOnce, queue' = Tail(queue)
  PROVE  /\ QueueOnce'
         /\ Queued(Head(queue))
         /\ \A q \in Posts : Queued(q)' <=> Queued(q) /\ q # Head(queue)
<1>1. Len(queue) \in Nat /\ Len(queue) > 0 /\ DOMAIN queue = 1..Len(queue)
  OBVIOUS
<1>2. /\ DOMAIN queue' = 1..(Len(queue) - 1)
      /\ \A i \in 1..(Len(queue) - 1) : queue'[i] = queue[i + 1]
      /\ Head(queue) = queue[1]
  OBVIOUS
<1>3. QueueOnce'
  BY <1>1, <1>2 DEF QueueOnce
<1>4. Queued(Head(queue))
  BY <1>1, <1>2 DEF Queued
<1>5. ASSUME NEW q \in Posts PROVE Queued(q)' <=> Queued(q) /\ q # Head(queue)
  <2>1. ASSUME Queued(q)' PROVE Queued(q) /\ q # Head(queue)
    <3>1. PICK i \in 1..(Len(queue) - 1) : queue'[i] = q
      BY <1>2, <2>1 DEF Queued
    <3>2. i + 1 \in DOMAIN queue /\ 1 \in DOMAIN queue /\ queue[i + 1] = q /\ i + 1 # 1
      BY <1>1, <1>2, <3>1
    <3> QED BY <1>2, <3>2 DEF Queued, QueueOnce
  <2>2. ASSUME Queued(q), q # Head(queue) PROVE Queued(q)'
    <3>1. PICK i \in 1..Len(queue) : queue[i] = q
      BY <1>1, <2>2 DEF Queued
    <3>2. i - 1 \in 1..(Len(queue) - 1) /\ (i - 1) + 1 = i
      BY <1>1, <1>2, <2>2, <3>1
    <3>3. queue'[i - 1] = q
      BY <1>2, <3>1, <3>2
    <3> QED BY <1>2, <3>2, <3>3 DEF Queued
  <2> QED BY <2>1, <2>2
<1> QED
  BY <1>3, <1>4, <1>5

\* What a worker's step changes of the worker records.
LEMMA BecomeMoves ==
  ASSUME WorkerType, NEW w \in Workers, NEW pc, NEW result, Become(w, pc, result)
  PROVE  /\ worker'[w].pc = pc /\ worker'[w].result = result /\ worker'[w].obj = worker[w].obj
         /\ \A v \in Workers \ {w} : worker'[v] = worker[v]
BY DEF WorkerType, Become

\* A worker that goes on holds what it held.
LEMMA BecomePlaces ==
  ASSUME WorkerType, NEW w \in Workers, worker[w].pc # "idle", NEW pc, pc # "idle",
         NEW result, Become(w, pc, result)
  PROVE  /\ \A p \in Posts : Held(p)' <=> Held(p)
         /\ OneAttempt => OneAttempt'
BY DEF WorkerType, Become, Held, OneAttempt

\* A worker that rests lets go.
LEMMA RestPlaces ==
  ASSUME WorkerType, NEW w \in Workers, Rest(w)
  PROVE  /\ \A p \in Posts : Held(p)' => Held(p)
         /\ OneAttempt => OneAttempt'
BY DEF WorkerType, Rest, Idle, Held, OneAttempt

-----------------------------------------------------------------------------
(* The invariant is inductive.                                             *)

\* Nothing is anywhere at first.
LEMMA PlacesInit == Init => Places
BY DEF Init, Places, Quiet, Admitted, Pending, Fresh, Placed, QueueOnce, TodoLive, Documented,
       OneAttempt, Queued, Held, Idle

\* A step of a POST handler keeps every objective in its place.
LEMMA PlacesPost ==
  ASSUME Typing, Places, NEW p \in Posts, Arrive(p) \/ PostStep(p)
  PROVE  Places'
<1> USE DEF Typing, TypeOK, Places, PostType, StatusType
<1>0. /\ UNCHANGED queue => QueueOnce' /\ \A q \in Posts : Queued(q)' <=> Queued(q)
      /\ UNCHANGED worker => OneAttempt' /\ \A q \in Posts : Held(q)' <=> Held(q)
  BY DEF Queued, QueueOnce, Held, OneAttempt
<1>1. CASE Arrive(p)
  <2>1. /\ post[p].pc = "new" /\ server = "up"
        /\ \A q \in Posts \ {p} : post'[q] = post[q]
        /\ post'[p].pc \in {"lookup", "done", "quote"}
        /\ UNCHANGED <<server, queue, worker, cancel, todo, status>>
    BY <1>1, ArriveMoves DEF Arrive, mongo
  <2> QED
    BY <1>0, <2>1 DEF Quiet, Admitted, Pending, Fresh, Placed, TodoLive, Documented
<1>2. CASE Lookup(p) \/ Recheck(p) \/ Quote(p)
  <2>1. /\ post[p].pc \in {"lookup", "recheck", "quote"}
        /\ \A q \in Posts \ {p} : post'[q] = post[q]
        /\ post'[p].pc \in {"quote", "insert", "done"}
        /\ UNCHANGED <<server, queue, worker, cancel, todo, status>>
    BY <1>2, GotoMoves, AnswerMoves DEF Lookup, Recheck, Quote, AnswerFrom, mongo
  <2> QED
    BY <1>0, <2>1 DEF Quiet, Admitted, Pending, Fresh, Placed, TodoLive, Documented
<1>3. CASE Insert(p)
  <2>1. /\ post[p].pc = "insert"
        /\ \A q \in Posts \ {p} : post'[q] = post[q] /\ status'[q] = status[q]
        /\ \/ post'[p].pc = "enqueue" /\ status'[p] = "accepted"
           \/ post'[p].pc \in {"recheck", "done"} /\ status'[p] = status[p]
        /\ UNCHANGED <<server, queue, worker, cancel, todo>>
    BY <1>3, GotoMoves, AnswerMoves DEF Insert, SetStatus
  <2> QED
    BY <1>0, <2>1 DEF Quiet, Admitted, Pending, Fresh, Placed, TodoLive, Documented, Live
<1>4. CASE Enqueue(p)
  <2>1. /\ post[p].pc = "enqueue"
        /\ \A q \in Posts \ {p} : post'[q] = post[q]
        /\ \/ Put(p) /\ post'[p].pc = "done"
           \/ UNCHANGED queue /\ post'[p].pc \in {"rollback", "done"}
        /\ UNCHANGED <<server, worker, cancel, todo, status>>
    BY <1>4, GotoMoves, AnswerMoves DEF Enqueue, mongo
  <2>2. ~Queued(p) /\ ~Held(p) /\ p \notin todo
    BY <2>1 DEF Fresh, Quiet
  <2>3. QueueOnce' /\ \A q \in Posts : Queued(q)' => Queued(q) \/ (q = p /\ post'[p].pc = "done")
    BY <1>0, <2>1, <2>2, PutPlaces
  <2> QED
    BY <1>0, <2>1, <2>2, <2>3
    DEF Quiet, Admitted, Pending, Fresh, Placed, TodoLive, Documented
<1>5. CASE Rollback(p)
  <2>1. /\ post[p].pc = "rollback" /\ post'[p].pc = "done" /\ status'[p] = "absent"
        /\ \A q \in Posts \ {p} : post'[q] = post[q] /\ status'[q] = status[q]
        /\ UNCHANGED <<server, queue, worker, cancel, todo>>
    BY <1>5, AnswerMoves DEF Rollback, SetStatus
  <2>2. ~Queued(p) /\ ~Held(p) /\ p \notin todo
    BY <2>1 DEF Fresh, Quiet
  <2>3. Quiet' /\ Admitted' /\ Pending'
    BY <2>1 DEF Quiet, Admitted, Pending
  <2>4. Fresh' /\ Placed'
    BY <1>0, <2>1 DEF Fresh, Placed
  <2>5. TodoLive' /\ Documented'
    BY <1>0, <2>1, <2>2 DEF TodoLive, Documented
  <2> QED
    BY <1>0, <2>1, <2>3, <2>4, <2>5
<1> QED
  BY <1>1, <1>2, <1>3, <1>4, <1>5 DEF PostStep

\* A step of a worker keeps every objective in its place.
LEMMA PlacesWorker ==
  ASSUME Typing, Places, NEW w \in Workers, Take(w) \/ WorkerStep(w)
  PROVE  Places'
<1> USE DEF Typing, TypeOK, Places, WorkerType, StatusType
<1>0. UNCHANGED queue => QueueOnce' /\ \A q \in Posts : Queued(q)' <=> Queued(q)
  BY DEF Queued, QueueOnce
<1>1. CASE Take(w)
  <2> DEFINE h == Head(queue)
  <2>1. h \in Posts /\ QueueOnce' /\ Queued(h)
        /\ \A q \in Posts : Queued(q)' <=> Queued(q) /\ q # h
    BY <1>1, TakePlaces DEF Take
  <2>2. worker' = [worker EXCEPT ![w] = [pc |-> "claim", obj |-> h, result |-> "none"]]
    BY <1>1 DEF Take, Idle
  <2> HIDE DEF h
  <2>3. ~Held(h)
    BY <2>1 DEF Placed
  <2>4. \A q \in Posts : Held(q)' => Held(q) \/ q = h
    BY <2>2 DEF Held
  <2>5. OneAttempt'
    BY <2>2, <2>3 DEF OneAttempt, Held
  <2>6. server = "up" /\ UNCHANGED <<server, post, cancel, todo, status>>
    BY <1>1 DEF Take, mongo
  <2>7. Quiet' /\ Admitted' /\ Pending' /\ TodoLive'
    BY <2>6 DEF Quiet, Admitted, Pending, TodoLive
  <2>8. Fresh' /\ Placed'
    BY <2>1, <2>4, <2>6 DEF Fresh, Placed, Quiet
  <2>9. Documented'
    BY <2>1, <2>4, <2>6 DEF Documented
  <2> QED
    BY <2>1, <2>5, <2>7, <2>8, <2>9
<1>2. CASE WorkerStep(w)
  <2>1. /\ worker[w].pc # "idle" /\ worker[w].obj \in Posts
        /\ UNCHANGED <<server, queue, post, cancel, todo>>
    BY <1>2 DEF WorkerStep, Claim, Package, Synthesise, CheckRefusal, EmitRefusal, Settle,
                WorkerWebhook, RecordQuote, HoldsOK, mongo
  <2>2. \/ Rest(w)
        \/ \E pc \in WorkerSteps \ {"idle"} : \E result : Become(w, pc, result)
    BY <1>2 DEF WorkerStep, Claim, Package, Synthesise, CheckRefusal, EmitRefusal, Settle,
                WorkerWebhook, RecordQuote, WorkerSteps, Packaging
  <2>3. OneAttempt' /\ \A q \in Posts : Held(q)' => Held(q)
    BY <2>1, <2>2, BecomePlaces, RestPlaces
  <2>4. /\ \A q \in Posts : status'[q] = status[q] \/ (q = worker[w].obj /\ status'[q] # "absent")
        /\ status' \in [Posts -> Statuses]
    BY <1>2, <2>1, SetStatusType
    DEF WorkerStep, Claim, Package, Synthesise, CheckRefusal, EmitRefusal, Settle, SettledAs,
        WorkerWebhook, RecordQuote, SetStatus, mongo, Statuses, Terminal, Live
  <2>5. Held(worker[w].obj) /\ server = "up" /\ todo = {}
    BY <2>1 DEF Held, Quiet
  <2>6. post[worker[w].obj].pc \in {"done", "dead"}
    BY <2>1, <2>5 DEF Fresh
  <2>7. Quiet' /\ Admitted' /\ Pending' /\ TodoLive'
    BY <2>1, <2>4, <2>5, <2>6 DEF Quiet, Admitted, Pending, TodoLive
  <2>8. Fresh' /\ Placed' /\ Documented'
    BY <1>0, <2>1, <2>3, <2>4 DEF Fresh, Placed, Documented
  <2> QED
    BY <1>0, <2>1, <2>3, <2>7, <2>8
<1> QED
  BY <1>1, <1>2

\* A step of a cancel handler keeps every objective in its place.
LEMMA PlacesCancel ==
  ASSUME Typing, Places, NEW c \in Cancels, CancelRead(c) \/ CancelStep(c)
  PROVE  Places'
<1> USE DEF Typing, TypeOK, Places
<1>0. /\ UNCHANGED queue => QueueOnce' /\ \A q \in Posts : Queued(q)' <=> Queued(q)
      /\ UNCHANGED worker => OneAttempt' /\ \A q \in Posts : Held(q)' <=> Held(q)
  BY DEF Queued, QueueOnce, Held, OneAttempt
<1>1. server = "up" /\ UNCHANGED <<server, queue, worker, post, todo>>
  BY DEF CancelRead, CancelStep, CancelRunning, CancelAccepted, CancelTry, CancelRefetch,
         CancelEmit, CancelWebhook, Quiet, mongo
<1>2. \A q \in Posts : status'[q] = status[q] \/ (status[q] \in Live /\ status'[q] = "cancelled")
  BY DEF CancelRead, CancelStep, CancelRunning, CancelAccepted, CancelTry, CancelRefetch,
         CancelEmit, CancelWebhook, SetStatus, mongo, Live
<1>3. Quiet' /\ Admitted' /\ Pending' /\ TodoLive'
  BY <1>1, <1>2 DEF Quiet, Admitted, Pending, TodoLive, Live
<1>4. Fresh' /\ Placed' /\ Documented'
  BY <1>0, <1>1, <1>2 DEF Fresh, Placed, Documented
<1> QED
  BY <1>0, <1>1, <1>3, <1>4

\* Death and startup keep every objective in its place.
LEMMA PlacesProcess ==
  ASSUME Typing, Places, Crash \/ Startup
  PROVE  Places'
<1> USE DEF Typing, TypeOK, Places, StatusType
<1>0. /\ UNCHANGED queue => QueueOnce' /\ \A q \in Posts : Queued(q)' <=> Queued(q)
      /\ UNCHANGED worker => OneAttempt' /\ \A q \in Posts : Held(q)' <=> Held(q)
  BY DEF Queued, QueueOnce, Held, OneAttempt
<1>1. CASE Crash
  <2>1. /\ \A q \in Posts : ~Queued(q)' /\ ~Held(q)'
        /\ QueueOnce' /\ OneAttempt'
    BY <1>1 DEF Crash, Queued, QueueOnce, Held, OneAttempt, Idle
  <2>2. ASSUME NEW q \in Posts
        PROVE  /\ post'[q].pc \in {"new", "done", "dead"}
               /\ post[q].pc # "new" => post'[q].pc # "new"
               /\ status'[q] = status[q]
    <3>1. post[q] \in PostRecords /\ post'[q] = IF post[q].pc \in {"new", "done"} THEN post[q]
                                                ELSE [post[q] EXCEPT !.pc = "dead"]
      BY <1>1 DEF Crash
    <3> QED BY <1>1, <3>1 DEF PostRecords, Crash, mongo
  <2>3. ASSUME NEW d \in Cancels PROVE cancel'[d].pc \in {"new", "done", "dead"}
    <3>1. cancel[d] \in CancelRecords
          /\ cancel'[d] = IF cancel[d].pc \in {"new", "done"} THEN cancel[d]
                          ELSE [cancel[d] EXCEPT !.pc = "dead"]
      BY <1>1 DEF Crash
    <3> QED BY <3>1 DEF CancelRecords
  <2>4. Quiet'
    BY <1>1, <2>2, <2>3 DEF Crash, Quiet, Idle
  <2>5. Admitted' /\ Pending'
    BY <2>2 DEF Admitted, Pending
  <2>6. Fresh' /\ Placed' /\ TodoLive' /\ Documented'
    BY <1>1, <2>1 DEF Crash, Fresh, Placed, TodoLive, Documented
  <2> QED
    BY <2>1, <2>4, <2>5, <2>6
<1>2. CASE Boot
  <2>1. server = "down" /\ queue = << >> /\ \A q \in Posts : ~Queued(q)
    BY <1>2 DEF Boot, BootFrom, Quiet, Queued
  <2> QED
    BY <1>0, <1>2, <2>1
    DEF Boot, RecoveryCandidates, mongo, Quiet, Admitted, Pending, Fresh, Placed, TodoLive,
        Documented
<1>3. CASE Serve
  BY <1>0, <1>3
  DEF Serve, mongo, process, Quiet, Admitted, Pending, Fresh, Placed, TodoLive, Documented
<1>4. ASSUME NEW p \in Posts, Sweep(p) PROVE Places'
  <2>1. /\ server = "sweeping" /\ p \in todo
        /\ UNCHANGED <<server, worker, post, cancel>>
        /\ todo' = todo \ {p}
        /\ status'[p] = "accepted" /\ \A q \in Posts \ {p} : status'[q] = status[q]
    BY <1>4 DEF Sweep, SetStatus
  <2>2. ~Queued(p) /\ \A q \in Posts : ~Held(q)
    BY <2>1 DEF Placed, Quiet, Held
  <2>3. QueueOnce' /\ \A q \in Posts : Queued(q)' => Queued(q) \/ q = p
    BY <1>0, <1>4, <2>2, PutPlaces DEF Sweep
  <2>4. post[p].pc \in {"done", "dead"}
    BY <2>1 DEF TodoLive, Live, Admitted, Quiet
  <2>5. Quiet' /\ Admitted' /\ Pending' /\ TodoLive'
    BY <2>1, <2>4 DEF Quiet, Admitted, Pending, TodoLive
  <2>6. Fresh' /\ Placed' /\ Documented'
    BY <1>0, <2>1, <2>2, <2>3, <2>4 DEF Fresh, Placed, Documented
  <2> QED
    BY <1>0, <2>1, <2>3, <2>5, <2>6
<1> QED
  BY <1>1, <1>2, <1>3, <1>4 DEF Startup

\* Every step keeps every objective in its place.
LEMMA PlacesNext == Typing /\ Places /\ [Next]_vars => Places'
<1> SUFFICES ASSUME Typing, Places, [Next]_vars PROVE Places'
  OBVIOUS
<1>1. CASE UNCHANGED vars
  BY <1>1
  DEF vars, Places, Quiet, Admitted, Pending, Fresh, Placed, QueueOnce, TodoLive, Documented,
      OneAttempt, Queued, Held
<1> QED
  BY <1>1, PlacesPost, PlacesWorker, PlacesCancel, PlacesProcess DEF Next

\* Typing and Places are invariant.
LEMMA Placement == Spec => [](Typing /\ Places)
<1>1. Init => Typing /\ Places
  BY TypingInit, PlacesInit
<1>2. Typing /\ Places /\ [Next]_vars => (Typing /\ Places)'
  BY TypingNext, PlacesNext
<1> QED
  BY <1>1, <1>2, PTL DEF Spec

\* No objective ever has two live attempts, through any number of workers,
\* abandoned attempts and restarts: the fence async_state.py relies on when it
\* writes terminal statuses without comparing worker generations.
THEOREM OneAttemptHolds == Spec => []OneAttempt
<1>1. Places => OneAttempt
  BY DEF Places
<1> QED
  BY <1>1, Placement, PTL

-----------------------------------------------------------------------------
(* Terminal statuses are final.                                            *)

\* Who may move the status of an objective, and from where.
LEMMA StatusMoves ==
  ASSUME Typing, Places, Next, NEW p \in Posts, status'[p] # status[p]
  PROVE  \/ status[p] \in {"absent"} \cup Live
         \/ status'[p] = "absent" /\ post[p].pc = "rollback"
<1> USE DEF Typing, TypeOK
<1>1. CASE \E q \in Posts : Arrive(q) \/ PostStep(q)
  <2> PICK q \in Posts : Arrive(q) \/ PostStep(q)
    BY <1>1
  <2>1. CASE Insert(q)
    BY <2>1 DEF Insert, SetStatus, Places, Admitted
  <2>2. CASE Rollback(q)
    BY <2>2 DEF Rollback, SetStatus
  <2>3. CASE Arrive(q) \/ Lookup(q) \/ Quote(q) \/ Recheck(q) \/ Enqueue(q)
    BY <2>3 DEF Arrive, Lookup, Quote, Recheck, Enqueue, mongo
  <2> QED BY <2>1, <2>2, <2>3 DEF PostStep
<1>2. CASE \E w \in Workers : Take(w) \/ WorkerStep(w)
  BY <1>2 DEF Take, WorkerStep, Claim, Claimable, Package, Synthesise, CheckRefusal, EmitRefusal,
              Settle, Settleable, WorkerWebhook, RecordQuote, SetStatus, Live, mongo
<1>3. CASE \E c \in Cancels : CancelRead(c) \/ CancelStep(c)
  BY <1>3 DEF CancelRead, CancelStep, CancelRunning, CancelAccepted, CancelTry, CancelRefetch,
              CancelEmit, CancelWebhook, SetStatus, Live, mongo
<1>4. CASE Startup
  BY <1>4 DEF Startup, Boot, Serve, Sweep, SetStatus, Places, TodoLive, mongo
<1>5. CASE Crash
  BY <1>5 DEF Crash, mongo
<1> QED
  BY <1>1, <1>2, <1>3, <1>4, <1>5 DEF Next

\* A delivered, refused or cancelled objective stays so, for whatever workers,
\* cancels, restarts and sweeps come later, except that the saturation rollback
\* of POST /objectives may delete it.
THEOREM TerminalIsFinalHolds == Spec => TerminalIsFinal
<1> DEFINE Final == \A p \in Posts : status[p] \in Terminal =>
                      \/ status'[p] = status[p]
                      \/ status'[p] = "absent" /\ post[p].pc = "rollback"
<1>1. Typing /\ Places /\ [Next]_vars => [Final]_vars
  BY StatusMoves DEF Live, Terminal
<1> QED
  BY <1>1, Placement, PTL DEF Spec, TerminalIsFinal

-----------------------------------------------------------------------------
(* Nothing is stranded.                                                    *)

\* While the sweep runs, what is live is still to be handled, queued, or left.
SweptOrTodo ==
  server = "sweeping" =>
    \A p \in Posts :
      status[p] \in Live => p \in todo \/ (status[p] = "accepted" /\ (Queued(p) \/ p \in left))

Tracked == NothingStranded /\ SweptOrTodo

\* What a worker that goes on still has in hand.
LEMMA BecomeHand ==
  ASSUME WorkerType, NEW w \in Workers, NEW pc, NEW result, Become(w, pc, result),
         NEW p, NEW pcs, InHand(p, pcs), worker[w].obj # p \/ worker[w].pc \notin pcs \/ pc \in pcs
  PROVE  InHand(p, pcs)'
BY DEF WorkerType, Become, InHand

\* A worker that rests takes nothing from the others.
LEMMA RestHand ==
  ASSUME WorkerType, NEW w \in Workers, Rest(w),
         NEW p, NEW pcs, InHand(p, pcs), worker[w].obj # p \/ worker[w].pc \notin pcs
  PROVE  InHand(p, pcs)'
BY DEF WorkerType, Rest, InHand

\* A step of a POST handler strands nothing.
LEMMA TrackedPost ==
  ASSUME Typing, Places, Tracked, NEW p \in Posts, Arrive(p) \/ PostStep(p)
  PROVE  Tracked'
<1> USE DEF Typing, TypeOK, PostType, StatusType, Tracked
<1>0. /\ UNCHANGED queue => \A q \in Posts : Queued(q)' <=> Queued(q)
      /\ UNCHANGED worker => \A q \in Posts : \A pcs : InHand(q, pcs)' <=> InHand(q, pcs)
  BY DEF Queued, InHand
<1>1. server = "up" /\ UNCHANGED <<server, worker, todo>>
  BY DEF Arrive, PostStep, Lookup, Quote, Insert, Recheck, Enqueue, Rollback, mongo, Places, Quiet
<1>2. CASE Arrive(p) \/ Lookup(p) \/ Recheck(p) \/ Quote(p)
  <2>1. /\ post[p].pc \notin {"enqueue", "rollback"}
        /\ \A q \in Posts \ {p} : post'[q] = post[q]
        /\ UNCHANGED <<queue, status, left>>
    BY <1>2, ArriveMoves, GotoMoves, AnswerMoves
    DEF Arrive, Lookup, Recheck, Quote, AnswerFrom, mongo
  <2> QED
    BY <1>0, <1>1, <2>1 DEF NothingStranded, SweptOrTodo
<1>3. CASE Insert(p)
  <2>1. /\ post[p].pc = "insert"
        /\ \A q \in Posts \ {p} : post'[q] = post[q] /\ status'[q] = status[q]
        /\ \/ post'[p].pc = "enqueue" /\ status'[p] = "accepted"
           \/ status'[p] = status[p]
        /\ UNCHANGED <<queue, left>>
    BY <1>3, GotoMoves, AnswerMoves DEF Insert, SetStatus
  <2> QED
    BY <1>0, <1>1, <2>1 DEF NothingStranded, SweptOrTodo
<1>4. CASE Enqueue(p)
  <2>1. /\ \A q \in Posts \ {p} : post'[q] = post[q]
        /\ \/ Put(p) /\ left' = left
           \/ UNCHANGED queue /\ post'[p].pc = "rollback" /\ left' = left
           \/ UNCHANGED queue /\ left' = left \cup {p}
        /\ UNCHANGED status
    BY <1>4, GotoMoves, AnswerMoves DEF Enqueue, mongo
  <2>2. status[p] # "running"
    BY <1>4 DEF Enqueue, Places, Pending
  <2>3. /\ \A q \in Posts : Queued(q) => Queued(q)'
        /\ Put(p) => Queued(p)'
    BY <1>0, <2>1, PutPlaces
  <2> QED
    BY <1>0, <1>1, <2>1, <2>2, <2>3 DEF NothingStranded, SweptOrTodo
<1>5. CASE Rollback(p)
  <2>1. /\ status'[p] = "absent"
        /\ \A q \in Posts \ {p} : post'[q] = post[q] /\ status'[q] = status[q]
        /\ UNCHANGED <<queue, left>>
    BY <1>5, AnswerMoves DEF Rollback, SetStatus
  <2> QED
    BY <1>0, <1>1, <2>1 DEF NothingStranded, SweptOrTodo
<1> QED
  BY <1>2, <1>3, <1>4, <1>5 DEF PostStep

\* A step of a worker strands nothing: what it lets go of is settled or left.
LEMMA TrackedWorker ==
  ASSUME Typing, Places, Tracked, NEW w \in Workers, Take(w) \/ WorkerStep(w)
  PROVE  Tracked'
<1>t. WorkerType /\ StatusType /\ HoldsOK /\ queue \in Seq(Posts) /\ NothingStranded
  BY DEF Typing, TypeOK, WorkerType, StatusType, Tracked
<1>0. UNCHANGED queue => \A q \in Posts : Queued(q)' <=> Queued(q)
  BY DEF Queued
<1>1. server = "up" /\ server' = "up" /\ UNCHANGED post
  BY DEF Take, WorkerStep, Claim, Package, Synthesise, CheckRefusal, EmitRefusal, Settle,
         WorkerWebhook, RecordQuote, Places, Quiet, mongo
<1> SUFFICES NothingStranded'
  BY <1>1 DEF Tracked, SweptOrTodo
<1>2. CASE Take(w)
  <2>0. Head(queue) \in Posts /\ \A q \in Posts : Queued(q)' <=> Queued(q) /\ q # Head(queue)
    BY <1>t, <1>2, TakePlaces DEF Take, Places
  <2> PICK h \in Posts : h = Head(queue)
    BY <2>0
  <2>1. \A q \in Posts : Queued(q)' <=> Queued(q) /\ q # h
    BY <2>0
  <2>2. /\ worker' = [worker EXCEPT ![w] = [pc |-> "claim", obj |-> h, result |-> "none"]]
        /\ worker[w].pc = "idle" /\ UNCHANGED <<status, left>>
    BY <1>2 DEF Take, mongo
  <2>3. InHand(h, {"claim"})'
    BY <1>t, <2>2 DEF InHand, WorkerType
  <2>4. \A q \in Posts : /\ InHand(q, {"claim"}) => InHand(q, {"claim"})'
                         /\ InHand(q, Packaging) => InHand(q, Packaging)'
    BY <1>t, <2>2 DEF InHand, Packaging, WorkerType
  <2> QED
    BY <1>t, <1>1, <2>1, <2>2, <2>3, <2>4 DEF NothingStranded
<1>3. CASE Claim(w)
  <2>p. worker[w].obj \in Posts
    BY <1>t, <1>3 DEF HoldsOK, Claim
  <2> PICK o \in Posts : o = worker[w].obj
    BY <2>p
  <2>0. UNCHANGED <<queue, left>>
    BY <1>3 DEF Claim
  <2>1. worker[w].pc = "claim"
    BY <1>t, <1>3 DEF Claim, HoldsOK
  <2>2. CASE Claimable(o) /\ SetStatus(o, "running") /\ Become(w, "package", "none")
    <3>1. InHand(o, Packaging)'
      BY <1>t, <2>2 DEF Become, InHand, Packaging, WorkerType
    <3>2. \A q \in Posts \ {o} : /\ InHand(q, {"claim"}) => InHand(q, {"claim"})'
                                 /\ InHand(q, Packaging) => InHand(q, Packaging)'
      BY <1>t, <2>2, BecomeHand
    <3>3. status'[o] = "running" /\ \A q \in Posts \ {o} : status'[q] = status[q]
      BY <1>t, <2>1, <2>2 DEF SetStatus, StatusType
    <3> QED
      BY <1>t, <1>0, <1>1, <2>0, <2>1, <3>1, <3>2, <3>3 DEF NothingStranded
  <2>3. CASE ~Claimable(o) /\ UNCHANGED status /\ Rest(w)
    <3>1. \A q \in Posts : InHand(q, Packaging) => InHand(q, Packaging)'
      BY <1>t, <2>1, <2>3, RestHand DEF Packaging
    <3>2. \A q \in Posts \ {o} : InHand(q, {"claim"}) => InHand(q, {"claim"})'
      BY <1>t, <2>3, RestHand
    <3>3. status[o] # "accepted"
      BY <2>3 DEF Claimable
    <3> QED
      BY <1>t, <1>0, <1>1, <2>0, <2>1, <2>3, <3>1, <3>2, <3>3 DEF NothingStranded
  <2> QED
    BY <1>3, <2>2, <2>3 DEF Claim
<1>4. CASE Settle(w)
  <2>p. worker[w].obj \in Posts
    BY <1>t, <1>4 DEF HoldsOK, Settle
  <2> PICK o \in Posts : o = worker[w].obj
    BY <2>p
  <2>1. worker[w].pc = "settle" /\ Become(w, "webhook", worker[w].result)
    BY <1>t, <1>4 DEF Settle, HoldsOK
  <2>2. \A q \in Posts : InHand(q, {"claim"}) => InHand(q, {"claim"})'
    BY <1>t, <2>1, BecomeHand
  <2>3. \A q \in Posts \ {o} : InHand(q, Packaging) => InHand(q, Packaging)'
    BY <1>t, <2>1, BecomeHand
  <2>4. /\ \A q \in Posts \ {o} : status'[q] = status[q]
        /\ status'[o] # "running" /\ (status'[o] = "accepted" => status[o] = "accepted")
    BY <1>t, <1>4, <2>1 DEF Settle, Settleable, SetStatus, SettledAs, StatusType
  <2> QED
    BY <1>t, <1>0, <1>1, <1>4, <2>1, <2>2, <2>3, <2>4 DEF NothingStranded, Settle
<1>5. CASE Package(w) \/ Synthesise(w)
  <2>p. worker[w].obj \in Posts
    BY <1>t, <1>5 DEF HoldsOK, Package, Synthesise
  <2> PICK o \in Posts : o = worker[w].obj
    BY <2>p
  <2>1. worker[w].pc \in {"package", "synth"} /\ UNCHANGED <<status, queue>>
    BY <1>t, <1>5 DEF Package, Synthesise, HoldsOK, mongo
  <2>2. \/ left' = left /\ \E pc \in Packaging : \E result : Become(w, pc, result)
        \/ left' = left \cup {o} /\ Rest(w)
    BY <1>5 DEF Package, Synthesise, Packaging
  <2>3. \A q \in Posts : InHand(q, {"claim"}) => InHand(q, {"claim"})'
    BY <1>t, <2>1, <2>2, BecomeHand, RestHand
  <2>4. \A q \in Posts : InHand(q, Packaging) => InHand(q, Packaging)' \/ q \in left'
    BY <1>t, <2>1, <2>2, BecomeHand, RestHand
  <2> QED
    BY <1>t, <1>0, <1>1, <2>1, <2>2, <2>3, <2>4 DEF NothingStranded
<1>6. CASE CheckRefusal(w) \/ EmitRefusal(w)
  <2>1. /\ worker[w].pc \in {"check", "emit"} /\ UNCHANGED <<status, queue, left>>
        /\ \E pc \in Packaging : \E result : Become(w, pc, result)
    BY <1>6 DEF CheckRefusal, EmitRefusal, Packaging, mongo
  <2>2. \A q \in Posts : /\ InHand(q, {"claim"}) => InHand(q, {"claim"})'
                         /\ InHand(q, Packaging) => InHand(q, Packaging)'
    BY <1>t, <2>1, BecomeHand
  <2> QED
    BY <1>t, <1>0, <1>1, <2>1, <2>2 DEF NothingStranded
<1>7. CASE WorkerWebhook(w) \/ RecordQuote(w)
  <2>1. /\ worker[w].pc \in {"webhook", "quote"} /\ UNCHANGED <<status, queue, left>>
        /\ Rest(w) \/ \E pc, result : Become(w, pc, result)
    BY <1>7 DEF WorkerWebhook, RecordQuote
  <2>2. \A q \in Posts : /\ InHand(q, {"claim"}) => InHand(q, {"claim"})'
                         /\ InHand(q, Packaging) => InHand(q, Packaging)'
    BY <1>t, <2>1, BecomeHand, RestHand DEF Packaging
  <2> QED
    BY <1>t, <1>0, <1>1, <2>1, <2>2 DEF NothingStranded
<1> QED
  BY <1>2, <1>3, <1>4, <1>5, <1>6, <1>7 DEF WorkerStep

\* A step of a cancel handler strands nothing: it only takes objectives out of play.
LEMMA TrackedCancel ==
  ASSUME Typing, Places, Tracked, NEW c \in Cancels, CancelRead(c) \/ CancelStep(c)
  PROVE  Tracked'
<1>0. /\ UNCHANGED queue => \A q \in Posts : Queued(q)' <=> Queued(q)
      /\ UNCHANGED worker => \A q \in Posts : \A pcs : InHand(q, pcs)' <=> InHand(q, pcs)
  BY DEF Queued, InHand
<1>1. UNCHANGED <<server, queue, worker, post, todo, left>>
  BY DEF CancelRead, CancelStep, CancelRunning, CancelAccepted, CancelTry, CancelRefetch,
         CancelEmit, CancelWebhook, mongo
<1>2. \A q \in Posts : status'[q] = status[q] \/ status'[q] = "cancelled"
  BY DEF CancelRead, CancelStep, CancelRunning, CancelAccepted, CancelTry, CancelRefetch,
         CancelEmit, CancelWebhook, SetStatus, mongo, Typing, TypeOK
<1> QED
  BY <1>0, <1>1, <1>2 DEF Tracked, NothingStranded, SweptOrTodo, Live

\* Death strands nothing that the next startup does not find again.
LEMMA TrackedProcess ==
  ASSUME Typing, Places, Tracked, Crash \/ Startup
  PROVE  Tracked'
<1> USE DEF Typing, TypeOK, Tracked
<1>0. /\ UNCHANGED queue => \A q \in Posts : Queued(q)' <=> Queued(q)
      /\ UNCHANGED worker => \A q \in Posts : \A pcs : InHand(q, pcs)' <=> InHand(q, pcs)
  BY DEF Queued, InHand
<1>1. CASE Crash
  BY <1>1 DEF Crash, NothingStranded, SweptOrTodo
<1>2. CASE Boot
  <2>1. /\ server' = "sweeping" /\ status' = status
        /\ todo' = {p \in Posts : status[p] \in Live}
    BY <1>2 DEF Boot, RecoveryCandidates, mongo
  <2> QED
    BY <2>1 DEF NothingStranded, SweptOrTodo, Live
<1>3. CASE Serve
  BY <1>0, <1>3 DEF Serve, NothingStranded, SweptOrTodo, Live, mongo, process
<1>4. ASSUME NEW p \in Posts, Sweep(p) PROVE Tracked'
  <2>1. /\ server = "sweeping" /\ server' = "sweeping" /\ todo' = todo \ {p}
        /\ status'[p] = "accepted" /\ \A q \in Posts \ {p} : status'[q] = status[q]
        /\ \/ Put(p) /\ left' = left
           \/ UNCHANGED queue /\ left' = left \cup {p}
    BY <1>4 DEF Sweep, SetStatus
  <2>2. /\ \A q \in Posts : Queued(q) => Queued(q)'
        /\ Put(p) => Queued(p)'
    BY <1>0, <2>1, PutPlaces
  <2> QED
    BY <2>1, <2>2 DEF NothingStranded, SweptOrTodo
<1> QED
  BY <1>1, <1>2, <1>3, <1>4 DEF Startup

\* Every live objective is, while the server is up, queued, about to be queued,
\* in a worker's hands or on the list of those left for the next boot, however
\* the queue, the workers, cancels and deaths interleave.
THEOREM NothingStrandedHolds == Spec => []NothingStranded
<1>1. Init => Tracked
  BY DEF Init, Tracked, NothingStranded, SweptOrTodo
<1>2. Typing /\ Places /\ Tracked /\ [Next]_vars => Tracked'
  <2> SUFFICES ASSUME Typing, Places, Tracked, [Next]_vars PROVE Tracked'
    OBVIOUS
  <2>1. CASE UNCHANGED vars
    BY <2>1 DEF vars, Tracked, NothingStranded, SweptOrTodo, Queued, InHand
  <2> QED
    BY <2>1, TrackedPost, TrackedWorker, TrackedCancel, TrackedProcess DEF Next
<1>3. Tracked => NothingStranded
  BY DEF Tracked
<1> QED
  BY <1>1, <1>2, <1>3, Placement, PTL DEF Spec

-----------------------------------------------------------------------------
(***************************************************************************)
(* The delivery substrate implements ObjectiveLifecycle: every step is a   *)
(* step of the five-state lifecycle with one live attempt per objective,   *)
(* or leaves statuses and attempts alone.                                  *)
(***************************************************************************)

Attempts == {worker[w].obj : w \in {v \in Workers : worker[v].pc \in Packaging}}

LStep == [Lifecycle!LifecycleNext]_<<status, Attempts>>

\* The lifecycle's vocabulary, with the mapping in place.
LEMMA LifecycleDefs ==
  /\ Lifecycle!LifecycleNext <=>
       \/ \E o \in Posts : \/ Lifecycle!Admit(o) \/ Lifecycle!Withdraw(o) \/ Lifecycle!Claim(o)
                           \/ Lifecycle!Settle(o) \/ Lifecycle!Cancel(o) \/ Lifecycle!Reset(o)
       \/ Lifecycle!Restart
  /\ \A o \in Posts :
       /\ Lifecycle!Admit(o) <=>
            /\ o \notin Attempts /\ status[o] = "absent"
            /\ SetStatus(o, "accepted") /\ UNCHANGED Attempts
       /\ Lifecycle!Withdraw(o) <=>
            /\ o \notin Attempts /\ status[o] \in {"accepted", "cancelled"}
            /\ SetStatus(o, "absent") /\ UNCHANGED Attempts
       /\ Lifecycle!Claim(o) <=>
            /\ o \notin Attempts /\ status[o] = "accepted" /\ SetStatus(o, "running")
            /\ Attempts' = Attempts \cup {o}
       /\ Lifecycle!Settle(o) <=>
            /\ o \in Attempts /\ Attempts' = Attempts \ {o}
            /\ \/ status[o] = "running" /\ SetStatus(o, "delivered")
               \/ status[o] = "running" /\ SetStatus(o, "refused")
               \/ UNCHANGED status
       /\ Lifecycle!Cancel(o) <=>
            /\ status[o] \in {"accepted", "running"} /\ SetStatus(o, "cancelled")
            /\ UNCHANGED Attempts
       /\ Lifecycle!Reset(o) <=>
            /\ o \notin Attempts /\ status[o] = "running" /\ SetStatus(o, "accepted")
            /\ UNCHANGED Attempts
  /\ Lifecycle!Restart <=> Attempts' = {} /\ UNCHANGED status
BY DEF Lifecycle!LifecycleNext, Lifecycle!Admit, Lifecycle!Withdraw, Lifecycle!Claim,
       Lifecycle!Settle, Lifecycle!Cancel, Lifecycle!Reset, Lifecycle!Restart, Lifecycle!Move,
       SetStatus, Attempts

\* How the attempts change when one worker moves.
LEMMA AttemptsMove ==
  ASSUME OneAttempt, NEW w \in Workers,
         \A v \in Workers \ {w} : worker'[v] = worker[v],
         worker'[w].pc \in Packaging => worker'[w].obj = worker[w].obj
  PROVE  /\ (worker[w].pc \in Packaging <=> worker'[w].pc \in Packaging) => UNCHANGED Attempts
         /\ worker[w].pc = "claim" =>
              /\ worker[w].obj \notin Attempts
              /\ worker'[w].pc \in Packaging => Attempts' = Attempts \cup {worker[w].obj}
         /\ worker[w].pc \in Packaging =>
              /\ worker[w].obj \in Attempts
              /\ worker'[w].pc \notin Packaging => Attempts' = Attempts \ {worker[w].obj}
<1>1. "claim" # "idle" /\ "claim" \notin Packaging /\ "idle" \notin Packaging
  BY DEF Packaging
<1>2. Attempts' = {worker'[v].obj : v \in {u \in Workers : worker'[u].pc \in Packaging}}
  BY DEF Attempts, Packaging
<1> QED
  BY <1>1, <1>2 DEF Attempts, OneAttempt

\* Admission, replay and rollback.
LEMMA RefinesPost ==
  ASSUME Typing, Places, NEW p \in Posts, Arrive(p) \/ PostStep(p)
  PROVE  LStep
<1>1. UNCHANGED worker /\ UNCHANGED Attempts
  BY DEF Arrive, PostStep, Lookup, Quote, Insert, Recheck, Enqueue, Rollback, mongo, Attempts
<1>2. post[p].pc \notin {"done", "dead"} => p \notin Attempts
  BY DEF Places, Fresh, Held, Attempts, Packaging
<1>3. CASE UNCHANGED status
  BY <1>1, <1>3 DEF LStep
<1>4. CASE Insert(p) /\ SetStatus(p, "accepted")
  <2>1. status[p] = "absent"
    BY <1>4 DEF Insert, Places, Admitted
  <2>2. Lifecycle!Admit(p)
    BY <1>1, <1>2, <1>4, <2>1, LifecycleDefs DEF Insert
  <2> QED
    BY <2>2, LifecycleDefs DEF LStep
<1>5. CASE Rollback(p)
  <2>1. status[p] \in {"accepted", "cancelled"}
    BY <1>5 DEF Rollback, Places, Pending
  <2>2. Lifecycle!Withdraw(p)
    BY <1>1, <1>2, <1>5, <2>1, LifecycleDefs DEF Rollback
  <2> QED
    BY <2>2, LifecycleDefs DEF LStep
<1> QED
  BY <1>3, <1>4, <1>5
  DEF Arrive, PostStep, Lookup, Quote, Insert, Recheck, Enqueue, mongo

\* Claims, settlements and abandoned attempts.
LEMMA RefinesWorker ==
  ASSUME Typing, Places, NEW w \in Workers, Take(w) \/ WorkerStep(w)
  PROVE  LStep
<1>t. WorkerType /\ HoldsOK /\ OneAttempt
  BY DEF Typing, TypeOK, WorkerType, Places
<1>1. CASE Take(w)
  <2>1. /\ worker[w].pc \notin Packaging /\ worker'[w].pc \notin Packaging
        /\ \A v \in Workers \ {w} : worker'[v] = worker[v]
        /\ UNCHANGED status
    BY <1>t, <1>1 DEF Take, WorkerType, Packaging, mongo
  <2> QED
    BY <1>t, <2>1, AttemptsMove DEF LStep
<1>2. CASE WorkerStep(w)
  <2>p. worker[w].pc # "idle" /\ worker[w].obj \in Posts
    BY <1>t, <1>2 DEF HoldsOK, WorkerStep, Claim, Package, Synthesise, CheckRefusal, EmitRefusal,
                      Settle, WorkerWebhook, RecordQuote
  <2> PICK o \in Posts : o = worker[w].obj
    BY <2>p
  <2>1. CASE Claim(w)
    <3>1. CASE status[o] = "accepted" /\ SetStatus(o, "running") /\ Become(w, "package", "none")
      <4>1. /\ worker[w].pc = "claim" /\ worker'[w].pc \in Packaging
            /\ worker'[w].obj = worker[w].obj
            /\ \A v \in Workers \ {w} : worker'[v] = worker[v]
        BY <1>t, <2>1, <3>1, BecomeMoves DEF Claim, Packaging
      <4>2. Lifecycle!Claim(o)
        BY <1>t, <3>1, <4>1, AttemptsMove, LifecycleDefs
      <4> QED
        BY <4>2, LifecycleDefs DEF LStep
    <3>2. CASE UNCHANGED status /\ Rest(w)
      <4>1. /\ worker[w].pc \notin Packaging /\ worker'[w].pc \notin Packaging
            /\ \A v \in Workers \ {w} : worker'[v] = worker[v]
        BY <1>t, <2>1, <3>2 DEF Claim, Rest, Idle, WorkerType, Packaging
      <4> QED
        BY <1>t, <3>2, <4>1, AttemptsMove DEF LStep
    <3> QED
      BY <2>1, <3>1, <3>2 DEF Claim, Claimable
  <2>2. CASE Settle(w)
    <3>1. /\ worker[w].pc \in Packaging /\ worker'[w].pc \notin Packaging
          /\ \A v \in Workers \ {w} : worker'[v] = worker[v]
      BY <1>t, <2>2, BecomeMoves DEF Settle, Packaging
    <3>2. \/ status[o] = "running" /\ SetStatus(o, "delivered")
          \/ status[o] = "running" /\ SetStatus(o, "refused")
          \/ UNCHANGED status
      BY <2>2 DEF Settle, Settleable, SettledAs
    <3>3. Lifecycle!Settle(o)
      BY <1>t, <3>1, <3>2, AttemptsMove, LifecycleDefs
    <3> QED
      BY <3>3, LifecycleDefs DEF LStep
  <2>3. CASE Package(w) \/ Synthesise(w) \/ CheckRefusal(w) \/ EmitRefusal(w)
    <3>1. /\ worker[w].pc \in Packaging /\ UNCHANGED status
          /\ Rest(w) \/ \E pc \in Packaging : \E result : Become(w, pc, result)
      BY <2>3 DEF Package, Synthesise, CheckRefusal, EmitRefusal, Packaging, mongo
    <3>2. CASE Rest(w)
      <4>1. worker'[w].pc \notin Packaging /\ \A v \in Workers \ {w} : worker'[v] = worker[v]
        BY <1>t, <3>2 DEF Rest, Idle, WorkerType, Packaging
      <4>2. Lifecycle!Settle(o)
        BY <1>t, <3>1, <4>1, AttemptsMove, LifecycleDefs
      <4> QED
        BY <4>2, LifecycleDefs DEF LStep
    <3>3. CASE \E pc \in Packaging : \E result : Become(w, pc, result)
      BY <1>t, <3>1, <3>3, BecomeMoves, AttemptsMove DEF LStep
    <3> QED
      BY <3>1, <3>2, <3>3
  <2>4. CASE WorkerWebhook(w) \/ RecordQuote(w)
    <3>1. /\ worker[w].pc \notin Packaging /\ UNCHANGED status
          /\ Rest(w) \/ \E result : Become(w, "quote", result)
      BY <2>4 DEF WorkerWebhook, RecordQuote, Packaging
    <3>2. worker'[w].pc \notin Packaging /\ \A v \in Workers \ {w} : worker'[v] = worker[v]
      BY <1>t, <3>1, BecomeMoves DEF Rest, Idle, WorkerType, Packaging
    <3> QED
      BY <1>t, <3>1, <3>2, AttemptsMove DEF LStep
  <2> QED
    BY <1>2, <2>1, <2>2, <2>3, <2>4 DEF WorkerStep
<1> QED
  BY <1>1, <1>2

\* Cancels.
LEMMA RefinesCancel ==
  ASSUME Typing, Places, NEW c \in Cancels, CancelRead(c) \/ CancelStep(c)
  PROVE  LStep
<1>1. UNCHANGED worker /\ UNCHANGED Attempts
  BY DEF CancelRead, CancelStep, CancelRunning, CancelAccepted, CancelTry, CancelRefetch,
         CancelEmit, CancelWebhook, Attempts
<1>2. CASE UNCHANGED status
  BY <1>1, <1>2 DEF LStep
<1>3. CASE /\ status[cancel[c].obj] \in {"running", "accepted"}
           /\ SetStatus(cancel[c].obj, "cancelled")
  <2>1. CASE cancel[c].obj \in Posts
    BY <1>1, <1>3, <2>1, LifecycleDefs DEF LStep
  <2>2. CASE cancel[c].obj \notin Posts
    BY <1>2, <1>3, <2>2 DEF SetStatus, Typing, TypeOK
  <2> QED
    BY <2>1, <2>2
<1> QED
  BY <1>2, <1>3
  DEF CancelRead, CancelStep, CancelRunning, CancelAccepted, CancelTry, CancelRefetch,
      CancelEmit, CancelWebhook, mongo

\* Death ends every attempt; the sweep resets what was running.
LEMMA RefinesProcess ==
  ASSUME Typing, Places, Startup \/ Crash
  PROVE  LStep
<1>1. CASE Crash
  <2>1. Attempts' = {} /\ UNCHANGED status
    BY <1>1 DEF Crash, Attempts, Idle, Packaging, mongo
  <2> QED
    BY <2>1, LifecycleDefs DEF LStep
<1>2. CASE Boot \/ Serve
  BY <1>2 DEF Boot, Serve, LStep, Attempts, mongo, process
<1>3. ASSUME NEW p \in Posts, Sweep(p) PROVE LStep
  <2>1. UNCHANGED Attempts /\ p \notin Attempts
    BY <1>3 DEF Sweep, Attempts, Places, Quiet, Packaging
  <2>2. status[p] \in Live /\ SetStatus(p, "accepted")
    BY <1>3 DEF Sweep, Places, TodoLive
  <2>3. CASE status[p] = "running"
    BY <2>1, <2>2, <2>3, LifecycleDefs DEF LStep
  <2>4. CASE status[p] = "accepted"
    <3>1. UNCHANGED status
      BY <2>2, <2>4 DEF SetStatus, Typing, TypeOK
    <3> QED BY <2>1, <3>1 DEF LStep
  <2> QED
    BY <2>2, <2>3, <2>4 DEF Live
<1> QED
  BY <1>1, <1>2, <1>3 DEF Startup

\* The substrate implements the lifecycle: queue, workers, cancels, crashes and
\* recovery together look like one five-state machine per objective, in which
\* only the single live attempt delivers or refuses.
THEOREM Refinement == Spec => RefinesLifecycle
<1>1. Init => Lifecycle!LifecycleInit
  BY DEF Init, Lifecycle!LifecycleInit, Idle, Packaging
<1>2. Typing /\ Places /\ [Next]_vars => [Lifecycle!LifecycleNext]_(Lifecycle!vars)
  <2> SUFFICES ASSUME Typing, Places, [Next]_vars
               PROVE  [Lifecycle!LifecycleNext]_(Lifecycle!vars)
    OBVIOUS
  <2>1. CASE Next
    <3>1. LStep
      BY <2>1, RefinesPost, RefinesWorker, RefinesCancel, RefinesProcess DEF Next
    <3> QED
      BY <3>1 DEF LStep, Lifecycle!vars, Attempts, Packaging
  <2>2. CASE UNCHANGED vars
    BY <2>2 DEF vars, Lifecycle!vars, Packaging
  <2> QED
    BY <2>1, <2>2
<1> QED
  BY <1>1, <1>2, Placement, PTL DEF Spec, RefinesLifecycle, Lifecycle!LifecycleSpec

-----------------------------------------------------------------------------
(***************************************************************************)
(* What the ledger rows of an objective say about its status: the outcome  *)
(* is on record before it is a status, the worker's refusals and the       *)
(* cancellation are recorded once, and a refused admission has no rows of  *)
(* packaging.                                                              *)
(***************************************************************************)

-----------------------------------------------------------------------------
(* What a ledger write changes.                                            *)

\* Rows written by handlers rather than by workers.
HandlerRows == {"minted", "cancelled"}

\* One count goes up by one and no other count moves.
LEMMA LogMoves ==
  ASSUME LedgerType, NEW p \in Posts, NEW row \in Rows, Log(p, row)
  PROVE  /\ ledger'[p][row] = ledger[p][row] + 1
         /\ \A q \in Posts, r \in Rows : q # p \/ r # row => ledger'[q][r] = ledger[q][r]
<1> DEFINE counts == [ledger[p] EXCEPT ![row] = ledger[p][row] + 1]
<1>1. ledger[p] \in [Rows -> Nat] /\ ledger' = [ledger EXCEPT ![p] = counts]
  BY DEF LedgerType, Log
<1>2. counts[row] = ledger[p][row] + 1 /\ \A r \in Rows \ {row} : counts[r] = ledger[p][r]
  BY <1>1
<1> HIDE DEF counts
<1> QED
  BY <1>1, <1>2 DEF LedgerType

\* Handlers, deaths and startups write no row of packaging, deliver nothing and
\* refuse nothing, and a worker either stays as it was or is idle.
LEMMA HandlersLedger ==
  ASSUME Typing, Places,
         \/ \E p \in Posts : Arrive(p) \/ PostStep(p)
         \/ \E c \in Cancels : CancelRead(c) \/ CancelStep(c)
         \/ Startup
         \/ Crash
         \/ UNCHANGED vars
  PROVE  /\ \A p \in Posts, row \in Rows \ HandlerRows : ledger'[p][row] = ledger[p][row]
         /\ \A p \in Posts : status'[p] \in {"delivered", "refused"} => status'[p] = status[p]
         /\ \A w \in Workers : worker'[w] = worker[w] \/ worker'[w].pc = "idle"
<1> USE DEF Typing, TypeOK, StatusType, LedgerType
<1>0. {"minted", "cancelled"} \subseteq Rows
  BY DEF Rows
<1>1. CASE \E p \in Posts : Arrive(p) \/ PostStep(p)
  <2> PICK p \in Posts : Arrive(p) \/ PostStep(p)
    BY <1>1
  <2>1. UNCHANGED worker
    BY DEF Arrive, PostStep, Lookup, Quote, Insert, Recheck, Enqueue, Rollback, mongo
  <2>2. UNCHANGED ledger \/ Log(p, "minted")
    BY DEF Arrive, PostStep, Lookup, Quote, Insert, Recheck, Enqueue, Rollback, mongo
  <2>3. UNCHANGED status \/ SetStatus(p, "accepted") \/ SetStatus(p, "absent")
    BY DEF Arrive, PostStep, Lookup, Quote, Insert, Recheck, Enqueue, Rollback, mongo
  <2>4. \A q \in Posts, row \in Rows \ HandlerRows : ledger'[q][row] = ledger[q][row]
    BY <1>0, <2>2, LogMoves DEF HandlerRows
  <2> QED
    BY <2>1, <2>3, <2>4 DEF SetStatus
<1>2. CASE \E c \in Cancels : CancelRead(c) \/ CancelStep(c)
  <2> PICK c \in Cancels : CancelRead(c) \/ CancelStep(c)
    BY <1>2
  <2>1. UNCHANGED worker
    BY DEF CancelRead, CancelStep, CancelRunning, CancelAccepted, CancelTry, CancelRefetch,
           CancelEmit, CancelWebhook
  <2>2. UNCHANGED ledger \/ Log(cancel[c].obj, "cancelled")
    BY DEF CancelRead, CancelStep, CancelRunning, CancelAccepted, CancelTry, CancelRefetch,
           CancelEmit, CancelWebhook, mongo
  <2>3. UNCHANGED status \/ SetStatus(cancel[c].obj, "cancelled")
    BY DEF CancelRead, CancelStep, CancelRunning, CancelAccepted, CancelTry, CancelRefetch,
           CancelEmit, CancelWebhook, mongo
  <2>4. cancel[c].obj \notin Posts /\ Log(cancel[c].obj, "cancelled") => UNCHANGED ledger
    BY DEF Log
  <2>5. \A q \in Posts, row \in Rows \ HandlerRows : ledger'[q][row] = ledger[q][row]
    BY <1>0, <2>2, <2>4, LogMoves DEF HandlerRows
  <2> QED
    BY <2>1, <2>3, <2>5 DEF SetStatus
<1>3. CASE Startup
  BY <1>3 DEF Startup, Boot, Serve, Sweep, SetStatus, mongo, process
<1>4. CASE Crash
  BY <1>4 DEF Crash, Idle, mongo
<1>5. CASE UNCHANGED vars
  BY <1>5 DEF vars
<1> QED
  BY <1>1, <1>2, <1>3, <1>4, <1>5

-----------------------------------------------------------------------------
(* The outcome is on record.                                               *)

\* What the worker in hand of an objective has already put on record.
Carried ==
  \A w \in Workers :
    /\ worker[w].pc = "synth" => worker[w].result = "composed"
    /\ worker[w].pc \in {"check", "emit"} => worker[w].result \in RefusalRows
    /\ worker[w].pc = "settle" => worker[w].result \in RefusalRows \cup {"composed"}
    /\ worker[w].pc \in {"synth", "settle"} => ledger[worker[w].obj][worker[w].result] > 0
    /\ worker[w].pc = "emit" => ledger[worker[w].obj][worker[w].result] = 0

Recorded == Carried /\ OutcomeOnRecord /\ AdmissionRefusalOnce

\* A handler step leaves the record of packaging as it is.
LEMMA RecordedHandlers ==
  ASSUME Typing, Places, Recorded,
         \/ \E p \in Posts : Arrive(p) \/ PostStep(p)
         \/ \E c \in Cancels : CancelRead(c) \/ CancelStep(c)
         \/ Startup
         \/ Crash
         \/ UNCHANGED vars
  PROVE  Recorded'
<1>1. /\ \A p \in Posts, row \in Rows \ HandlerRows : ledger'[p][row] = ledger[p][row]
      /\ \A p \in Posts : status'[p] \in {"delivered", "refused"} => status'[p] = status[p]
      /\ \A w \in Workers : worker'[w] = worker[w] \/ worker'[w].pc = "idle"
  BY HandlersLedger
<1>2. RefusalRows \cup {"composed"} \subseteq Rows \ HandlerRows
  BY DEF Rows, RefusalRows, HandlerRows
<1>3. Carried'
  BY <1>1, <1>2 DEF Carried, Recorded, Typing, HoldsOK
<1>4. OutcomeOnRecord'
  BY <1>1, <1>2 DEF OutcomeOnRecord, Recorded
<1>5. AdmissionRefusalOnce'
  BY <1>1, <1>2 DEF AdmissionRefusalOnce, Recorded, RefusalRows
<1> QED
  BY <1>3, <1>4, <1>5 DEF Recorded

\* A worker's step puts the outcome on record before the status says it, and a
\* refusal of the worker's own only when it was not there.
LEMMA RecordedWorker ==
  ASSUME Typing, Places, Recorded, NEW w \in Workers, Take(w) \/ WorkerStep(w)
  PROVE  Recorded'
<1>t. WorkerType /\ LedgerType /\ StatusType /\ HoldsOK /\ OneAttempt
  BY DEF Typing, TypeOK, WorkerType, LedgerType, StatusType, Places
<1>r. Carried /\ OutcomeOnRecord /\ AdmissionRefusalOnce
  BY DEF Recorded
<1>n. RefusalRows \cup {"composed", "quote_accepted", "quote_rejected"} \subseteq Rows
      /\ RefusalRows = {"floor", "license", "standard"}
  BY DEF Rows, RefusalRows
<1>1. CASE Take(w)
  <2>1. /\ worker'[w].pc = "claim" /\ \A v \in Workers \ {w} : worker'[v] = worker[v]
        /\ UNCHANGED <<ledger, status>>
    BY <1>t, <1>1 DEF Take, WorkerType, mongo
  <2> QED
    BY <1>r, <2>1 DEF Recorded, Carried, OutcomeOnRecord, AdmissionRefusalOnce
<1>2. CASE WorkerStep(w)
  <2>p. worker[w].pc # "idle" /\ worker[w].obj \in Posts
    BY <1>t, <1>2 DEF HoldsOK, WorkerStep, Claim, Package, Synthesise, CheckRefusal, EmitRefusal,
                      Settle, WorkerWebhook, RecordQuote
  <2> PICK o \in Posts : o = worker[w].obj
    BY <2>p
  <2>o. \A v \in Workers \ {w} : worker[v].pc # "idle" => worker[v].obj \in Posts \ {o}
    BY <1>t, <2>p DEF OneAttempt, HoldsOK
  <2>d. status[o] # "absent"
    BY <2>p DEF Places, Documented, Held
  <2>1. CASE Claim(w) \/ WorkerWebhook(w)
    <3>1. /\ worker'[w].pc \in {"idle", "package", "quote"}
          /\ \A v \in Workers \ {w} : worker'[v] = worker[v]
      BY <1>t, <2>1, BecomeMoves DEF Claim, WorkerWebhook, Rest, Idle, WorkerType
    <3>2. /\ UNCHANGED ledger
          /\ \A q \in Posts : status'[q] = status[q] \/ status'[q] = "running"
      BY <1>t, <2>1 DEF Claim, WorkerWebhook, SetStatus, StatusType
    <3> QED
      BY <1>r, <3>1, <3>2 DEF Recorded, Carried, OutcomeOnRecord, AdmissionRefusalOnce
  <2>2. CASE RecordQuote(w)
    <3>1. worker'[w].pc = "idle" /\ \A v \in Workers \ {w} : worker'[v] = worker[v]
      BY <1>t, <2>2 DEF RecordQuote, Rest, Idle, WorkerType
    <3>2. UNCHANGED status /\ \E row \in {"quote_accepted", "quote_rejected"} : Log(o, row)
      BY <2>2 DEF RecordQuote
    <3>3. \A q \in Posts, r \in RefusalRows \cup {"composed"} : ledger'[q][r] = ledger[q][r]
      BY <1>t, <1>n, <3>2, LogMoves
    <3> QED
      BY <1>t, <1>r, <1>n, <3>1, <3>2, <3>3
      DEF Recorded, Carried, OutcomeOnRecord, AdmissionRefusalOnce, HoldsOK
  <2>3. CASE Package(w)
    <3>1. /\ UNCHANGED status
          /\ \/ Log(o, "composed") /\ Become(w, "synth", "composed")
             \/ Log(o, "floor") /\ Become(w, "check", "floor")
             \/ UNCHANGED ledger /\ \E result \in {"license", "standard"} :
                                      Become(w, "check", result)
             \/ UNCHANGED ledger /\ Rest(w)
      BY <2>3 DEF Package
    <3>2. \A q \in Posts, r \in RefusalRows \cup {"composed"} :
            /\ ledger'[q][r] >= ledger[q][r] /\ ledger'[q][r] \in Nat /\ ledger[q][r] \in Nat
            /\ q # o \/ r \in {"license", "standard"} => ledger'[q][r] = ledger[q][r]
      BY <1>t, <1>n, <3>1, LogMoves DEF LedgerType
    <3>3. /\ \A v \in Workers \ {w} : worker'[v] = worker[v]
          /\ \/ worker'[w].pc = "idle"
             \/ worker'[w].pc = "check" /\ worker'[w].result \in RefusalRows
             \/ /\ worker'[w].pc = "synth" /\ worker'[w].result = "composed"
                /\ worker'[w].obj = o /\ ledger'[o]["composed"] > 0
      <4>1. CASE Log(o, "composed") /\ Become(w, "synth", "composed")
        BY <1>t, <1>n, <4>1, BecomeMoves, LogMoves DEF LedgerType
      <4>2. CASE \E result \in {"floor", "license", "standard"} : Become(w, "check", result)
        BY <1>t, <1>n, <4>2, BecomeMoves
      <4>3. CASE Rest(w)
        BY <1>t, <4>3 DEF Rest, Idle, WorkerType
      <4> QED
        BY <3>1, <4>1, <4>2, <4>3
    <3>4. Carried'
      BY <1>r, <1>n, <2>o, <3>2, <3>3 DEF Carried
    <3> QED
      BY <1>r, <1>n, <3>1, <3>2, <3>4 DEF Recorded, OutcomeOnRecord, AdmissionRefusalOnce
  <2>4. CASE Synthesise(w)
    <3>1. /\ \A v \in Workers \ {w} : worker'[v] = worker[v]
          /\ \/ worker'[w].pc = "idle"
             \/ /\ worker[w].pc = "synth" /\ worker'[w].pc = "settle"
                /\ worker'[w].result = worker[w].result /\ worker'[w].obj = worker[w].obj
      BY <1>t, <2>4, BecomeMoves DEF Synthesise, Rest, Idle, WorkerType
    <3>2. UNCHANGED <<status, ledger>>
      BY <2>4 DEF Synthesise, mongo
    <3> QED
      BY <1>r, <3>1, <3>2 DEF Recorded, Carried, OutcomeOnRecord, AdmissionRefusalOnce
  <2>5. CASE CheckRefusal(w)
    <3>1. /\ worker[w].pc = "check" /\ UNCHANGED <<status, ledger>>
          /\ \A v \in Workers \ {w} : worker'[v] = worker[v]
          /\ worker'[w].result = worker[w].result /\ worker'[w].obj = o
          /\ worker'[w].pc = IF RefusalRowExists(o, worker[w].result) THEN "settle" ELSE "emit"
      BY <1>t, <2>5, BecomeMoves DEF CheckRefusal, mongo
    <3>2. /\ worker'[w].pc = "settle" => ledger[o][worker[w].result] > 0
          /\ worker'[w].pc = "emit" => ledger[o][worker[w].result] = 0
      BY <1>t, <1>r, <1>n, <2>d, <3>1 DEF RefusalRowExists, Carried, LedgerType
    <3> QED
      BY <1>r, <3>1, <3>2 DEF Recorded, Carried, OutcomeOnRecord, AdmissionRefusalOnce
  <2>6. CASE EmitRefusal(w)
    <3> DEFINE row == worker[w].result
    <3>1. /\ worker[w].pc = "emit" /\ UNCHANGED status /\ Log(o, row)
          /\ \A v \in Workers \ {w} : worker'[v] = worker[v]
          /\ worker'[w].result = row /\ worker'[w].obj = o /\ worker'[w].pc = "settle"
      BY <1>t, <2>6, BecomeMoves DEF EmitRefusal
    <3>2. row \in RefusalRows /\ ledger[o][row] = 0
      BY <1>r, <3>1 DEF Carried
    <3>3. /\ ledger'[o][row] = 1
          /\ \A q \in Posts, r \in Rows : q # o \/ r # row => ledger'[q][r] = ledger[q][r]
      BY <1>t, <1>n, <3>1, <3>2, LogMoves
    <3>4. Carried'
      BY <1>r, <1>n, <2>o, <3>1, <3>2, <3>3 DEF Carried
    <3>5. OutcomeOnRecord'
      BY <1>r, <1>n, <3>1, <3>2, <3>3 DEF OutcomeOnRecord
    <3>6. AdmissionRefusalOnce'
      BY <1>r, <1>n, <3>2, <3>3 DEF AdmissionRefusalOnce
    <3> QED
      BY <3>4, <3>5, <3>6 DEF Recorded
  <2>7. CASE Settle(w)
    <3>1. /\ worker[w].pc = "settle" /\ UNCHANGED ledger
          /\ \A v \in Workers \ {w} : worker'[v] = worker[v]
          /\ worker'[w].pc = "webhook"
          /\ \A q \in Posts : status'[q] = status[q]
                              \/ (q = o /\ status'[q] = SettledAs(worker[w].result))
      BY <1>t, <2>7, BecomeMoves DEF Settle, SetStatus, StatusType
    <3>2. worker[w].result \in RefusalRows \cup {"composed"} /\ ledger[o][worker[w].result] > 0
      BY <1>r, <3>1 DEF Carried
    <3>3. /\ SettledAs(worker[w].result) = "delivered" => ledger[o]["composed"] > 0
          /\ SettledAs(worker[w].result) = "refused" => \E row \in RefusalRows : ledger[o][row] > 0
      BY <3>2 DEF SettledAs
    <3> QED
      BY <1>r, <3>1, <3>3 DEF Recorded, Carried, OutcomeOnRecord, AdmissionRefusalOnce
  <2> QED
    BY <1>2, <2>1, <2>2, <2>3, <2>4, <2>5, <2>6, <2>7 DEF WorkerStep
<1> QED
  BY <1>1, <1>2

\* The record of packaging is kept by every step.
LEMMA RecordedHolds == Spec => []Recorded
<1>1. Init => Recorded
  BY DEF Init, Recorded, Carried, OutcomeOnRecord, AdmissionRefusalOnce, Idle, Rows, RefusalRows
<1>2. Typing /\ Places /\ Recorded /\ [Next]_vars => Recorded'
  BY RecordedHandlers, RecordedWorker DEF Next
<1> QED
  BY <1>1, <1>2, Placement, PTL DEF Spec

\* Write-ahead: a delivered objective has a converge row and a refused one a
\* refusal row, also when the attempt that wrote the row died first.
THEOREM OutcomeOnRecordHolds == Spec => []OutcomeOnRecord
<1>1. Recorded => OutcomeOnRecord
  BY DEF Recorded
<1> QED
  BY <1>1, RecordedHolds, PTL

\* The check of _refusal_row_exists_for_objective suffices: the worker's own
\* refusal of an objective is on record at most once per reason, however many
\* attempts crashes cause.
THEOREM AdmissionRefusalOnceHolds == Spec => []AdmissionRefusalOnce
<1>1. Recorded => AdmissionRefusalOnce
  BY DEF Recorded
<1> QED
  BY <1>1, RecordedHolds, PTL

-----------------------------------------------------------------------------
(* A refused admission has no rows of packaging.                           *)

\* POST /objectives answered 503 for p, after deleting its document.
RolledBack(p) == post[p].answer = "saturated" /\ post[p].door = "objectives"

\* An objective no worker can know of, yet or any more.
Spared(p) == post[p].pc \notin {"done", "dead"} \/ RolledBack(p)

Untouched ==
  \A p \in Posts :
    /\ RolledBack(p) => post[p].pc = "done" /\ status[p] = "absent"
    /\ Spared(p) => \A row \in Rows \ HandlerRows : ledger[p][row] = 0

\* A handler step spares what was spared.
LEMMA UntouchedPost ==
  ASSUME Typing, Places, Untouched, NEW p \in Posts, Arrive(p) \/ PostStep(p)
  PROVE  Untouched'
<1>t. PostType /\ StatusType
  BY DEF Typing, TypeOK, PostType, StatusType
<1>1. \A q \in Posts, row \in Rows \ HandlerRows : ledger'[q][row] = ledger[q][row]
  BY HandlersLedger
<1>2. /\ \A q \in Posts \ {p} : post'[q] = post[q] /\ status'[q] = status[q]
      /\ Spared(p)
      /\ RolledBack(p)' => post'[p].pc = "done" /\ status'[p] = "absent"
  <2>0. ~RolledBack(p) \/ post[p].pc = "done"
    BY DEF Untouched
  <2>1. CASE Arrive(p)
    BY <1>t, <2>0, <2>1, ArriveMoves DEF Arrive, mongo, Spared, RolledBack
  <2>2. CASE Lookup(p) \/ Recheck(p) \/ Quote(p)
    BY <1>t, <2>0, <2>2, GotoMoves, AnswerMoves
    DEF Lookup, Recheck, Quote, AnswerFrom, mongo, Spared, RolledBack
  <2>3. CASE Insert(p)
    BY <1>t, <2>0, <2>3, GotoMoves, AnswerMoves DEF Insert, SetStatus, StatusType, Spared, RolledBack
  <2>4. CASE Enqueue(p)
    BY <1>t, <2>0, <2>4, GotoMoves, AnswerMoves DEF Enqueue, mongo, Spared, RolledBack
  <2>5. CASE Rollback(p)
    BY <1>t, <2>0, <2>5, AnswerMoves DEF Rollback, SetStatus, StatusType, Spared, RolledBack
  <2> QED
    BY <2>1, <2>2, <2>3, <2>4, <2>5 DEF PostStep
<1>3. \A q \in Posts : Spared(q)' => Spared(q)
  BY <1>2 DEF Spared, RolledBack
<1>4. \A q \in Posts : RolledBack(q)' => post'[q].pc = "done" /\ status'[q] = "absent"
  BY <1>2 DEF Untouched, RolledBack
<1> QED
  BY <1>1, <1>3, <1>4 DEF Untouched

\* A worker writes rows and statuses only of what it holds, and that is not spared.
LEMMA UntouchedWorker ==
  ASSUME Typing, Places, Untouched, NEW w \in Workers, Take(w) \/ WorkerStep(w)
  PROVE  Untouched'
<1>t. LedgerType /\ StatusType /\ HoldsOK
  BY DEF Typing, TypeOK, LedgerType, StatusType
<1>1. UNCHANGED post
  BY DEF Take, WorkerStep, Claim, Package, Synthesise, CheckRefusal, EmitRefusal, Settle,
         WorkerWebhook, RecordQuote
<1>2. CASE Take(w)
  BY <1>1, <1>2 DEF Take, mongo, Untouched, Spared, RolledBack
<1>3. CASE WorkerStep(w)
  <2>p. worker[w].pc # "idle" /\ worker[w].obj \in Posts
    BY <1>t, <1>3 DEF HoldsOK, WorkerStep, Claim, Package, Synthesise, CheckRefusal, EmitRefusal,
                      Settle, WorkerWebhook, RecordQuote
  <2> PICK o \in Posts : o = worker[w].obj
    BY <2>p
  <2>1. status[o] # "absent" /\ post[o].pc \in {"done", "dead"}
    BY <2>p DEF Places, Documented, Fresh, Held
  <2>2. ~Spared(o)
    BY <2>1 DEF Spared, Untouched
  <2>3. UNCHANGED ledger \/ \E row : Log(o, row)
    BY <1>3 DEF WorkerStep, Claim, Package, Synthesise, CheckRefusal, EmitRefusal, Settle,
                WorkerWebhook, RecordQuote, mongo
  <2>4. UNCHANGED status \/ \E s : SetStatus(o, s)
    BY <1>3 DEF WorkerStep, Claim, Package, Synthesise, CheckRefusal, EmitRefusal, Settle,
                WorkerWebhook, RecordQuote, mongo
  <2>5. \A q \in Posts \ {o} : ledger'[q] = ledger[q] /\ status'[q] = status[q]
    BY <1>t, <2>3, <2>4 DEF Log, SetStatus, LedgerType, StatusType
  <2> QED
    BY <1>1, <2>2, <2>5 DEF Untouched, Spared, RolledBack
<1> QED
  BY <1>2, <1>3

\* Cancels, deaths and startups touch no document that does not exist.
LEMMA UntouchedOthers ==
  ASSUME Typing, Places, Untouched,
         \/ \E c \in Cancels : CancelRead(c) \/ CancelStep(c)
         \/ Startup
         \/ Crash
         \/ UNCHANGED vars
  PROVE  Untouched'
<1>t. PostType /\ StatusType /\ todo \in SUBSET Posts
  BY DEF Typing, TypeOK, PostType, StatusType
<1>1. \A q \in Posts, row \in Rows \ HandlerRows : ledger'[q][row] = ledger[q][row]
  BY HandlersLedger
<1>2. \A q \in Posts : status[q] = "absent" => status'[q] = "absent"
  <2>1. CASE \E c \in Cancels : CancelRead(c) \/ CancelStep(c)
    BY <1>t, <2>1 DEF CancelRead, CancelStep, CancelRunning, CancelAccepted, CancelTry, CancelRefetch,
                CancelEmit, CancelWebhook, SetStatus, StatusType, mongo
  <2>2. CASE Startup
    BY <1>t, <2>2 DEF Startup, Boot, Serve, Sweep, SetStatus, StatusType, mongo, Places, TodoLive, Live
  <2>3. CASE Crash \/ UNCHANGED vars
    BY <2>3 DEF Crash, mongo, vars
  <2> QED BY <2>1, <2>2, <2>3
<1>3. ASSUME NEW q \in Posts
      PROVE  /\ post'[q].answer = post[q].answer /\ post'[q].door = post[q].door
             /\ post'[q].pc = post[q].pc \/ (post[q].pc \notin {"new", "done"} /\ post'[q].pc = "dead")
  <2>1. CASE UNCHANGED post
    BY <2>1
  <2>2. CASE Crash
    <3>1. post[q] \in PostRecords /\ post'[q] = IF post[q].pc \in {"new", "done"} THEN post[q]
                                                ELSE [post[q] EXCEPT !.pc = "dead"]
      BY <1>t, <2>2 DEF Crash, PostType
    <3> QED BY <3>1 DEF PostRecords
  <2> QED
    BY <2>1, <2>2 DEF CancelRead, CancelStep, CancelRunning, CancelAccepted, CancelTry,
         CancelRefetch, CancelEmit, CancelWebhook, Startup, Boot, Serve, Sweep, process, vars
<1>4. \A q \in Posts : /\ RolledBack(q)' => RolledBack(q) /\ post'[q].pc = "done"
                       /\ Spared(q)' => Spared(q)
  BY <1>3 DEF Spared, RolledBack, Untouched
<1> QED
  BY <1>1, <1>2, <1>4 DEF Untouched

\* A request that POST /objectives answered with 503 has no row of packaging,
\* now or after any restart: the rollback leaves nothing that could still run.
THEOREM SaturatedNeverRunsHolds == Spec => []SaturatedNeverRuns
<1>1. Init => Untouched
  BY DEF Init, Untouched, Spared, RolledBack
<1>2. Typing /\ Places /\ Untouched /\ [Next]_vars => Untouched'
  BY UntouchedPost, UntouchedWorker, UntouchedOthers DEF Next
<1>3. Untouched => SaturatedNeverRuns
  BY DEF Untouched, Spared, RolledBack, SaturatedNeverRuns, HandlerRows
<1> QED
  BY <1>1, <1>2, <1>3, Placement, PTL DEF Spec

-----------------------------------------------------------------------------
(* Cancellations are ledgered once, and truthfully.                        *)

\* The objective a client was told of, and cancels, is one of the objectives.
Named ==
  /\ \A p \in Posts : post[p].answer = "accepted" => post[p].obj \in Posts
  /\ \A c \in Cancels : cancel[c].pc # "new" => cancel[c].obj \in Posts

Emitting(c, p) == cancel[c].pc = "emit" /\ cancel[c].obj = p

\* A cancellation that is, or is about to be, on the ledger has been won.
Won ==
  \A p \in Posts :
    ledger[p]["cancelled"] > 0 \/ (\E c \in Cancels : Emitting(c, p)) =>
      status[p] = "cancelled" \/ (status[p] = "absent" /\ post[p].pc = "done")

\* It is won by one handler, which writes the row once.
WonOnce ==
  \A p \in Posts :
    /\ ledger[p]["cancelled"] <= 1
    /\ \A c, d \in Cancels : Emitting(c, p) => /\ ledger[p]["cancelled"] = 0
                                               /\ Emitting(d, p) => c = d

Cancelled == Named /\ Won /\ WonOnce

\* The cancelled row of an objective changes in CancelEmit only, and a cancelled
\* objective stays cancelled or is deleted by its own handler.
LEMMA CancelledOthers ==
  ASSUME Typing, Places, Won, WonOnce, [Next]_vars,
         \A c \in Cancels, p \in Posts : Emitting(c, p)' => Emitting(c, p),
         \A p \in Posts : ledger'[p]["cancelled"] = ledger[p]["cancelled"],
         \A p \in Posts : post[p].pc = "done" => post'[p].pc = "done",
         \A p \in Posts : post[p].pc = "rollback" /\ status'[p] # status[p] => post'[p].pc = "done",
         \A p \in Posts : status[p] = "absent" /\ post[p].pc = "done" => status'[p] = "absent"
  PROVE  Won' /\ WonOnce'
<1>1. \A p \in Posts : status[p] = "cancelled" =>
        status'[p] = "cancelled" \/ (status'[p] = "absent" /\ post'[p].pc = "done")
  <2> SUFFICES ASSUME NEW p \in Posts, status[p] = "cancelled", status'[p] # status[p]
               PROVE  status'[p] = "absent" /\ post'[p].pc = "done"
    OBVIOUS
  <2>1. ~UNCHANGED vars
    BY DEF vars
  <2> QED BY <2>1, StatusMoves DEF Live
<1>2. Won'
  BY <1>1 DEF Won
<1>3. WonOnce'
  BY DEF WonOnce
<1> QED
  BY <1>2, <1>3

\* A POST handler announces its own objective or one that has a document.
LEMMA CancelledPost ==
  ASSUME Typing, Places, Cancelled, NEW p \in Posts, Arrive(p) \/ PostStep(p)
  PROVE  Cancelled'
<1>t. PostType /\ StatusType /\ LedgerType
  BY DEF Typing, TypeOK, PostType, StatusType, LedgerType
<1>1. UNCHANGED cancel /\ [Next]_vars
  BY DEF Arrive, PostStep, Lookup, Quote, Insert, Recheck, Enqueue, Rollback, Next, mongo
<1>2. /\ \A q \in Posts \ {p} : post'[q] = post[q] /\ status'[q] = status[q]
      /\ post[p].pc # "done"
      /\ post[p].pc = "rollback" /\ status'[p] # status[p] => post'[p].pc = "done"
      /\ post'[p].answer = "accepted" => post'[p].obj \in Posts
  <2>0. post[p].answer = "accepted" => post[p].obj \in Posts
    BY DEF Cancelled, Named
  <2>1. CASE Arrive(p)
    BY <1>t, <2>0, <2>1, ArriveMoves DEF Arrive, mongo
  <2>2. CASE Lookup(p) \/ Recheck(p) \/ Quote(p)
    BY <1>t, <2>0, <2>2, GotoMoves, AnswerMoves
    DEF Lookup, Recheck, Quote, AnswerFrom, DocumentsWith, Documents, mongo
  <2>3. CASE Insert(p)
    BY <1>t, <2>0, <2>3, GotoMoves, AnswerMoves DEF Insert, SetStatus, StatusType
  <2>4. CASE Enqueue(p)
    BY <1>t, <2>0, <2>4, GotoMoves, AnswerMoves DEF Enqueue, mongo
  <2>5. CASE Rollback(p)
    BY <1>t, <2>0, <2>5, AnswerMoves DEF Rollback, SetStatus, StatusType
  <2> QED
    BY <2>1, <2>2, <2>3, <2>4, <2>5 DEF PostStep
<1>3. Named'
  BY <1>1, <1>2 DEF Cancelled, Named
<1>4. \A q \in Posts : ledger'[q]["cancelled"] = ledger[q]["cancelled"]
  <2>1. UNCHANGED ledger \/ Log(p, "minted")
    BY DEF Arrive, PostStep, Lookup, Quote, Insert, Recheck, Enqueue, Rollback, mongo
  <2> QED BY <1>t, <2>1, LogMoves DEF Rows
<1> QED
  BY <1>1, <1>2, <1>3, <1>4, CancelledOthers DEF Cancelled, Emitting

\* A worker writes no cancellation.
LEMMA CancelledWorker ==
  ASSUME Typing, Places, Recorded, Cancelled, NEW w \in Workers, Take(w) \/ WorkerStep(w)
  PROVE  Cancelled'
<1>t. LedgerType /\ StatusType /\ HoldsOK /\ WorkerType
  BY DEF Typing, TypeOK, LedgerType, StatusType, WorkerType
<1>1. UNCHANGED <<post, cancel>> /\ [Next]_vars
  BY DEF Take, WorkerStep, Claim, Package, Synthesise, CheckRefusal, EmitRefusal, Settle,
         WorkerWebhook, RecordQuote, Next
<1>2. \A q \in Posts : status[q] = "absent" => status'[q] = "absent"
  <2>1. \A q \in Posts : Held(q) => status[q] # "absent"
    BY DEF Places, Documented
  <2> QED
    BY <1>t, <2>1 DEF Take, WorkerStep, Claim, Claimable, Package, Synthesise, CheckRefusal, EmitRefusal,
        Settle, Settleable, WorkerWebhook, RecordQuote, SetStatus, StatusType, mongo
<1>3. \A q \in Posts : post[q].pc = "rollback" => status'[q] = status[q]
  <2>1. \A q \in Posts : post[q].pc = "rollback" => ~Held(q)
    BY DEF Places, Fresh
  <2>2. UNCHANGED status \/ \E s : worker[w].pc # "idle" /\ SetStatus(worker[w].obj, s)
    BY DEF Take, WorkerStep, Claim, Package, Synthesise, CheckRefusal, EmitRefusal, Settle,
           WorkerWebhook, RecordQuote, mongo
  <2> QED
    BY <1>t, <2>1, <2>2 DEF Held, SetStatus, StatusType
<1>4. \A q \in Posts : ledger'[q]["cancelled"] = ledger[q]["cancelled"]
  <2>1. UNCHANGED ledger \/ \E row \in Rows \ {"cancelled"} : worker[w].pc # "idle"
                                                             /\ Log(worker[w].obj, row)
    <3>1. CASE EmitRefusal(w)
      <4>1. worker[w].pc = "emit" /\ Log(worker[w].obj, worker[w].result)
        BY <3>1 DEF EmitRefusal
      <4> QED
        BY <4>1 DEF Recorded, Carried, RefusalRows, Rows
    <3> QED
      BY <3>1 DEF Take, WorkerStep, Claim, Package, Synthesise, CheckRefusal, Settle, WorkerWebhook,
             RecordQuote, Rows, RefusalRows, mongo
  <2> QED
    BY <1>t, <2>1, LogMoves DEF HoldsOK, Rows
<1>5. Named'
  BY <1>1 DEF Cancelled, Named
<1> QED
  BY <1>1, <1>2, <1>3, <1>4, <1>5, CancelledOthers DEF Cancelled, Emitting

\* What moving a cancel handler on, or answering it, changes.
LEMMA CancelMoves ==
  ASSUME CancelType, NEW c \in Cancels, NEW pc,
         \/ CancelGoto(c, pc)
         \/ pc = "done" /\ \E answer : CancelAnswer(c, answer)
  PROVE  /\ cancel'[c].pc = pc /\ cancel'[c].obj = cancel[c].obj
         /\ \A d \in Cancels \ {c} : cancel'[d] = cancel[d]
<1>1. cancel[c] \in CancelRecords
  BY DEF CancelType
<1>2. CASE CancelGoto(c, pc)
  <2>1. /\ [cancel[c] EXCEPT !.pc = pc].pc = pc
        /\ [cancel[c] EXCEPT !.pc = pc].obj = cancel[c].obj
    BY <1>1 DEF CancelRecords
  <2> QED BY <1>1, <1>2, <2>1 DEF CancelType, CancelGoto
<1>3. ASSUME NEW answer, CancelAnswer(c, answer), pc = "done"
      PROVE  /\ cancel'[c].pc = pc /\ cancel'[c].obj = cancel[c].obj
             /\ \A d \in Cancels \ {c} : cancel'[d] = cancel[d]
  <2> DEFINE done == [cancel[c] EXCEPT !.pc = "done", !.answer = answer]
  <2>1. done.pc = "done" /\ done.obj = cancel[c].obj
    BY <1>1 DEF CancelRecords
  <2>2. cancel' = [cancel EXCEPT ![c] = done]
    BY <1>3 DEF CancelAnswer
  <2> HIDE DEF done
  <2> QED BY <1>3, <2>1, <2>2 DEF CancelType
<1> QED
  BY <1>2, <1>3

\* A cancel handler records what it has won, once.
LEMMA CancelledCancel ==
  ASSUME Typing, Places, Cancelled, NEW c \in Cancels, CancelRead(c) \/ CancelStep(c)
  PROVE  Cancelled'
<1>t. CancelType /\ StatusType /\ LedgerType
  BY DEF Typing, TypeOK, CancelType, StatusType, LedgerType
<1>i. Named /\ Won /\ WonOnce
  BY DEF Cancelled
<1>1. UNCHANGED post
  BY DEF CancelRead, CancelStep, CancelRunning, CancelAccepted, CancelTry, CancelRefetch,
         CancelEmit, CancelWebhook
<1>2. CASE CancelRead(c)
  <2>1. /\ \A d \in Cancels \ {c} : cancel'[d] = cancel[d]
        /\ cancel'[c].pc # "emit" /\ cancel'[c].obj \in Posts
        /\ UNCHANGED <<status, ledger>>
    BY <1>t, <1>i, <1>2 DEF CancelRead, Announced, Named, CancelType, mongo
  <2>2. \A d \in Cancels, p \in Posts : Emitting(d, p)' => Emitting(d, p)
    BY <2>1 DEF Emitting
  <2> QED
    BY <1>1, <1>i, <2>1, <2>2 DEF Cancelled, Named, Won, WonOnce
<1>3. CASE CancelStep(c)
  <2>p. cancel[c].pc \notin {"new", "done"} /\ cancel[c].obj \in Posts
    BY <1>i, <1>3 DEF Named, CancelStep, CancelRunning, CancelAccepted, CancelTry, CancelRefetch,
                      CancelEmit, CancelWebhook
  <2> PICK o \in Posts : o = cancel[c].obj
    BY <2>p
  <2>1. CASE \E pc, from, next : CancelTry(c, pc, from, next) /\ from \in Live
                                 /\ pc # "emit" /\ next # "emit" /\ status[o] = from
    <3>1. /\ \A d \in Cancels \ {c} : cancel'[d] = cancel[d]
          /\ cancel'[c].pc = "emit" /\ cancel'[c].obj = o /\ cancel[c].pc # "emit"
          /\ UNCHANGED ledger /\ status[o] \in Live
          /\ status'[o] = "cancelled" /\ \A q \in Posts \ {o} : status'[q] = status[q]
      BY <1>t, <2>1, CancelMoves DEF CancelTry, SetStatus, StatusType
    <3>2. ledger[o]["cancelled"] = 0 /\ \A d \in Cancels : ~Emitting(d, o)
      BY <1>t, <1>i, <3>1 DEF Won, Live, LedgerType, Rows
    <3>3. /\ \A d \in Cancels, q \in Posts \ {o} : Emitting(d, q)' => Emitting(d, q)
          /\ \A d \in Cancels : Emitting(d, o)' => d = c
      BY <3>1, <3>2 DEF Emitting
    <3>4. Won'
      BY <1>1, <1>i, <3>1, <3>3 DEF Won
    <3>5. WonOnce'
      BY <1>i, <3>1, <3>2, <3>3 DEF WonOnce
    <3> QED
      BY <1>1, <1>i, <3>1, <3>4, <3>5 DEF Cancelled, Named
  <2>2. CASE /\ \A d \in Cancels \ {c} : cancel'[d] = cancel[d]
             /\ cancel'[c].pc \notin {"new", "emit"} /\ cancel'[c].obj = o
             /\ UNCHANGED <<status, ledger>>
    <3>1. \A d \in Cancels, p \in Posts : Emitting(d, p)' => Emitting(d, p)
      BY <2>2 DEF Emitting
    <3> QED
      BY <1>1, <1>i, <2>2, <3>1 DEF Cancelled, Named, Won, WonOnce
  <2>3. CASE CancelEmit(c)
    <3>1. /\ \A d \in Cancels \ {c} : cancel'[d] = cancel[d]
          /\ cancel'[c].pc = "webhook" /\ cancel'[c].obj = o /\ Emitting(c, o)
          /\ UNCHANGED status /\ Log(o, "cancelled")
      BY <1>t, <2>3, CancelMoves DEF CancelEmit, Emitting
    <3>a. ledger[o]["cancelled"] = 0 /\ \A d \in Cancels : Emitting(d, o) => d = c
      BY <1>i, <3>1 DEF WonOnce
    <3>b. "cancelled" \in Rows
      BY DEF Rows
    <3>2. /\ ledger[o]["cancelled"] = 0 /\ ledger'[o]["cancelled"] = 1
          /\ \A q \in Posts \ {o} : ledger'[q]["cancelled"] = ledger[q]["cancelled"]
      BY <1>t, <3>1, <3>a, <3>b, LogMoves
    <3>3. /\ \A d \in Cancels, q \in Posts : Emitting(d, q)' => Emitting(d, q)
          /\ \A d \in Cancels : ~Emitting(d, o)'
      BY <3>1, <3>a DEF Emitting
    <3>4. Won'
      BY <1>1, <1>i, <3>1, <3>2, <3>3 DEF Won
    <3>5. WonOnce'
      BY <1>i, <3>2, <3>3 DEF WonOnce
    <3> QED
      BY <1>1, <1>i, <3>1, <3>4, <3>5 DEF Cancelled, Named
  <2>4. CASE CancelRefetch(c) \/ CancelWebhook(c)
    <3>1. (\E answer : CancelAnswer(c, answer)) /\ UNCHANGED <<status, ledger>>
      BY <2>4 DEF CancelRefetch, CancelWebhook, mongo
    <3>2. /\ cancel'[c].pc = "done" /\ cancel'[c].obj = o
          /\ \A d \in Cancels \ {c} : cancel'[d] = cancel[d]
      BY <1>t, <3>1, CancelMoves
    <3> QED
      BY <2>2, <3>1, <3>2
  <2>5. CASE CancelRunning(c) \/ CancelAccepted(c)
    <3>1. PICK pc, from, next : CancelTry(c, pc, from, next) /\ from \in Live
            /\ pc \in {"try_running", "try_accepted"} /\ next \in {"try_accepted", "refetch"}
      BY <2>5 DEF CancelRunning, CancelAccepted, Live
    <3>2. CASE status[o] = from
      BY <2>1, <3>1, <3>2
    <3>3. CASE status[o] # from
      <4>1. CancelGoto(c, next) /\ UNCHANGED <<status, ledger>>
        BY <3>1, <3>3 DEF CancelTry
      <4>2. /\ cancel'[c].pc = next /\ cancel'[c].obj = o
            /\ \A d \in Cancels \ {c} : cancel'[d] = cancel[d]
        BY <1>t, <4>1, CancelMoves
      <4> QED
        BY <2>2, <3>1, <4>1, <4>2
    <3> QED
      BY <3>2, <3>3
  <2> QED
    BY <1>3, <2>3, <2>4, <2>5 DEF CancelStep
<1> QED
  BY <1>2, <1>3

\* A death ends cancel handlers, and a startup revives none.
LEMMA CancelledProcess ==
  ASSUME Typing, Places, Cancelled, Startup \/ Crash \/ UNCHANGED vars
  PROVE  Cancelled'
<1>t. PostType /\ StatusType /\ CancelType /\ todo \in SUBSET Posts
  BY DEF Typing, TypeOK, PostType, StatusType, CancelType
<1>1. /\ \A p \in Posts : /\ post'[p].answer = post[p].answer /\ post'[p].obj = post[p].obj
                          /\ post[p].pc = "done" => post'[p].pc = "done"
                          /\ post[p].pc = "rollback" => status'[p] = status[p]
      /\ \A c \in Cancels : /\ cancel'[c].obj = cancel[c].obj
                            /\ cancel'[c].pc \in {cancel[c].pc, "dead"}
                            /\ cancel[c].pc = "new" => cancel'[c].pc = "new"
      /\ UNCHANGED ledger
      /\ \A p \in Posts : status[p] = "absent" => status'[p] = "absent"
  <2>1. CASE Crash
    <3>1. \A p \in Posts : post[p] \in PostRecords
                          /\ post'[p] = IF post[p].pc \in {"new", "done"} THEN post[p]
                                        ELSE [post[p] EXCEPT !.pc = "dead"]
      BY <1>t, <2>1 DEF Crash, PostType
    <3>2. \A p \in Posts : /\ post'[p].answer = post[p].answer /\ post'[p].obj = post[p].obj
                           /\ post[p].pc = "done" => post'[p].pc = "done"
      BY <3>1 DEF PostRecords
    <3>3. \A c \in Cancels : cancel[c] \in CancelRecords
                            /\ cancel'[c] = IF cancel[c].pc \in {"new", "done"} THEN cancel[c]
                                            ELSE [cancel[c] EXCEPT !.pc = "dead"]
      BY <1>t, <2>1 DEF Crash, CancelType
    <3>4. \A c \in Cancels : /\ cancel'[c].obj = cancel[c].obj
                             /\ cancel'[c].pc \in {cancel[c].pc, "dead"}
                             /\ cancel[c].pc = "new" => cancel'[c].pc = "new"
      BY <3>3 DEF CancelRecords
    <3> QED BY <2>1, <3>2, <3>4 DEF Crash, mongo
  <2>2. CASE Startup
    <3>1. UNCHANGED <<post, cancel, ledger>>
      BY <2>2 DEF Startup, Boot, Serve, Sweep, mongo, process
    <3>2. \A p \in Posts : status'[p] # status[p] => p \in todo /\ server = "sweeping"
      BY <1>t, <2>2 DEF Startup, Boot, Serve, Sweep, SetStatus, StatusType, mongo
    <3>3. /\ \A p \in todo : status[p] # "absent"
          /\ server # "up" => \A p \in Posts : post[p].pc # "rollback"
      BY DEF Places, TodoLive, Live, Quiet
    <3> QED BY <3>1, <3>2, <3>3
  <2>3. CASE UNCHANGED vars
    BY <2>3 DEF vars
  <2> QED BY <2>1, <2>2, <2>3
<1>2. \A c \in Cancels, p \in Posts : Emitting(c, p)' => Emitting(c, p)
  BY <1>1 DEF Emitting
<1>3. Named'
  BY <1>1 DEF Cancelled, Named
<1> QED
  BY <1>1, <1>2, <1>3, CancelledOthers DEF Cancelled, Next

\* A trace gets at most one terminate_cancelled row, and only when the objective
\* was really cancelled.
THEOREM CancelRowTruthfulHolds == Spec => []CancelRowTruthful
<1>1. Init => Cancelled
  BY DEF Init, Cancelled, Named, Won, WonOnce, Emitting, Rows
<1>2. Typing /\ Places /\ Recorded /\ Cancelled /\ [Next]_vars => Cancelled'
  BY CancelledPost, CancelledWorker, CancelledCancel, CancelledProcess DEF Next
<1>3. Cancelled => CancelRowTruthful
  BY DEF Cancelled, Won, WonOnce, CancelRowTruthful
<1> QED
  BY <1>1, <1>2, <1>3, Placement, RecordedHolds, PTL DEF Spec

-----------------------------------------------------------------------------
(* Replays.                                                                *)

\* The unique index: documents have different keys.
KeyOnce ==
  \A p, q \in Posts :
    status[p] # "absent" /\ status[q] # "absent" /\ post[p].key = post[q].key => p = q

Matches(p, o) ==
  o \in Posts /\ post[o].pc # "new" /\ post[o].key = post[p].key /\ post[o].body = post[p].body

\* What a 202 names was admitted with the key and the body of its request,
\* whatever has become of the document.
NamesItsOwn ==
  \A p \in Posts :
    post[p].answer = "accepted" => post[p].pc # "new" /\ Matches(p, post[p].obj)

Replayed == KeyOnce /\ NamesItsOwn

\* Key and body of a request that has arrived never change.
LEMMA GotoKeeps ==
  ASSUME PostType, NEW p \in Posts, NEW pc, Goto(p, pc)
  PROVE  post'[p].key = post[p].key /\ post'[p].body = post[p].body
<1> DEFINE moved == [post[p] EXCEPT !.pc = pc]
<1>1. post[p] \in PostRecords
  BY DEF PostType
<1>2. moved.key = post[p].key /\ moved.body = post[p].body
  BY <1>1 DEF PostRecords
<1>3. post' = [post EXCEPT ![p] = moved]
  BY DEF Goto
<1> HIDE DEF moved
<1> QED
  BY <1>2, <1>3 DEF PostType

\* Answering changes neither key nor body.
LEMMA AnswerKeeps ==
  ASSUME PostType, NEW p \in Posts, NEW answer, NEW obj, Answer(p, answer, obj)
  PROVE  post'[p].key = post[p].key /\ post'[p].body = post[p].body
<1> DEFINE done == [post[p] EXCEPT !.pc = "done", !.answer = answer, !.obj = obj]
<1>1. post[p] \in PostRecords
  BY DEF PostType
<1>2. done.key = post[p].key /\ done.body = post[p].body
  BY <1>1 DEF PostRecords
<1>3. post' = [post EXCEPT ![p] = done]
  BY DEF Answer
<1> HIDE DEF done
<1> QED
  BY <1>2, <1>3 DEF PostType

\* A request beyond its arrival keeps key and body; one that is answered with a
\* 202 in this step names a document of its own key and body.
Advances(q) ==
  /\ post[q].pc # "new" =>
       post'[q].pc # "new" /\ post'[q].key = post[q].key /\ post'[q].body = post[q].body
  /\ post'[q].answer = "accepted" =>
       \/ post[q].answer = "accepted" /\ post'[q].obj = post[q].obj
       \/ post[q].pc # "new" /\ \E o \in Documents : Matches(q, o) /\ post'[q].obj = o

\* What a handler's step does to its own request and to the documents.
LEMMA ReplayedHandler ==
  ASSUME Typing, Places, Replayed, NEW p \in Posts, Arrive(p) \/ PostStep(p)
  PROVE  /\ \A q \in Posts : Advances(q)
         /\ \A q \in Posts : status[q] = "absent" /\ status'[q] # "absent" =>
              q = p /\ post[p].pc # "new" /\ DocumentsWith(post[p].key) = {}
<1>t. PostType /\ StatusType
  BY DEF Typing, TypeOK, PostType, StatusType
<1>f. ASSUME NEW o \in DocumentsWith(post[p].key), post[p].pc # "new", AnswerFrom(p, o)
      PROVE  Advances(p)
  <2>1. /\ o \in Posts /\ o \in Documents /\ post[o].key = post[p].key /\ post[o].pc # "new"
    BY <1>f DEF DocumentsWith, Documents, Places, Admitted
  <2>2. CASE post[o].body = post[p].body
    <3>1. Answer(p, "accepted", o)
      BY <1>f, <2>2 DEF AnswerFrom
    <3> QED
      BY <1>t, <1>f, <2>1, <2>2, <3>1, AnswerMoves, AnswerKeeps DEF Advances, Matches
  <2>3. CASE post[o].body # post[p].body
    <3>1. Answer(p, "key_reused", None)
      BY <1>f, <2>3 DEF AnswerFrom
    <3> QED
      BY <1>t, <1>f, <3>1, AnswerMoves, AnswerKeeps DEF Advances
  <2> QED BY <2>2, <2>3
<1>g. ASSUME NEW pc, pc # "new", Goto(p, pc) PROVE Advances(p)
  BY <1>t, <1>g, GotoMoves, GotoKeeps DEF Advances
<1>a. ASSUME NEW answer, answer # "accepted", Answer(p, answer, None) PROVE Advances(p)
  BY <1>t, <1>a, AnswerMoves, AnswerKeeps DEF Advances
<1>1. CASE Arrive(p)
  <2>1. /\ \A q \in Posts \ {p} : post'[q] = post[q]
        /\ post[p].pc = "new" /\ post'[p].answer # "accepted" /\ UNCHANGED status
    BY <1>1, ArriveMoves DEF Arrive, mongo
  <2> QED
    BY <2>1 DEF Advances
<1>2. CASE PostStep(p)
  <2>0. \A q \in Posts \ {p} : post'[q] = post[q]
    BY <1>t, <1>2, GotoMoves, AnswerMoves
    DEF PostStep, Lookup, Quote, Insert, Recheck, Enqueue, Rollback, AnswerFrom
  <2>1. post[p].pc # "new"
    BY <1>2 DEF PostStep, Lookup, Quote, Insert, Recheck, Enqueue, Rollback
  <2>2. CASE Lookup(p) \/ Recheck(p)
    BY <1>f, <1>g, <1>a, <2>0, <2>1, <2>2 DEF Lookup, Recheck, mongo, Advances
  <2>3. CASE Quote(p)
    BY <1>g, <1>a, <2>0, <2>3 DEF Quote, Advances
  <2>4. CASE Insert(p)
    BY <1>t, <1>g, <1>a, <2>0, <2>1, <2>4 DEF Insert, SetStatus, StatusType, Advances
  <2>5. CASE Enqueue(p)
    <3>1. status[p] # "absent"
      BY <2>5 DEF Enqueue, Places, Pending
    <3>2. ASSUME Answer(p, "accepted", p) PROVE Advances(p)
      BY <1>t, <2>1, <3>1, <3>2, AnswerMoves, AnswerKeeps DEF Advances, Matches, Documents
    <3> QED
      BY <1>g, <1>a, <2>0, <2>5, <3>2 DEF Enqueue, mongo, Advances
  <2>6. CASE Rollback(p)
    BY <1>t, <1>a, <2>0, <2>6 DEF Rollback, SetStatus, StatusType, Advances
  <2> QED
    BY <1>2, <2>2, <2>3, <2>4, <2>5, <2>6 DEF PostStep
<1> QED
  BY <1>1, <1>2

\* Nobody else admits a request or answers one.
LEMMA ReplayedOthers ==
  ASSUME Typing, Places, Replayed, [Next]_vars,
         ~\E p \in Posts : Arrive(p) \/ PostStep(p)
  PROVE  /\ \A q \in Posts : Advances(q)
         /\ \A q \in Posts : status[q] = "absent" => status'[q] = "absent"
<1>t. PostType /\ StatusType /\ HoldsOK /\ todo \in SUBSET Posts
  BY DEF Typing, TypeOK, PostType, StatusType
<1>1. CASE \E w \in Workers : Take(w) \/ WorkerStep(w)
  <2> PICK w \in Workers : Take(w) \/ WorkerStep(w)
    BY <1>1
  <2>1. UNCHANGED post
    BY DEF Take, WorkerStep, Claim, Package, Synthesise, CheckRefusal, EmitRefusal, Settle,
           WorkerWebhook, RecordQuote
  <2>2. \A q \in Posts : status[q] = "absent" => status'[q] = "absent"
    BY <1>t DEF Take, WorkerStep, Claim, Claimable, Package, Synthesise, CheckRefusal,
           EmitRefusal, Settle, Settleable, WorkerWebhook, RecordQuote, SetStatus, StatusType, mongo
  <2> QED
    BY <2>1, <2>2 DEF Advances
<1>2. CASE \/ \E c \in Cancels : CancelRead(c) \/ CancelStep(c)
           \/ Startup
           \/ UNCHANGED vars
  <2>1. UNCHANGED post
    BY <1>2 DEF CancelRead, CancelStep, CancelRunning, CancelAccepted, CancelTry,
         CancelRefetch, CancelEmit, CancelWebhook, Startup, Boot, Serve, Sweep, process, vars
  <2>2. \A q \in Posts : status[q] = "absent" => status'[q] = "absent"
    BY <1>t, <1>2 DEF CancelRead, CancelStep, CancelRunning, CancelAccepted, CancelTry, CancelRefetch,
         CancelEmit, CancelWebhook, Startup, Boot, Serve, Sweep, SetStatus, StatusType, Places,
         TodoLive, Live, mongo, vars
  <2> QED
    BY <2>1, <2>2 DEF Advances
<1>3. CASE Crash
  <2>1. ASSUME NEW q \in Posts PROVE Advances(q)
    <3>1. post[q] \in PostRecords /\ post'[q] = IF post[q].pc \in {"new", "done"} THEN post[q]
                                                ELSE [post[q] EXCEPT !.pc = "dead"]
      BY <1>t, <1>3 DEF Crash, PostType
    <3>2. /\ post'[q].key = post[q].key /\ post'[q].body = post[q].body
          /\ post'[q].answer = post[q].answer /\ post'[q].obj = post[q].obj
          /\ post[q].pc # "new" => post'[q].pc # "new"
      BY <3>1 DEF PostRecords
    <3> QED
      BY <3>2 DEF Advances
  <2> QED
    BY <1>3, <2>1 DEF Crash, mongo
<1> QED
  BY <1>1, <1>2, <1>3 DEF Next

\* Every step keeps documents apart and answers true.
LEMMA ReplayedNext == Typing /\ Places /\ Replayed /\ [Next]_vars => Replayed'
<1> SUFFICES ASSUME Typing, Places, Replayed, [Next]_vars PROVE Replayed'
  OBVIOUS
<1> DEFINE Born(q) == status[q] = "absent" /\ status'[q] # "absent"
<1>1. /\ \A q \in Posts : Advances(q)
      /\ \A q \in Posts : Born(q) => post[q].pc # "new" /\ DocumentsWith(post[q].key) = {}
      /\ \A q, r \in Posts : Born(q) /\ Born(r) => q = r
  <2>1. CASE \E p \in Posts : Arrive(p) \/ PostStep(p)
    BY <2>1, ReplayedHandler
  <2>2. CASE ~\E p \in Posts : Arrive(p) \/ PostStep(p)
    BY <2>2, ReplayedOthers
  <2> QED BY <2>1, <2>2
<1>2. KeyOnce'
  <2> SUFFICES ASSUME NEW p \in Posts, NEW q \in Posts,
                      status'[p] # "absent", status'[q] # "absent", post'[p].key = post'[q].key
               PROVE  p = q
    BY DEF KeyOnce
  <2>1. \A r \in {p, q} : status[r] # "absent" => post[r].pc # "new"
    BY DEF Places, Admitted
  <2>2. post[p].key = post[q].key
    BY <1>1, <2>1 DEF Advances
  <2>3. CASE Born(p) /\ Born(q)
    BY <1>1, <2>3
  <2>4. CASE ~Born(p) /\ ~Born(q)
    BY <2>2, <2>4 DEF Replayed, KeyOnce
  <2>5. \A r, o \in Posts : ~(Born(r) /\ status[o] # "absent" /\ post[o].key = post[r].key)
    BY <1>1 DEF DocumentsWith, Documents
  <2> QED
    BY <2>2, <2>3, <2>4, <2>5
<1>3. NamesItsOwn'
  <2> SUFFICES ASSUME NEW q \in Posts, post'[q].answer = "accepted"
               PROVE  post'[q].pc # "new" /\ Matches(q, post[q].obj)'
    BY DEF NamesItsOwn
  <2>1. post[q].pc # "new" /\ Matches(q, post'[q].obj)
    BY <1>1 DEF Advances, Replayed, NamesItsOwn
  <2> QED
    BY <1>1, <2>1 DEF Advances, Matches
<1> QED
  BY <1>2, <1>3 DEF Replayed

\* Two 202 answers under one key name one objective, of the body of both, while
\* the documents they name exist: whatever lookups, inserts, rollbacks and
\* restarts come between, through either door.
THEOREM ReplaysAgreeHolds == Spec => []ReplaysAgree
<1>1. Init => Replayed
  BY DEF Init, Replayed, KeyOnce, NamesItsOwn
<1>2. Replayed => ReplaysAgree
  BY DEF Replayed, KeyOnce, NamesItsOwn, Matches, ReplaysAgree, Documents
<1> QED
  BY <1>1, <1>2, ReplayedNext, Placement, PTL DEF Spec
=============================================================================
