----------------------------- MODULE ProveRegister -----------------------------
(***************************************************************************)
(* The prove console and the gap register.  Asking looks the question up   *)
(* among the seeded answers; a question nobody seeded files a gap, looked  *)
(* up and then inserted; the envelope is stored as a trace before it is    *)
(* told.  Queueing finds a gap and then marks the first document of its    *)
(* id.  No index makes a gap's id unique.  The seeder runs before requests *)
(* are served, and after every crash again.                                *)
(***************************************************************************)
EXTENDS Naturals, Sequences, SequencesExt, FiniteSets

CONSTANTS
  Samples,      \* the shape of each seeded question's answer
  Novel,        \* questions nobody seeded
  Placeholder,  \* the gap a seeded answer offers
  NoGap,
  ProveAsks,    \* asks, and the identifiers of their traces
  QueueAsks     \* requests to queue a gap

ProveShapes == {"answered", "not_extracted_yet", "evidence_cannot_support_it", "something_broke"}
SampleQuestions == DOMAIN Samples
ASSUME SamplesAssumption == Samples \in [SampleQuestions -> ProveShapes] /\ SampleQuestions \cap Novel = {}

VARIABLES
  boot,      \* "serving", or the seeder's place
  answers,   \* prove_sample_answers: the questions seeded
  gaps,      \* registry_gap_register, oldest first: [gap, origin, state]
  traces,    \* prove_traces: [trace, question, envelope]
  asked,     \* the asks
  queueing   \* the requests to queue

proveVars == <<boot, answers, gaps, traces, asked, queueing>>

Fresh == [pc |-> "idle"]
ProveInit ==
  /\ boot = "seeding" /\ answers = {} /\ gaps = <<>> /\ traces = {}
  /\ asked = [a \in ProveAsks |-> Fresh]
  /\ queueing = [q \in QueueAsks |-> Fresh]

------------------------------------------------------------------------------
\* The envelope an answer travels in.  A seeded answer that was not extracted offers a gap
\* whose identifier is fixed; a gap filed for a question has the question's hash.
GapOf(question) == question
SampleEnvelope(question) ==
  [shape |-> Samples[question], question |-> question,
   gap |-> IF Samples[question] = "not_extracted_yet" THEN Placeholder ELSE NoGap]
NovelEnvelope(question) ==
  [shape |-> "not_extracted_yet", question |-> question, gap |-> GapOf(question)]
Trace(id, envelope) == [trace |-> id, question |-> envelope.question, envelope |-> envelope]

\* seed_registry_prove_sample_fixtures_if_absent: per question its answer, then its trace.
SampleTrace(question) == <<"sample", question>>
\* The identifiers of asks and of gaps that are filed have not the form of the seeded ones.
ASSUME ProveIdsAssumption ==
  /\ \A question \in SampleQuestions : SampleTrace(question) \notin ProveAsks
  /\ Novel \cap {Placeholder, NoGap} = {}
Traced(id) == \E t \in traces : t.trace = id
SeedAnswer(question) ==
  /\ boot = "seeding" /\ question \notin answers
  /\ answers' = answers \cup {question}
  /\ UNCHANGED <<boot, gaps, traces, asked, queueing>>
SeedTrace(question) ==
  /\ boot = "seeding" /\ question \in answers /\ ~Traced(SampleTrace(question))
  /\ traces' = traces \cup {Trace(SampleTrace(question), SampleEnvelope(question))}
  /\ UNCHANGED <<boot, answers, gaps, asked, queueing>>
Serve ==
  /\ boot = "seeding" /\ \A question \in SampleQuestions : question \in answers /\ Traced(SampleTrace(question))
  /\ boot' = "serving"
  /\ UNCHANGED <<answers, gaps, traces, asked, queueing>>

------------------------------------------------------------------------------
\* find_one and update_one meet the first document of a gap.
DocsOf(gap) == {i \in DOMAIN gaps : gaps[i].gap = gap}
FirstOf(gap) == CHOOSE i \in DocsOf(gap) : \A j \in DocsOf(gap) : i <= j

Asking(a, pc, envelope) == asked' = [asked EXCEPT ![a] = [pc |-> pc, envelope |-> envelope]]

\* prove_ask and _dispatch_and_map: a seeded question has its envelope; else _file_gap looks.
AskSeeded(a, question) ==
  /\ boot = "serving" /\ asked[a].pc = "idle" /\ question \in answers
  /\ Asking(a, "trace", SampleEnvelope(question))
  /\ UNCHANGED <<boot, answers, gaps, traces, queueing>>
AskNovel(a, question) ==
  /\ boot = "serving" /\ asked[a].pc = "idle" /\ question \notin answers
  /\ Asking(a, IF DocsOf(GapOf(question)) = {} THEN "file" ELSE "trace", NovelEnvelope(question))
  /\ UNCHANGED <<boot, answers, gaps, traces, queueing>>

\* _file_gap inserts, whatever was filed since it looked.
\* Mutant: it replaces the document of that id.
Filed_Replaces(gap, trace) ==
  LET doc == [gap |-> gap, origin |-> trace, state |-> "open"]
  IN  IF DocsOf(gap) = {} THEN Append(gaps, doc) ELSE [gaps EXCEPT ![FirstOf(gap)] = doc]
Filed(gap, trace) == Append(gaps, [gap |-> gap, origin |-> trace, state |-> "open"])
FileGap(a) ==
  /\ asked[a].pc = "file"
  /\ gaps' = Filed(asked[a].envelope.gap, a)
  /\ asked' = [asked EXCEPT ![a].pc = "trace"]
  /\ UNCHANGED <<boot, answers, traces, queueing>>
StoreTrace(a) ==
  /\ asked[a].pc = "trace"
  /\ traces' = traces \cup {Trace(a, asked[a].envelope)}
  /\ asked' = [asked EXCEPT ![a].pc = "told"]
  /\ UNCHANGED <<boot, answers, gaps, queueing>>

------------------------------------------------------------------------------
\* queue_gap: 404 for a gap that is not filed, else the session is marked on the document.
QueueFind(q, gap) ==
  /\ boot = "serving" /\ queueing[q].pc = "idle"
  /\ queueing' = [queueing EXCEPT ![q] = [pc |-> IF DocsOf(gap) = {} THEN "gap_not_found" ELSE "mark", gap |-> gap]]
  /\ UNCHANGED <<boot, answers, gaps, traces, asked>>
QueueMark(q) ==
  /\ queueing[q].pc = "mark"
  /\ gaps' = [gaps EXCEPT ![FirstOf(queueing[q].gap)].state = "queued"]
  /\ queueing' = [queueing EXCEPT ![q].pc = "queued"]
  /\ UNCHANGED <<boot, answers, traces, asked>>

\* The process dies and starts again: the requests in flight are gone.
Lost(request) == IF request.pc \in {"file", "trace", "mark"} THEN [request EXCEPT !.pc = "lost"] ELSE request
ProveCrash ==
  /\ boot' = "seeding"
  /\ asked' = [a \in ProveAsks |-> Lost(asked[a])]
  /\ queueing' = [q \in QueueAsks |-> Lost(queueing[q])]
  /\ UNCHANGED <<answers, gaps, traces>>

ProveNext ==
  \/ \E question \in SampleQuestions : SeedAnswer(question) \/ SeedTrace(question)
  \/ Serve
  \/ \E a \in ProveAsks : \/ \E question \in SampleQuestions : AskSeeded(a, question)
                          \/ \E question \in Novel : AskNovel(a, question)
                          \/ FileGap(a) \/ StoreTrace(a)
  \/ \E q \in QueueAsks : \/ \E gap \in Novel \cup {Placeholder} : QueueFind(q, gap)
                          \/ QueueMark(q)
  \/ ProveCrash
ProveSpec == ProveInit /\ [][ProveNext]_proveVars

------------------------------------------------------------------------------
\* _compose_walk: the first layer of a trace's walk.  A fault walks like a refusal.
WalkClaim(envelope) == IF envelope.shape = "answered" THEN "claim" ELSE "reason"
\* prove_trace: 404, or what is stored.
Walk(id) ==
  IF Traced(id) THEN {WalkClaim(t.envelope) : t \in {u \in traces : u.trace = id}} ELSE {"trace_not_found"}

\* prove_samples: per shape the first seeded answer, with the identifier of its trace.
SampleEnvelopes == {[envelope |-> SampleEnvelope(question), trace |-> SampleTrace(question)] : question \in answers}

\* What was told can be walked to what was told; a question nobody seeded is told with a gap
\* that is filed, and the first document of a gap that was queued says so for good, however
\* many asks of the question were in progress; a gap's origin walks unless its ask died
\* between the gap and the trace; what the samples show walks once requests are served.
ProveOnRecord ==
  /\ \A a \in ProveAsks : asked[a].pc = "told" =>
       /\ Trace(a, asked[a].envelope) \in traces
       /\ Walk(a) = {WalkClaim(asked[a].envelope)}
       /\ asked[a].envelope.gap \in Novel => DocsOf(asked[a].envelope.gap) # {}
  /\ \A q \in QueueAsks : queueing[q].pc = "queued" => gaps[FirstOf(queueing[q].gap)].state = "queued"
  /\ \A i \in DOMAIN gaps : Traced(gaps[i].origin) \/ asked[gaps[i].origin].pc \in {"trace", "lost"}
  /\ boot = "serving" => \A sample \in SampleEnvelopes : Walk(sample.trace) = {WalkClaim(sample.envelope)}
================================================================================
