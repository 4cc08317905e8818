----------------------------- MODULE EstateService -----------------------------
(***************************************************************************)
(* Service 1 over the estate Registry: the runs that measure units into    *)
(* the Registry and plan over them, the dispatch calls that answer from    *)
(* it, the Northena ledger that both write, and the console that lists the *)
(* open runs.  Every await is a step, so runs and a call interleave; a     *)
(* crash loses what was in flight and keeps what was stored.               *)
(***************************************************************************)
EXTENDS EstateGrammar

CONSTANTS Runs,      \* run identifiers
          RunBodies, \* [units, floor, scope, basis]: units is a sequence of rows
          Asks,      \* [form, grain, entry, reach, floor, commissioner, scoped, keyed]
          Drafts,    \* what the model may draft: [prose, anchors]
          Estate,    \* the Registries an estate may start with: sets of rows
          MaxCalls,  \* bound on dispatch calls
          NoPlan     \* a row of the ledger without a plan

\* A record of the Registry, as far as packaging and planning look at it.
UnitRows == [ref : Nat, feed : STRING, class : Classes]
\* Nothing keeps the units of one source to one feed.
ASSUME EstateAssumption ==
  /\ Estate \subseteq SUBSET UnitRows
  /\ \A body \in RunBodies : body.units \in Seq(UnitRows)
  /\ \A ask \in Asks : ask.floor \in Classes

VARIABLES registry,  \* the Registry: one row per ref
          plans,     \* stored MiningPlans: [targets, floor] by plan id
          runs,      \* per run: [pc, body, measured]
          runRows,    \* per run: its rows in order
          call,      \* the dispatch call in flight, or its answer
          callRows,  \* the ledger rows of the dispatch calls
          lens       \* the open-runs console

estateVars == <<registry, plans, runs, runRows, call, callRows, lens>>

NotStarted == [pc |-> "idle"]
EstateInit ==
  /\ registry \in Estate
  /\ plans = [id \in {} |-> NoPlan]
  /\ runs = [r \in Runs |-> NotStarted]
  /\ runRows = [r \in Runs |-> <<>>]
  /\ call = [pc |-> "idle", number |-> 0]
  /\ callRows = {}
  /\ lens = [pc |-> "idle"]

RunRow(stage, decision, plan, units) == [stage |-> stage, decision |-> decision, plan |-> plan, units |-> units]
Refused == RunRow("admit", "refused", NoPlan, 0)
Recorded(r, rows) == runRows' = [runRows EXCEPT ![r] = @ \o rows]
Ends(r, pc) == runs' = [runs EXCEPT ![r].pc = pc]

------------------------------------------------------------------------------
\* run: without a lawful basis nothing but the refusal is written; else the run is admitted.
RunRefuseBasis(r, body) ==
  /\ runs[r].pc = "idle" /\ ~body.basis
  /\ Recorded(r, <<Refused>>)
  /\ runs' = [runs EXCEPT ![r] = [pc |-> "refused", body |-> body, measured |-> 0]]
  /\ UNCHANGED <<registry, plans, call, callRows, lens>>
RunAdmit(r, body) ==
  /\ runs[r].pc = "idle" /\ body.basis
  /\ Recorded(r, <<RunRow("admit", "admitted", NoPlan, 0)>>)
  /\ runs' = [runs EXCEPT ![r] = [pc |-> "measuring", body |-> body, measured |-> 0]]
  /\ UNCHANGED <<registry, plans, call, callRows, lens>>

\* compose_record and upsert of the next unit: the row of its ref is replaced.
Upserted(rows, unit) == {row \in rows : row.ref # unit.ref} \cup {unit}
RunMeasure(r) ==
  /\ runs[r].pc = "measuring" /\ runs[r].measured < Len(runs[r].body.units)
  /\ registry' = Upserted(registry, runs[r].body.units[runs[r].measured + 1])
  /\ runs' = [runs EXCEPT ![r].measured = @ + 1]
  /\ call' = IF call.pc = "warm" THEN [call EXCEPT !.moved = @ \/ registry' # registry] ELSE call
  /\ UNCHANGED <<plans, runRows, callRows, lens>>

Measured(r) == runs[r].pc = "measuring" /\ runs[r].measured = Len(runs[r].body.units)
Ranked(body) == EligibleAndRank(body.units, body.floor, body.scope)

\* Every unit is below the floor.  The admit row is there already.
RunRefuseFloor(r) ==
  /\ Measured(r) /\ Ranked(runs[r].body) = <<>>
  /\ Recorded(r, <<Refused>>) /\ Ends(r, "refused")
  /\ UNCHANGED <<registry, plans, call, callRows, lens>>

\* _stable_plan_id: the snapshot of the run's records and the order, not the floor.
\* Mutant: the snapshot is left out.
PlanId_OrderOnly(body) == <<RefsOf(Ranked(body))>>
PlanId(body) == <<body.units, RefsOf(Ranked(body))>>
ASSUME PlanIdAssumption == \A body \in RunBodies : PlanId(body) # NoPlan
BuildPlan(body) == [targets |-> TargetsOf(Ranked(body)), floor |-> body.floor]

\* build_plan over the core's order (the yield layer has no thresholds), then persist.
RunPlan(r) ==
  /\ Measured(r) /\ Ranked(runs[r].body) # <<>>
  /\ LET id == PlanId(runs[r].body)
     IN  plans' = [p \in DOMAIN plans \cup {id} |-> IF p = id THEN BuildPlan(runs[r].body) ELSE plans[p]]
  /\ Ends(r, "planned")
  /\ UNCHANGED <<registry, runRows, call, callRows, lens>>

RunGate(r) ==
  /\ runs[r].pc = "planned"
  /\ Recorded(r, <<RunRow("gate", "warm", PlanId(runs[r].body), 0)>>) /\ Ends(r, "gated")
  /\ UNCHANGED <<registry, plans, call, callRows, lens>>

RunConverge(r) ==
  /\ runs[r].pc = "gated"
  /\ Recorded(r, <<RunRow("converge", "terminate_success", PlanId(runs[r].body), runs[r].measured)>>)
  /\ Ends(r, "converged")
  /\ UNCHANGED <<registry, plans, call, callRows, lens>>

------------------------------------------------------------------------------
Told(outcome, rows, fluent) == [call EXCEPT !.pc = "told", !.outcome = outcome, !.rows = rows, !.fluent = fluent]
Answers(outcome, rows) == call' = Told(outcome, rows, FALSE)

\* What dispatch answers before it reads anything: the key scope, the form, the grain, the
\* forms and entries that are not built yet.
Upfront(ask) ==
  CASE ~ask.scoped -> "auth_scope_insufficient"
    [] ask.scoped /\ ask.form = "model" -> "form_not_offerable"
    [] ask.scoped /\ ask.form # "model" /\ ~GrainFits(ask.form, ask.grain) -> "grain_form_incompatible"
    [] ask.scoped /\ GrainFits(ask.form, ask.grain)
         /\ (ask.form \in {"knowledge_artifact", "callable_skill"} \/ ask.entry = "work_order") -> "not_yet_implemented"
    [] OTHER -> "read"

\* v2_dispatch: an upfront answer, or the feasibility read, which decides the fork.  Without an
\* idempotency key the fresh fork is refused; with one it is accepted (AsyncDelivery).
NoDraft == [prose |-> <<>>, anchors |-> <<>>]
Called(ask, pc, outcome, fork) ==
  [pc |-> pc, number |-> call.number + 1, ask |-> ask, outcome |-> outcome, rows |-> {}, fluent |-> FALSE,
   fork |-> fork, moved |-> FALSE, draft |-> NoDraft]
Dispatch(ask) ==
  /\ call.pc \in {"idle", "told"} /\ call.number < MaxCalls
  /\ call' =
       LET fork == Fork(registry, ask.reach, ask.floor)
       IN  CASE Upfront(ask) # "read" -> Called(ask, "told", Upfront(ask), "none")
             [] Upfront(ask) = "read" /\ fork = "warm" -> Called(ask, "warm", "none", "warm")
             [] Upfront(ask) = "read" /\ fork = "fresh" /\ ~ask.keyed -> Called(ask, "told", "idempotency_key_missing", "fresh")
             [] OTHER -> Called(ask, "told", "accepted", "fresh")
  /\ UNCHANGED <<registry, plans, runs, runRows, callRows, lens>>

\* package_qualified_data: the standard is a hard filter on the rows, then the licence.
PackageQualified ==
  /\ call.pc = "warm" /\ call.ask.form = "qualified_data"
  /\ LET standard == StandardHardFilter(ReachRows(registry, call.ask.reach), call.ask.floor)
         licensed == SelectByClass(standard, call.ask.commissioner)
     IN  \/ standard = {} /\ Answers("standard_below_admission_floor", {})
         \/ standard # {} /\ licensed = {} /\ Answers("license_class_unavailable", {})
         \/ licensed # {} /\ Answers("payload", licensed)
  /\ UNCHANGED <<registry, plans, runs, runRows, callRows, lens>>

\* package_composed_conclusion: the licence alone selects; the class of the conclusion is held
\* against the standard, and the outcome is on the ledger before the answer is made.
CallRow(decision, rows) ==
  [call |-> call.number, decision |-> decision, class |-> ConclusionClass(rows), refs |-> {row.ref : row \in rows}]
PackageComposed ==
  /\ call.pc = "warm" /\ call.ask.form = "composed_conclusion"
  /\ LET licensed == SelectByClass(ReachRows(registry, call.ask.reach), call.ask.commissioner)
     IN  \/ licensed = {} /\ Answers("license_class_unavailable", {}) /\ UNCHANGED callRows
         \/ /\ licensed # {} /\ ConclusionClass(licensed) < call.ask.floor
            /\ callRows' = callRows \cup {CallRow("refused", licensed)}
            /\ Answers("composition_below_floor", licensed)
         \/ /\ licensed # {} /\ ConclusionClass(licensed) >= call.ask.floor
            /\ callRows' = callRows \cup {CallRow("terminate_success", licensed)}
            /\ call' = [call EXCEPT !.pc = "synthesising", !.rows = licensed]
  /\ UNCHANGED <<registry, plans, runs, runRows, lens>>

\* _synthesise_answer_text: without the key 503; a failing model or a draft that is not
\* grounded gives the mechanical text; else the draft is the answer.
SynthesiseKeyMissing ==
  call.pc = "synthesising" /\ Answers("emergent_key_missing", call.rows)
  /\ UNCHANGED <<registry, plans, runs, runRows, callRows, lens>>
SynthesiseMechanical ==
  call.pc = "synthesising" /\ Answers("conclusion", call.rows)
  /\ UNCHANGED <<registry, plans, runs, runRows, callRows, lens>>
SynthesiseFluent(draft) ==
  /\ call.pc = "synthesising" /\ GroundingPasses(draft, {row.ref : row \in call.rows})
  /\ call' = [Told("conclusion", call.rows, TRUE) EXCEPT !.draft = draft]
  /\ UNCHANGED <<registry, plans, runs, runRows, callRows, lens>>

------------------------------------------------------------------------------
\* _open_runs: the admitted runs, then in a second read those that converged.
LensAdmits ==
  /\ lens.pc = "idle"
  /\ lens' = [pc |-> "read", admits |-> {r \in Runs : \E i \in DOMAIN runRows[r] : runRows[r][i].decision = "admitted"}]
  /\ UNCHANGED <<registry, plans, runs, runRows, call, callRows>>
LensTerminated ==
  /\ lens.pc = "read"
  /\ LET terminated == {r \in Runs : \E i \in DOMAIN runRows[r] : runRows[r][i].decision = "terminate_success"}
     IN  lens' = [pc |-> "told", admits |-> lens.admits, listed |-> lens.admits \ terminated,
                  converged |-> {r \in Runs : runs[r].pc = "converged"}]
  /\ UNCHANGED <<registry, plans, runs, runRows, call, callRows>>

\* The process dies: runs, call and console request in flight are gone.
InFlight(r) == runs[r].pc \in {"measuring", "planned", "gated"}
EstateCrash ==
  /\ (\E r \in Runs : InFlight(r)) \/ call.pc \in {"warm", "synthesising"}
  /\ runs' = [r \in Runs |-> IF InFlight(r) THEN [runs[r] EXCEPT !.pc = "lost"] ELSE runs[r]]
  /\ call' = IF call.pc \in {"warm", "synthesising"} THEN [pc |-> "idle", number |-> call.number] ELSE call
  /\ lens' = IF lens.pc = "read" THEN [pc |-> "idle"] ELSE lens
  /\ UNCHANGED <<registry, plans, runRows, callRows>>

EstateNext ==
  \/ \E r \in Runs : \/ \E body \in RunBodies : RunRefuseBasis(r, body) \/ RunAdmit(r, body)
                      \/ RunMeasure(r) \/ RunRefuseFloor(r) \/ RunPlan(r) \/ RunGate(r) \/ RunConverge(r)
  \/ \E ask \in Asks : Dispatch(ask)
  \/ PackageQualified \/ PackageComposed
  \/ SynthesiseKeyMissing \/ SynthesiseMechanical
  \/ \E draft \in Drafts : SynthesiseFluent(draft)
  \/ LensAdmits \/ LensTerminated
  \/ EstateCrash
EstateSpec == EstateInit /\ [][EstateNext]_estateVars

------------------------------------------------------------------------------
\* status_by_run: the last row, with the plan and the count read back from the reasons.
StatusByRun(r) ==
  LET planned == {i \in DOMAIN runRows[r] : runRows[r][i].stage = "gate"}
  IN  [stage |-> Last(runRows[r]).stage, decision |-> Last(runRows[r]).decision,
       plan |-> IF planned = {} THEN NoPlan ELSE runRows[r][Max(planned)].plan,
       units |-> Last(runRows[r]).units, rows |-> Len(runRows[r])]

\* resolve_trace: from the rows to the plans they name, from the plans to the Registry.
TracePlans(r) == {runRows[r][i].plan : i \in DOMAIN runRows[r]} \cap DOMAIN plans
TraceRecords(r) == {row \in registry : \E id \in TracePlans(r) : \E i \in DOMAIN plans[id].targets : plans[id].targets[i].ref = row.ref}
EnginesTouched(r) ==
  {"northena_ledger"}
  \cup (IF TracePlans(r) # {} THEN {"targeta"} ELSE {})
  \cup (IF TraceRecords(r) # {} THEN {"mtafiti"} ELSE {})
  \cup (IF \E i \in DOMAIN runRows[r] : runRows[r][i].decision = "terminate_success" THEN {"service_1"} ELSE {})

\* What the ledger says of a run is true of the stores, whoever wrote the plan last: a named
\* plan is stored; a converged run's plan names the sources that the run ranked, in its order,
\* each under a feed that the run measured it with, although runs with another floor or scope
\* share its identifier (of a source measured under two feeds it may keep the other one); its
\* trace resolves through every engine and its status repeats what the caller was told; a
\* refused run left no plan.  The open-runs list names no run that had converged and misses
\* none that was open throughout.
RunsOnRecord ==
  /\ \A r \in Runs : \A i \in DOMAIN runRows[r] : runRows[r][i].plan # NoPlan => runRows[r][i].plan \in DOMAIN plans
  /\ \A r \in Runs : runs[r].pc = "converged" =>
       LET id == PlanId(runs[r].body)
       IN  /\ StatusByRun(r) = [stage |-> "converge", decision |-> "terminate_success", plan |-> id,
                                units |-> Len(runs[r].body.units), rows |-> 3]
           /\ RefsOf(plans[id].targets) = RefsOf(Ranked(runs[r].body))
           /\ ToSet(plans[id].targets) \subseteq ToSet(TargetsOf(runs[r].body.units))
           /\ {row.ref : row \in TraceRecords(r)} = ToSet(RefsOf(plans[id].targets))
           /\ EnginesTouched(r) = {"northena_ledger", "targeta", "mtafiti", "service_1"}
  /\ \A r \in Runs : runs[r].pc = "refused" => Last(runRows[r]) = Refused /\ TracePlans(r) = {}
  /\ lens.pc = "told" => lens.listed = lens.admits \ lens.converged

\* What a dispatch tells holds although the estate was read twice, and its class once: data
\* and conclusions come from the reach, at the standard, under the commissioner's licence; the
\* standard fails at packaging only after the Registry moved; a conclusion, and a refusal of
\* one, is on the ledger with the class and the rows it was told with; a fluent answer says
\* nothing that is not anchored in them.
WarmAnswersHold ==
  call.pc = "told" =>
    /\ \A row \in call.rows :
         /\ row.feed \in call.ask.reach.scope \ call.ask.reach.exclusions
         /\ LicenseOf[row.feed] = DefaultClass[call.ask.commissioner]
         /\ call.outcome # "composition_below_floor" => row.class >= call.ask.floor
    /\ call.outcome = "standard_below_admission_floor" => call.moved
    /\ call.outcome \in {"conclusion", "composition_below_floor"} =>
         \E row \in callRows :
           /\ row.call = call.number /\ row.refs = {unit.ref : unit \in call.rows}
           /\ row.decision = (IF call.outcome = "conclusion" THEN "terminate_success" ELSE "refused")
           /\ \A unit \in call.rows : row.class <= unit.class
    /\ call.fluent => \A i \in DOMAIN call.draft.prose :
         /\ call.draft.prose[i] \notin Numbered
         /\ \E j \in DOMAIN call.draft.anchors :
              /\ call.draft.anchors[j].sentence = call.draft.prose[i]
              /\ call.draft.anchors[j].units \cap {unit.ref : unit \in call.rows} # {}
================================================================================
