------------------------------- MODULE MCConsoles -------------------------------
(***************************************************************************)
(* The four consoles, the artifact store, Service 1 over its estate and the *)
(* intake of an instance share no state, so each behaviour of this machine *)
(* is a behaviour of one of them; the others keep their initial state.     *)
(***************************************************************************)
EXTENDS GovernedRegistries, RetentionRules, UseDataSessions, ConnectSources, ArtifactStore, EstateService,
        InstanceOnboard

CONSTANT a1

VARIABLE console

\* Every call of the artifact store writes one key.
OneKey == [p \in Puts |-> a1]

\* Commit bodies that differ where the verdict does; all sources are the one source.
Clean == [rights |-> "internal", inheritable |-> FALSE, floor |-> TRUE, pii |-> TRUE,
          resolvable |-> TRUE, budget |-> 2, org |-> None, scope |-> {}, connected |-> {},
          censused |-> {}]
MCBodies == {Clean, [Clean EXCEPT !.budget = 1], [Clean EXCEPT !.budget = -1],
             [Clean EXCEPT !.floor = FALSE, !.budget = 3],
             [Clean EXCEPT !.scope = {"s"}, !.connected = {"s"}]}
MCCeilings == {0, 1, 3}
MCDays == {0, 1, 2}

\* Runs that share a plan identifier under two floors, or an order under two snapshots, two
\* units of one source, and one of each refusal.
Unit(ref, feed, class) == [ref |-> ref, feed |-> feed, class |-> class]
Pair == <<Unit(1, "fa", 2), Unit(2, "fb", 1)>>
Twice == <<Unit(1, "fa", 1), Unit(1, "fb", 1)>>
Run1 == [units |-> Pair, floor |-> 1, scope |-> "portfolio", basis |-> TRUE]
MCRunBodies == {Run1, [Run1 EXCEPT !.floor = 0], [Run1 EXCEPT !.units = <<Unit(1, "fa", 1), Unit(2, "fc", 0)>>, !.floor = 0],
  [Run1 EXCEPT !.units = Twice, !.scope = "fa"], [Run1 EXCEPT !.units = Twice, !.scope = "fb"], [Run1 EXCEPT !.scope = "fb"],
  [Run1 EXCEPT !.units = <<Unit(1, "fa", 0)>>], [Run1 EXCEPT !.basis = FALSE]}
WholeReach == [scope |-> {"fa", "fb"}, exclusions |-> {}]

\* Calls over the same units: warm, fresh, each refusal, each form that is not built.
Ask1 == [form |-> "qualified_data", grain |-> "per_claim", entry |-> "external_request", reach |-> WholeReach, floor |-> 1,
        commissioner |-> "com", scoped |-> TRUE, keyed |-> FALSE]
Whole == [Ask1 EXCEPT !.form = "composed_conclusion", !.grain = "synthesized_whole"]
MCAsks == {Ask1, [Ask1 EXCEPT !.floor = 2], [Ask1 EXCEPT !.reach = [scope |-> {"fa", "fb"}, exclusions |-> {"fb"}]],
  [Ask1 EXCEPT !.reach.scope = {"fc"}],[Ask1 EXCEPT !.reach.scope = {"fc"}, !.keyed = TRUE],
   Whole, [Whole EXCEPT !.floor = 2], [Whole EXCEPT !.reach.scope = {"fc"}],
   [Ask1 EXCEPT !.scoped = FALSE], [Ask1 EXCEPT !.form = "model"], [Ask1 EXCEPT !.grain = "synthesized_whole"],
   [Ask1 EXCEPT !.form = "knowledge_artifact"], [Ask1 EXCEPT !.entry = "work_order"]}
Anchor(sentence, units) == [sentence |-> sentence, units |-> units]

\* Drafts that are grounded, anchored in one of two rows, or not at all.
MCDrafts == {[prose |-> <<"plain">>, anchors |-> <<Anchor("plain", {1})>>], [prose |-> <<"plain">>, anchors |-> <<Anchor("plain", {2})>>],
  [prose |-> <<"plain">>, anchors |-> <<>>], [prose |-> <<"plain">>, anchors |-> <<Anchor("plain", {})>>],
  [prose |-> <<"number">>, anchors |-> <<Anchor("number", {1})>>], [prose |-> <<>>, anchors |-> <<>>]}
MCEstate == {{}, {Unit(1, "fa", 2), Unit(2, "fb", 1)}, {Unit(1, "fa", 2), Unit(3, "fc", 2)}}
MCLicenseOf == [fa |-> "lic", fb |-> "lic", fc |-> "other"]
MCDefaultClass == [com |-> "lic"]

\* A behaviour uses the open-runs console and two runs, or dispatch and one run.
EstateBound == call.number > 0 => lens.pc = "idle" /\ Cardinality({r \in Runs : runs[r].pc # "idle"}) <= 1

MCInit ==
  /\ console \in {"registries", "retention", "use_data", "connect", "artifacts", "estate", "onboard"}
  /\ RegistriesInit /\ RetentionInit /\ UseDataInit /\ ConnectInit /\ Init /\ EstateInit /\ OnboardInit
  /\ console # "estate" => registry = {}
  /\ console # "use_data" => DOMAIN useDocs = {}
  /\ console # "connect" => sources = <<>>
  /\ console # "onboard" => contexts = <<>>
MCNext ==
  \/ console = "registries" /\ RegistriesNext /\ UNCHANGED <<console, retentionVars, useVars, sourceVars, vars, estateVars, onboardVars>>
  \/ console = "retention" /\ RetentionNext /\ UNCHANGED <<console, registryVars, useVars, sourceVars, vars, estateVars, onboardVars>>
  \/ console = "use_data" /\ UseDataNext /\ UNCHANGED <<console, registryVars, retentionVars, sourceVars, vars, estateVars, onboardVars>>
  \/ console = "connect" /\ view.pc # "told" /\ ConnectNext /\ UNCHANGED <<console, registryVars, retentionVars, useVars, vars, estateVars, onboardVars>>
  \/ console = "artifacts" /\ Next /\ UNCHANGED <<console, registryVars, retentionVars, useVars, sourceVars, estateVars, onboardVars>>
  \/ console = "estate" /\ EstateNext /\ EstateBound' /\ UNCHANGED <<console, registryVars, retentionVars, useVars, sourceVars, vars, onboardVars>>
  \/ console = "onboard" /\ OnboardNext /\ UNCHANGED <<console, registryVars, retentionVars, useVars, sourceVars, vars, estateVars>>
MCSpec == MCInit /\ [][MCNext]_<<console, registryVars, retentionVars, useVars, sourceVars, vars, estateVars, onboardVars>>
================================================================================
