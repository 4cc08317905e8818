---------------------------- MODULE UseDataSessions ----------------------------
(***************************************************************************)
(* The use-data console.  A session is one document; every request of its  *)
(* operator loads it whole, changes a part and stores it whole, with other *)
(* requests in between, and a commit also reads the auto-run ceiling the   *)
(* checker's ceremony set last.  A stored session keeps the contract's     *)
(* fields and the sample mark: what the seeder wrote beside them is lost.  *)
(*                                                                         *)
(* The Intel, Test and Sample cards have no endpoint and stay empty;       *)
(* reflection fields and the plan are counted by their last value.         *)
(***************************************************************************)
EXTENDS CommissionVerdict, FiniteSets

CONSTANTS
  Sessions,
  Requests,    \* requests an operator may make, each made once
  Bodies,      \* commit bodies
  Ceilings,    \* to_value_ref of an effective ceiling request
  Malformed,   \* one that is no number
  Seed         \* AUTO_RUN_CEILING_USD_INITIAL

ASSUME UseDataAssumption == Malformed \notin Ceilings /\ None \notin Requests /\ Seed \in Nat

VARIABLES
  useDocs,     \* use_data_wizard_sessions
  ceilings,    \* effective auto_run_ceiling_usd requests, latest last
  desk,        \* requests in progress
  told         \* history: the verdicts operators were given

useVars == <<useDocs, ceilings, desk, told>>

UseDoc == [dialogue : SUBSET Requests, reflection : Requests \cup {None},
           plan : Requests \cup {None}, commission : Requests \cup {None},
           sample : BOOLEAN, held : BOOLEAN]
Done == [pc |-> "done"]
Ops == {"turn", "reflection", "plan", "commit"}
NoBody == CHOOSE b \in Bodies : TRUE

UseDataTypeOK ==
  /\ \A s \in DOMAIN useDocs : s \in Sessions /\ useDocs[s] \in UseDoc
  /\ \A i \in DOMAIN ceilings : ceilings[i] \in Ceilings \cup {Malformed}
  /\ \A r \in DOMAIN desk : r \in Requests /\ (desk[r] = Done \/ desk[r].op \in Ops)

\* The seeder has left a session that is held for a check; the others are opened.
SeededHold == [dialogue |-> {}, reflection |-> None, plan |-> None, commission |-> None,
               sample |-> TRUE, held |-> TRUE]

UseDataInit ==
  /\ \/ useDocs = [s \in {} |-> None]
     \/ \E s \in Sessions : useDocs = [t \in {s} |-> SeededHold]
  /\ ceilings = <<>>
  /\ desk = [r \in {} |-> None]
  /\ told = {}

\* get_effective_auto_run_ceiling_usd: the latest effective request, the seed when there is
\* none or it is malformed.
\* Mutant: the seed is taken for the least the ceiling can be.
EffectiveCeiling_NeverBelowSeed ==
  IF ceilings = <<>> \/ Last(ceilings) = Malformed \/ Last(ceilings) < Seed THEN Seed ELSE Last(ceilings)

EffectiveCeiling ==
  IF ceilings = <<>> \/ Last(ceilings) = Malformed THEN Seed ELSE Last(ceilings)

------------------------------------------------------------------------------

PostOpenSession(s) ==
  /\ s \notin DOMAIN useDocs
  /\ useDocs' = [t \in DOMAIN useDocs \cup {s} |->
       IF t = s THEN [SeededHold EXCEPT !.sample = FALSE, !.held = FALSE] ELSE useDocs[t]]
  /\ UNCHANGED <<ceilings, desk, told>>

Made == DOMAIN desk

\* session_store.get and the owner check.
LoadSession(r, s, op, body) ==
  /\ r \notin Made /\ s \in DOMAIN useDocs
  /\ desk' = [q \in Made \cup {r} |->
       IF q = r THEN [op |-> op, of |-> s, body |-> body, doc |-> useDocs[s],
                      pc |-> IF op = "commit" THEN "judge" ELSE "store"]
       ELSE desk[q]]
  /\ UNCHANGED <<useDocs, ceilings, told>>

Change(r, doc) ==
  CASE desk[r].op = "turn"       -> [doc EXCEPT !.dialogue = @ \cup {r}]
    [] desk[r].op = "reflection" -> [doc EXCEPT !.reflection = r]
    [] desk[r].op = "plan"       -> [doc EXCEPT !.plan = r]
    [] desk[r].op = "commit"     -> [doc EXCEPT !.commission = r]

\* commit_commission reads the ceiling and composes the verdict; amounts the ceiling record
\* refuses end the request without one.
JudgeCommission(r) ==
  /\ r \in Made /\ desk[r].pc = "judge"
  /\ LET b == desk[r].body
         ceiling == EffectiveCeiling
     IN  IF CeilingReadable(b, ceiling)
         THEN /\ desk' = [desk EXCEPT ![r].pc = "store"]
              /\ told' = told \cup {[by |-> r, body |-> b, at |-> Len(ceilings),
                                    outcome |-> ComposeVerdict(b, ceiling).outcome]}
         ELSE /\ desk' = [desk EXCEPT ![r] = Done]
              /\ UNCHANGED told
  /\ UNCHANGED <<useDocs, ceilings>>

\* upsert: find_one keeps the sample mark, replace_one writes the contract's fields.
\* Mutant: the document is updated with the request's own change.
Stored_Merged(r, old) == Change(r, old)

Stored(r, old) == [Change(r, desk[r].doc) EXCEPT !.sample = old.sample, !.held = FALSE]

StoreSession(r) ==
  /\ r \in Made /\ desk[r].pc = "store"
  /\ LET s == desk[r].of
     IN  useDocs' = [useDocs EXCEPT ![s] = Stored(r, useDocs[s])]
  /\ desk' = [desk EXCEPT ![r] = Done]
  /\ UNCHANGED <<ceilings, told>>

RestartUseData ==
  /\ \E r \in Made : desk[r] # Done
  /\ desk' = [r \in Made |-> Done]
  /\ UNCHANGED <<useDocs, ceilings, told>>

\* The checker makes a change of the ceiling effective.
CeilingTakesEffect(value) ==
  /\ Len(ceilings) < 2   \* bound
  /\ ceilings' = Append(ceilings, value)
  /\ UNCHANGED <<useDocs, desk, told>>

UseDataNext ==
  \/ \E s \in Sessions : PostOpenSession(s)
  \/ \E r \in Requests, s \in Sessions, op \in Ops \ {"commit"} : LoadSession(r, s, op, NoBody)
  \/ \E r \in Requests, s \in Sessions, body \in Bodies : LoadSession(r, s, "commit", body)
  \/ \E r \in Requests : JudgeCommission(r)
  \/ \E r \in Requests : StoreSession(r)
  \/ RestartUseData
  \/ \E value \in Ceilings \cup {Malformed} : CeilingTakesEffect(value)

UseDataSpec == UseDataInit /\ [][UseDataNext]_useVars

------------------------------------------------------------------------------
\* What was in force after the first n changes.
CeilingAfter(n) == IF n = 0 \/ ceilings[n] = Malformed THEN Seed ELSE ceilings[n]

\* The one-place rule of the ceiling: a commission told to run now passed every check and
\* spends no more than the ceremony's last value when its verdict was composed, with other
\* requests and changes of the ceiling in between.
RunsNowIsClean ==
  \A v \in told : v.outcome = "runs_now" =>
    /\ v.body.rights # None /\ v.body.floor /\ v.body.pii /\ v.body.resolvable
    /\ v.body.scope \subseteq v.body.connected /\ v.body.scope \subseteq v.body.censused
    /\ v.body.budget # None /\ v.body.budget <= CeilingAfter(v.at)

\* What the session contract says of the dialogue: turns are only appended.  A request that
\* loaded the session before a turn was stored takes the turn out again.
DialogueIsAppendOnly ==
  [][\A s \in DOMAIN useDocs : useDocs[s].dialogue \subseteq useDocs'[s].dialogue]_useDocs
==============================================================================
