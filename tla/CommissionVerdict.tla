--------------------------- MODULE CommissionVerdict ---------------------------
(***************************************************************************)
(* The verdict on a commission: five checks in a fixed order, the auto-run *)
(* ceiling, and the envelope composed from them.                           *)
(***************************************************************************)
EXTENDS Integers, Sequences, SequencesExt

CONSTANT None

\* CheckName, in the order run_five_checks appends them.
CheckNames == <<"rights_compatibility", "privacy_floor", "pii_posture", "budget_ceiling",
                "scope_resolvability">>

\* A commit body: a field is None when the operator left it out.
CommitBodies(Amounts, Sources) ==
  [rights : {None, "training", "internal"}, inheritable : BOOLEAN,
   floor : BOOLEAN, pii : BOOLEAN, resolvable : BOOLEAN,
   budget : Amounts \cup {None}, org : Amounts \cup {None},
   scope : SUBSET Sources, connected : SUBSET Sources, censused : SUBSET Sources]

\* run_five_checks: what each check holds against the body.
\* Mutant: a source need only be connected or censused.
Fails_EitherWillDo(check, b) ==
  CASE check = "rights_compatibility" ->
         b.rights = None \/ (b.rights = "training" /\ ~b.inheritable)
    [] check = "privacy_floor"        -> ~b.floor
    [] check = "pii_posture"          -> ~b.pii \/ ~b.resolvable
    [] check = "budget_ceiling"       ->
         b.budget = None \/ b.budget <= 0 \/ (b.org # None /\ b.budget > b.org)
    [] check = "scope_resolvability"  -> ~(b.scope \subseteq b.connected \cup b.censused)

Fails(check, b) ==
  CASE check = "rights_compatibility" ->
         b.rights = None \/ (b.rights = "training" /\ ~b.inheritable)
    [] check = "privacy_floor"        -> ~b.floor
    [] check = "pii_posture"          -> ~b.pii \/ ~b.resolvable
    [] check = "budget_ceiling"       ->
         b.budget = None \/ b.budget <= 0 \/ (b.org # None /\ b.budget > b.org)
    [] check = "scope_resolvability"  -> ~(b.scope \subseteq b.connected \cap b.censused)

\* The checks that fail, by their places in the order.
FailedChecks(b) == {i \in DOMAIN CheckNames : Fails(CheckNames[i], b)}
FirstFailed(b) == CheckNames[Min(FailedChecks(b))]

\* evaluate_auto_run_ceiling: a missing budget counts as nothing spent.
Spend(b) == IF b.budget = None THEN 0 ELSE b.budget
AtOrUnder(b, ceiling) == Spend(b) <= ceiling

\* The ceiling record refuses negative amounts: the commit then fails before a verdict.
CeilingReadable(b, ceiling) == Spend(b) >= 0 /\ ceiling >= 0

AbsoluteChecks == {"rights_compatibility", "pii_posture"}

\* compose_verdict: the first failed check decides the kind, then the ceiling.
\* Mutant: the ceiling is asked first.
ComposeVerdict_CeilingFirst(b, ceiling) ==
  IF ~AtOrUnder(b, ceiling)
  THEN [outcome |-> "held_for_check", kind |-> "escalatable", reason |-> "auto_run_ceiling_exceeded"]
  ELSE IF FailedChecks(b) # {}
  THEN [outcome |-> "refused", reason |-> FirstFailed(b),
        kind |-> IF FirstFailed(b) \in AbsoluteChecks THEN "absolute" ELSE "escalatable"]
  ELSE [outcome |-> "runs_now", kind |-> None, reason |-> None]

ComposeVerdict(b, ceiling) ==
  IF FailedChecks(b) # {}
  THEN [outcome |-> "refused", reason |-> FirstFailed(b),
        kind |-> IF FirstFailed(b) \in AbsoluteChecks THEN "absolute" ELSE "escalatable"]
  ELSE IF ~AtOrUnder(b, ceiling)
  THEN [outcome |-> "held_for_check", kind |-> "escalatable", reason |-> "auto_run_ceiling_exceeded"]
  ELSE [outcome |-> "runs_now", kind |-> None, reason |-> None]
==============================================================================
