---------------------------- MODULE InstanceOnboard ----------------------------
(***************************************************************************)
(* The intake of one instance: its context is inserted once, and each value *)
(* set for the first time is written to the ledger in an insert of its own; *)
(* a backfill writes the row of the seam value that came later.  Every      *)
(* await is a step, so calls interleave and a crash leaves the rows short.  *)
(*                                                                         *)
(* A call whose body names another instance is refused before any read, and *)
(* so does not appear.                                                     *)
(***************************************************************************)
EXTENDS Naturals, Sequences

CONSTANTS
  Intakes,    \* onboard requests, each with a body of its own
  Backfills,  \* backfill requests
  Earlier     \* an intake completed before the sixth seam value existed

ASSUME IntakeAssumption == Earlier \notin Intakes /\ Intakes \cap Backfills = {}

VARIABLES
  contexts,   \* instance_onboard_context documents, in their order of insertion
  seamRows,   \* initial_set rows of northena_ledger: who wrote which key
  intakes,    \* the onboard requests
  backfills   \* the backfill requests

onboardVars == <<contexts, seamRows, intakes, backfills>>

Sixth == "quarantine_systemic_halt_threshold"

\* The fields of SeamValues.
SeamValues ==
  {"deletion_consequence_classes", "rule_tightening_delay_hours", "objection_escalation_days",
   "suspension_re_review_days", "outer_gate_manual_review_threshold", Sixth}

FiveSeams ==
  <<"deletion_consequence_classes", "rule_tightening_delay_hours", "objection_escalation_days",
    "suspension_re_review_days", "outer_gate_manual_review_threshold">>
\* Mutant: the list of the handler was not grown with the sixth value.
RowKeys_Five == FiveSeams \o <<"estate_inventory", "org_vocabulary_seat">>
RowKeys == FiveSeams \o <<Sixth, "estate_inventory", "org_vocabulary_seat">>

SeamRow(by, key) == [by |-> by, key |-> key]

OnboardInit ==
  /\ \E before \in BOOLEAN :
       IF before
       THEN /\ contexts = <<Earlier>>
            /\ seamRows = {SeamRow(Earlier, RowKeys_Five[i]) : i \in DOMAIN RowKeys_Five}
       ELSE contexts = <<>> /\ seamRows = {}
  /\ intakes = [h \in Intakes |-> [pc |-> "idle", written |-> 0]]
  /\ backfills = [b \in Backfills |-> "idle"]

\* find_one for the instance: a context that exists answers 409.
OnboardLook(h) ==
  /\ intakes[h].pc = "idle"
  /\ intakes' = [intakes EXCEPT ![h].pc = IF contexts = <<>> THEN "insert" ELSE "refused"]
  /\ UNCHANGED <<contexts, seamRows, backfills>>

\* Nothing makes the instance unique: who looked before this insert inserts another.
OnboardInsert(h) ==
  /\ intakes[h].pc = "insert"
  /\ contexts' = Append(contexts, h)
  /\ intakes' = [intakes EXCEPT ![h].pc = "rows"]
  /\ UNCHANGED <<seamRows, backfills>>

\* _append_initial_set_ledger_row, key after key; after the last the caller is told.
OnboardRow(h) ==
  /\ intakes[h].pc = "rows"
  /\ LET next == intakes[h].written + 1
     IN  /\ seamRows' = seamRows \cup {SeamRow(h, RowKeys[next])}
         /\ intakes' = [intakes EXCEPT ![h] = [pc |-> IF next = Len(RowKeys) THEN "onboarded" ELSE "rows",
                                               written |-> next]]
  /\ UNCHANGED <<contexts, backfills>>

\* backfill_g3_sixth_seam_value: by whom the row is, the lookup does not ask, and whether
\* there is a context neither.
HasSixth == \E row \in seamRows : row.key = Sixth
BackfillLook(b) ==
  /\ backfills[b] = "idle"
  /\ backfills' = [backfills EXCEPT ![b] = IF HasSixth THEN "already_backfilled" ELSE "write"]
  /\ UNCHANGED <<contexts, seamRows, intakes>>
BackfillWrite(b) ==
  /\ backfills[b] = "write"
  /\ seamRows' = seamRows \cup {SeamRow(b, Sixth)}
  /\ backfills' = [backfills EXCEPT ![b] = "backfilled"]
  /\ UNCHANGED <<contexts, intakes>>

\* The process dies: requests in flight are gone, and what they have written stays.
Onboarding(h) == intakes[h].pc \in {"insert", "rows"}
OnboardCrash ==
  /\ (\E h \in Intakes : Onboarding(h)) \/ (\E b \in Backfills : backfills[b] = "write")
  /\ intakes' = [h \in Intakes |-> IF Onboarding(h) THEN [intakes[h] EXCEPT !.pc = "lost"] ELSE intakes[h]]
  /\ backfills' = [b \in Backfills |-> IF backfills[b] = "write" THEN "lost" ELSE backfills[b]]
  /\ UNCHANGED <<contexts, seamRows>>

OnboardNext ==
  \/ \E h \in Intakes : OnboardLook(h) \/ OnboardInsert(h) \/ OnboardRow(h)
  \/ \E b \in Backfills : BackfillLook(b) \/ BackfillWrite(b)
  \/ OnboardCrash
OnboardSpec == OnboardInit /\ [][OnboardNext]_onboardVars

------------------------------------------------------------------------------
\* s2_onboard_read: the context there is, the first of several.
CurrentContext == Head(contexts)
Audited(by) == {row.key : row \in {r \in seamRows : r.by = by}}
AllKeys == SeamValues \cup {"estate_inventory", "org_vocabulary_seat"}

\* "The ceremony is waived, the audit trail is not": who is told that an instance is
\* onboarded left the row of every value it set, also when two intakes passed the lookup
\* together; a context lacks rows only while its intake runs or after it died; each row
\* stems from a context or a backfill, a refused intake left neither context nor row and
\* never hides one that stands, and after any backfill's answer the sixth value is on
\* record, by an intake or by one of the backfills that met.
OnboardingOnRecord ==
  /\ \A h \in Intakes : intakes[h].pc = "onboarded" =>
       Audited(h) = AllKeys /\ \E i \in DOMAIN contexts : contexts[i] = h
  /\ \A i \in DOMAIN contexts : contexts[i] # Earlier /\ Audited(contexts[i]) # AllKeys =>
       intakes[contexts[i]].pc \in {"rows", "lost"}
  /\ \A row \in seamRows :
       \/ \E i \in DOMAIN contexts : contexts[i] = row.by
       \/ row.by \in Backfills /\ backfills[row.by] = "backfilled" /\ row.key = Sixth
  /\ \A h \in Intakes : intakes[h].pc = "refused" =>
       contexts # <<>> /\ CurrentContext # h /\ Audited(h) = {}
  /\ \A b \in Backfills : backfills[b] \in {"backfilled", "already_backfilled"} => HasSixth
================================================================================
