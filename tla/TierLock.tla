-------------------------------- MODULE TierLock --------------------------------
(***************************************************************************)
(* The pricing control surface and the quotes it governs.  Posting a tier  *)
(* lock looks its key up in the ledger, writes the next version of the     *)
(* marker file, looks the key up again, writes the ledger row and only     *)
(* then moves the flag in the process's memory.  Issuing a quote checks    *)
(* form, expiry, flag and fleet without an await, and records the quote    *)
(* before it is told.  A crash loses the flag and keeps files and rows.    *)
(***************************************************************************)
EXTENDS Naturals, Sequences, SequencesExt, FiniteSets, FiniteSetsExt

CONSTANTS
  LockPosts,      \* posts of the control surface
  LockKeys,       \* idempotency keys, which a post may repeat with another body
  QuoteAsks,
  QuoteRequests,  \* [form, grain, standard, scope, fork]
  MaxBoots        \* bound: starts of the process

\* The run identifier of a rule change begins with words that no quote's begins with.
ASSUME TierAssumption ==
  /\ MaxBoots \in Nat /\ LockKeys \cap QuoteAsks = {}
  /\ QuoteRequests \subseteq [form : STRING, grain : STRING, standard : STRING, scope : Nat, fork : STRING]

VARIABLES
  markers,   \* the files tier_lock.vN.json, by version: [key, locked]
  tierRows,  \* the ledger: rule changes [key, from, to, path] and minted quotes
  locked,    \* _TIER_LOCK_STATE
  expired,   \* the price model's time is over
  fleetZero, \* the capacity classes the fleet policy gives nothing
  posting,   \* the posts
  quoting,   \* the quotes
  boots      \* starts of the process

tierVars == <<markers, tierRows, locked, expired, fleetZero, posting, quoting, boots>>

TierInit ==
  /\ markers = <<>> /\ tierRows = <<>> /\ locked = FALSE /\ expired = FALSE
  /\ fleetZero \in {{}, {"transforms"}}
  /\ posting = [h \in LockPosts |-> [pc |-> "idle"]]
  /\ quoting = [q \in QuoteAsks |-> [pc |-> "idle"]]
  /\ boots = 1

RuleRowsOf(key) == {i \in DOMAIN tierRows : tierRows[i].kind = "rule_change" /\ tierRows[i].key = key}
KeyKnown(key) == RuleRowsOf(key) # {}

------------------------------------------------------------------------------
\* post_tier_lock: a key with a row is answered from the row, with the flag as it is; neither
\* here nor later is the body compared with what the key was first posted with.
PostFind(h, key, body) ==
  /\ posting[h].pc = "idle"
  /\ posting' = [posting EXCEPT ![h] =
       IF KeyKnown(key) THEN [pc |-> "replayed", key |-> key, path |-> tierRows[Min(RuleRowsOf(key))].path, locked |-> locked]
       ELSE [pc |-> "write", key |-> key, body |-> body, from |-> locked, boot |-> boots]]
  /\ UNCHANGED <<markers, tierRows, locked, expired, fleetZero, quoting, boots>>

\* _next_tier_lock_version_path counts the files, which nothing removes; no await lies between
\* the count and the write.
PostWrite(h) ==
  /\ posting[h].pc = "write"
  /\ markers' = Append(markers, [key |-> posting[h].key, locked |-> posting[h].body])
  /\ posting' = [posting EXCEPT ![h] =
       [pc |-> "record", key |-> @.key, body |-> @.body, from |-> @.from, boot |-> @.boot, path |-> Len(markers')]]
  /\ UNCHANGED <<tierRows, locked, expired, fleetZero, quoting, boots>>

\* record_master_admin_rule_change: a row written meanwhile is taken for this post's own.
PostRecord(h) ==
  /\ posting[h].pc = "record"
  /\ posting' = [posting EXCEPT ![h].pc = IF KeyKnown(posting[h].key) THEN "set" ELSE "insert"]
  /\ UNCHANGED <<markers, tierRows, locked, expired, fleetZero, quoting, boots>>
RuleChange(h) ==
  [kind |-> "rule_change", key |-> posting[h].key, from |-> posting[h].from,
   to |-> posting[h].body, path |-> posting[h].path]
\* Mutant: the flag moves before the row is written.
PostInsert_FlagFirst(h) ==
  /\ posting[h].pc = "insert"
  /\ locked' = posting[h].body
  /\ posting' = [posting EXCEPT ![h].pc = "set"]
  /\ UNCHANGED <<markers, tierRows, expired, fleetZero, quoting, boots>>
PostInsert(h) ==
  /\ posting[h].pc = "insert"
  /\ tierRows' = Append(tierRows, RuleChange(h))
  /\ posting' = [posting EXCEPT ![h].pc = "set"]
  /\ UNCHANGED <<markers, locked, expired, fleetZero, quoting, boots>>

\* set_tier_lock, and the answer.
PostSet(h) ==
  /\ posting[h].pc = "set"
  /\ locked' = posting[h].body
  /\ posting' = [posting EXCEPT ![h].pc = "told"]
  /\ UNCHANGED <<markers, tierRows, expired, fleetZero, quoting, boots>>

------------------------------------------------------------------------------
\* The multipliers of the price model, in tenths; a form without one is not quotable.
FormMultiplier(form) == CASE form = "qualified_data" -> 10 [] form = "composed_conclusion" -> 14 [] OTHER -> 0
ReachMultiplier(scope) ==
  CASE scope <= 3 -> 10 [] scope > 3 /\ scope <= 20 -> 15 [] scope > 20 /\ scope <= 100 -> 25 [] OTHER -> 40
GrainMultiplier(grain) == CASE grain = "per_claim" -> 10 [] grain = "aggregated" -> 9 [] OTHER -> 12
StandardMultiplier(standard) ==
  CASE standard = "utterance" -> 10 [] standard = "non_factual" -> 11 [] standard = "fact" -> 14 [] OTHER -> 16
IsFormQuotable(request) == FormMultiplier(request.form) # 0

\* classify_delivery, and compute_figure in cents: 10.00 times six multipliers, half a cent up.
ClassifyDelivery(fork) == IF fork = "warm" THEN "warm_qualified" ELSE "fresh_extraction"
ComputeFigure(request) ==
  LET forks == IF ClassifyDelivery(request.fork) = "warm_qualified" THEN 10 * 10 ELSE 22 * 18
      product == ReachMultiplier(request.scope) * FormMultiplier(request.form) * GrainMultiplier(request.grain)
                 * StandardMultiplier(request.standard) * forks
  IN  (product + 500) \div 1000
CapacityClassFor(request) ==
  IF request.form \in {"qualified_data", "composed_conclusion"} THEN "transforms" ELSE "mining"

\* issue_quote's refusals, in their order, or "mint".
\* Mutant: the flag is not looked at.
QuoteDecision_LockIgnored(request) ==
  CASE ~IsFormQuotable(request) -> "form_not_offerable"
    [] IsFormQuotable(request) /\ expired -> "exploratory_tier_expired"
    [] IsFormQuotable(request) /\ ~expired /\ CapacityClassFor(request) \in fleetZero -> "fleet_policy_reserved_zero_capacity"
    [] OTHER -> "mint"
QuoteDecision(request) ==
  CASE ~IsFormQuotable(request) -> "form_not_offerable"
    [] IsFormQuotable(request) /\ expired -> "exploratory_tier_expired"
    [] IsFormQuotable(request) /\ ~expired /\ locked -> "pricing_tier_frozen_by_control_surface"
    [] IsFormQuotable(request) /\ ~expired /\ ~locked /\ CapacityClassFor(request) \in fleetZero ->
         "fleet_policy_reserved_zero_capacity"
    [] OTHER -> "mint"

\* The posts whose lock was told in this run of the process.
LocksTold == {h \in LockPosts : posting[h].pc = "told" /\ posting[h].body /\ posting[h].boot = boots}
Unlocking == {h \in LockPosts : posting[h].pc \notin {"idle", "lost", "replayed"} /\ ~posting[h].body}
QuoteDecide(q, request) ==
  /\ quoting[q].pc = "idle"
  /\ quoting' = [quoting EXCEPT ![q] =
       [pc |-> IF QuoteDecision(request) = "mint" THEN "mint" ELSE "refused",
        request |-> request, reason |-> QuoteDecision(request), boot |-> boots,
        frozen |-> LocksTold # {} /\ Unlocking = {}]]
  /\ UNCHANGED <<markers, tierRows, locked, expired, fleetZero, posting, boots>>

\* record_quote_event: the row of the mint, under a run of its own, then the quote.
QuoteRow(q) ==
  [kind |-> "minted", key |-> q, figure |-> ComputeFigure(quoting[q].request),
   class |-> ClassifyDelivery(quoting[q].request.fork)]
QuoteMint(q) ==
  /\ quoting[q].pc = "mint"
  /\ tierRows' = Append(tierRows, QuoteRow(q))
  /\ quoting' = [quoting EXCEPT ![q].pc = "minted"]
  /\ UNCHANGED <<markers, locked, expired, fleetZero, posting, boots>>

\* is_expired becomes true, once.
Expire ==
  /\ ~expired /\ expired' = TRUE
  /\ UNCHANGED <<markers, tierRows, locked, fleetZero, posting, quoting, boots>>

\* The process dies and starts: the flag is down, requests in flight are gone.
TierCrash ==
  /\ boots < MaxBoots /\ boots' = boots + 1 /\ locked' = FALSE
  /\ posting' = [h \in LockPosts |-> IF posting[h].pc \in {"write", "record", "insert", "set"}
                                     THEN [posting[h] EXCEPT !.pc = "lost"] ELSE posting[h]]
  /\ quoting' = [q \in QuoteAsks |-> IF quoting[q].pc = "mint" THEN [quoting[q] EXCEPT !.pc = "lost"] ELSE quoting[q]]
  /\ UNCHANGED <<markers, tierRows, expired, fleetZero>>

TierNext ==
  \/ \E h \in LockPosts : \/ \E key \in LockKeys, body \in BOOLEAN : PostFind(h, key, body)
                          \/ PostWrite(h) \/ PostRecord(h) \/ PostInsert(h) \/ PostSet(h)
  \/ \E q \in QuoteAsks : \/ \E request \in QuoteRequests : QuoteDecide(q, request)
                          \/ QuoteMint(q)
  \/ Expire \/ TierCrash
TierSpec == TierInit /\ [][TierNext]_tierVars

------------------------------------------------------------------------------
RuleChanges == {i \in DOMAIN tierRows : tierRows[i].kind = "rule_change"}

\* The posts past their first lookup; a key two of them carry with opposite bodies.
Writers == {h \in LockPosts : posting[h].pc \notin {"idle", "replayed"}}
Contested(key) ==
  \E f, g \in Writers : posting[f].key = key /\ posting[g].key = key /\ posting[f].body # posting[g].body

\* A row of the post's key says what the post set, unless its key was contested: then the row
\* may be the other post's, and the flag moved against it.
RowBacks(h) ==
  \E i \in RuleRowsOf(posting[h].key) : tierRows[i].to = posting[h].body \/ Contested(posting[h].key)

\* The flag is up only by a lock told in this run of the process, and what was told has its
\* row, saying the same, but where two posts of one key with opposite bodies overlapped; each
\* row names a marker file of its own with its key and its body, although requests take
\* versions while others write; a repeat is told of its own key's file; once a lock was told and
\* no unlocking was begun, quotes are refused until the process restarts; a quote is told with
\* its row and its figure, a refusal without one, and no fresh quote undercuts the warm one for
\* the same request.
TierLockGoverns ==
  /\ locked => LocksTold # {}
  /\ \A h \in LockPosts : posting[h].pc = "told" => RowBacks(h)
  /\ \A i \in RuleChanges :
       /\ markers[tierRows[i].path] = [key |-> tierRows[i].key, locked |-> tierRows[i].to]
       /\ \A j \in RuleChanges : i # j => tierRows[i].path # tierRows[j].path
  /\ \A h \in LockPosts : posting[h].pc \in {"told", "replayed"} =>
       /\ KeyKnown(posting[h].key)
       /\ markers[posting[h].path].key = posting[h].key
  /\ \A q \in QuoteAsks :
       /\ quoting[q].pc = "minted" =>
            ~quoting[q].frozen /\ \E i \in DOMAIN tierRows : tierRows[i] = QuoteRow(q)
       /\ quoting[q].pc = "refused" => \A i \in DOMAIN tierRows : tierRows[i].key # q
  /\ \A p, q \in QuoteAsks :
       /\ quoting[p].pc = "minted" /\ quoting[q].pc = "minted"
       /\ quoting[p].request = [quoting[q].request EXCEPT !.fork = "warm"]
       => ComputeFigure(quoting[p].request) <= ComputeFigure(quoting[q].request)
================================================================================
