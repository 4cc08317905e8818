-------------------------- MODULE GovernedRegistries ---------------------------
(***************************************************************************)
(* The versioned registries of the govern console.  An upload stages rows; *)
(* a commit compares them with the current version and, when they only     *)
(* add, inserts the next version and marks the upload.  A commit is four   *)
(* database calls with other requests in between, and no index keeps       *)
(* version numbers or uploads apart.                                       *)
(*                                                                         *)
(* Roles are not modelled: callers without one change nothing.             *)
(***************************************************************************)
EXTENDS Naturals, Sequences, SequencesExt, FiniteSets

CONSTANTS
  Registries,
  Uploads,      \* upload ids that may be issued
  Ids,          \* row ids
  Values,       \* what a row may say besides its id
  NoId,
  MaxRows,      \* rows an upload may carry
  Clerks,       \* commits served at once
  LastVersion   \* bound: version numbers

ASSUME RegistriesAssumption == NoId \notin Ids \cup Uploads /\ MaxRows \in Nat /\ LastVersion \in Nat

VARIABLES
  staged,       \* govern_registries_staged_diffs
  versions,     \* govern_registries_versions
  commits       \* commits in progress, by clerk

registryVars == <<staged, versions, commits>>

\* Rows as uploaded, and as stored: an id to what the row says.
Sheets == UNION {[1..n -> [id : Ids \cup {NoId}, says : Values]] : n \in 0..MaxRows}
Rows == UNION {[ids -> Values] : ids \in SUBSET Ids}
Version == [name : Registries, version : Nat \ {0}, rows : Rows, by : Uploads]
Idle == [pc |-> "idle"]

RegistriesTypeOK ==
  /\ \A u \in DOMAIN staged :
       u \in Uploads /\ staged[u] \in [name : Registries, rows : Rows, state : {"staged", "committed"}]
  /\ \A d \in versions : d \in Version
  /\ DOMAIN commits = Clerks

RegistriesInit ==
  /\ staged = [u \in {} |-> NoId]
  /\ versions = {}
  /\ commits = [k \in Clerks |-> Idle]

------------------------------------------------------------------------------

\* Every row carries an id and no id comes twice; one bad row refuses the upload.
Validated(sheet) ==
  /\ \A i \in DOMAIN sheet : sheet[i].id # NoId
  /\ \A i, j \in DOMAIN sheet : sheet[i].id = sheet[j].id => i = j

RowsOf(sheet) ==
  [id \in {sheet[i].id : i \in DOMAIN sheet} |-> (CHOOSE row \in ToSet(sheet) : row.id = id).says]

PostRegistryUpload(u, name, sheet) ==
  /\ u \notin DOMAIN staged
  /\ Validated(sheet)
  /\ staged' = [v \in DOMAIN staged \cup {u} |->
                  IF v = u THEN [name |-> name, rows |-> RowsOf(sheet), state |-> "staged"]
                  ELSE staged[v]]
  /\ UNCHANGED <<versions, commits>>

\* The documents find_one(sort version -1) may return; {} when the registry is empty.
CurrentVersions(name) ==
  {d \in versions : d.name = name /\ \A e \in versions : e.name = name => e.version <= d.version}

\* post_registry_diff and the commit compare alike.
Diff(current, proposed) ==
  [added   |-> DOMAIN proposed \ DOMAIN current,
   removed |-> DOMAIN current \ DOMAIN proposed,
   changed |-> {id \in DOMAIN proposed \cap DOMAIN current : proposed[id] # current[id]}]

\* Mutant: the edits are not looked for.
ApprovalRequired_RemovalsOnly(current, proposed) == Diff(current, proposed).removed # {}

ApprovalRequired(current, proposed) ==
  Diff(current, proposed).removed # {} \/ Diff(current, proposed).changed # {}

\* The staged diff is read; one already committed is refused.
BeginCommit(k, u) ==
  /\ commits[k] = Idle
  /\ u \in DOMAIN staged /\ staged[u].state = "staged"
  /\ commits' = [commits EXCEPT ![k] = [pc |-> "compare", upload |-> u]]
  /\ UNCHANGED <<staged, versions>>

\* The current version is read and compared; removals and edits are sent to the checker.
CompareWithCurrent(k) ==
  /\ commits[k].pc = "compare"
  /\ LET s == staged[commits[k].upload]
         found == CurrentVersions(s.name)
         next(rows, n) ==
           IF ApprovalRequired(rows, s.rows) THEN Idle
           ELSE [pc |-> "insert", upload |-> commits[k].upload, next |-> n]
     IN  \/ found = {} /\ commits' = [commits EXCEPT ![k] = next([id \in {} |-> NoId], 1)]
         \/ \E d \in found : commits' = [commits EXCEPT ![k] = next(d.rows, d.version + 1)]
  /\ UNCHANGED <<staged, versions>>

InsertVersion(k) ==
  /\ commits[k].pc = "insert" /\ commits[k].next <= LastVersion
  /\ LET u == commits[k].upload
     IN  /\ versions' = versions \cup
              {[name |-> staged[u].name, version |-> commits[k].next, rows |-> staged[u].rows, by |-> u]}
         /\ commits' = [commits EXCEPT ![k] = [pc |-> "mark", upload |-> u]]
  /\ UNCHANGED staged

MarkCommitted(k) ==
  /\ commits[k].pc = "mark"
  /\ staged' = [staged EXCEPT ![commits[k].upload].state = "committed"]
  /\ commits' = [commits EXCEPT ![k] = Idle]
  /\ UNCHANGED versions

\* The process restarts: the commits in progress are gone.
RestartGovern ==
  /\ \E k \in Clerks : commits[k] # Idle
  /\ commits' = [k \in Clerks |-> Idle]
  /\ UNCHANGED <<staged, versions>>

RegistriesNext ==
  \/ \E u \in Uploads, name \in Registries, sheet \in Sheets : PostRegistryUpload(u, name, sheet)
  \/ \E k \in Clerks, u \in Uploads : BeginCommit(k, u)
  \/ \E k \in Clerks : CompareWithCurrent(k)
  \/ \E k \in Clerks : InsertVersion(k)
  \/ \E k \in Clerks : MarkCommitted(k)
  \/ RestartGovern

RegistriesSpec == RegistriesInit /\ [][RegistriesNext]_registryVars

------------------------------------------------------------------------------
Extends(d, e) == DOMAIN e.rows \subseteq DOMAIN d.rows /\ \A id \in DOMAIN e.rows : d.rows[id] = e.rows[id]

\* Canon 7.4 as the commit keeps it: what takes effect without approval only adds.  Every
\* version past the first repeats all rows of some version numbered one below it, however
\* the commits overlap and wherever the process stops.
EveryVersionExtendsOne ==
  \A d \in versions : d.version > 1 =>
    \E e \in versions : e.name = d.name /\ e.version + 1 = d.version /\ Extends(d, e)

\* An upload marked committed has its rows in a version: the mark follows the insert.
MarkedIsAVersion ==
  \A u \in DOMAIN staged : staged[u].state = "committed" =>
    \E d \in versions : d.name = staged[u].name /\ d.by = u /\ d.rows = staged[u].rows

\* What the console's header says of commits: no row leaves a registry but through the
\* checker.  Two overlapping commits of additions break it.
NoRowLeaves ==
  \A d, e \in versions : d.name = e.name /\ e.version < d.version => Extends(d, e)
==============================================================================
