----------------------------- MODULE Consoles_proofs -----------------------------
(***************************************************************************)
(* The operator consoles and Service 1's dispatch, each by itself, for     *)
(* every value of its constants: the registries of the govern console,     *)
(* retention, the intake of an instance, use data, the sources, the prove  *)
(* console, the tier lock, the warm answers over the estate, and the       *)
(* artifact store.                                                         *)
(***************************************************************************)
EXTENDS GovernedRegistries, RetentionRules, InstanceOnboard, UseDataSessions, ConnectSources, ProveRegister,
        TierLock, EstateService, ArtifactStore, SequenceTheorems, FiniteSetTheorems, TLAPS

--------------------------------------------------------------------------------
(***************************************************************************)
(* The registries of the govern console, for any number of registries,     *)
(* uploads and clerks.  The invariant follows a commit through its four    *)
(* calls: what it compared stays in the registry, and what it inserts is   *)
(* what it compared, because a staged diff never changes but for its mark. *)
(***************************************************************************)

\* What the upload of a commit extends, when it is about to insert.
Grounds(k) ==
  \/ commits[k].next = 1
  \/ \E e \in versions : /\ e.name = staged[commits[k].upload].name
                         /\ e.version + 1 = commits[k].next
                         /\ Extends(staged[commits[k].upload], e)

Inserted(u) ==
  \E d \in versions : d.name = staged[u].name /\ d.by = u /\ d.rows = staged[u].rows

CommitOK(k) ==
  /\ commits[k].pc # "idle" => commits[k].upload \in DOMAIN staged
  /\ commits[k].pc = "insert" => Grounds(k)
  /\ commits[k].pc = "mark" => Inserted(commits[k].upload)

RegistriesInv ==
  /\ commits = [k \in Clerks |-> commits[k]]
  /\ staged = [u \in DOMAIN staged |-> staged[u]]
  /\ \A u \in DOMAIN staged : staged[u] = [name |-> staged[u].name, rows |-> staged[u].rows, state |-> staged[u].state]
  /\ \A k \in Clerks : CommitOK(k)
  /\ EveryVersionExtendsOne
  /\ MarkedIsAVersion

\* What a commit compares without approval repeats every row of the version it read.
LEMMA UnapprovedExtends ==
  ASSUME NEW d, NEW s, ~ApprovalRequired(d.rows, s.rows)
  PROVE  Extends(s, d)
  BY DEF ApprovalRequired, Diff, Extends

\* A step that only adds versions and staged diffs keeps what a clerk it does not move holds.
LEMMA Undisturbed ==
  ASSUME NEW k, CommitOK(k), commits'[k] = commits[k], versions \subseteq versions',
         DOMAIN staged \subseteq DOMAIN staged',
         \A u \in DOMAIN staged : staged'[u].name = staged[u].name /\ staged'[u].rows = staged[u].rows
  PROVE  CommitOK(k)'
  <1>1. CASE commits[k].pc = "idle"
    BY <1>1 DEF CommitOK
  <1>2. CASE commits[k].pc # "idle"
    <2>1. commits[k].upload \in DOMAIN staged
      BY <1>2 DEF CommitOK
    <2>2. Grounds(k) => Grounds(k)'
      BY <2>1 DEF Grounds, Extends
    <2>3. Inserted(commits[k].upload) => Inserted(commits[k].upload)'
      BY <2>1 DEF Inserted
    <2> QED
      BY <1>2, <2>1, <2>2, <2>3 DEF CommitOK
  <1> QED
    BY <1>1, <1>2

LEMMA MarkedStays ==
  ASSUME MarkedIsAVersion, versions \subseteq versions', staged' = staged
  PROVE  MarkedIsAVersion'
  BY DEF MarkedIsAVersion

LEMMA RegistriesInitInv == RegistriesInit => RegistriesInv
  <1> SUFFICES ASSUME RegistriesInit PROVE RegistriesInv
    OBVIOUS
  <1>1. \A k \in Clerks : commits[k].pc = "idle"
    BY DEF RegistriesInit, Idle
  <1>2. \A k \in Clerks : CommitOK(k)
    BY <1>1 DEF CommitOK
  <1> QED
    BY <1>2 DEF RegistriesInit, RegistriesInv, EveryVersionExtendsOne, MarkedIsAVersion

LEMMA UploadKeeps ==
  ASSUME RegistriesInv, NEW u \in Uploads, NEW name \in Registries, NEW sheet \in Sheets,
         PostRegistryUpload(u, name, sheet)
  PROVE  RegistriesInv'
  <1>1. /\ DOMAIN staged' = DOMAIN staged \cup {u} /\ u \notin DOMAIN staged
        /\ staged' = [v \in DOMAIN staged' |-> staged'[v]]
        /\ \A v \in DOMAIN staged : staged'[v] = staged[v]
        /\ staged'[u] = [name |-> name, rows |-> RowsOf(sheet), state |-> "staged"]
        /\ versions' = versions /\ commits' = commits
    BY DEF PostRegistryUpload
  <1>2. \A k \in Clerks : CommitOK(k)'
    BY <1>1, Undisturbed DEF RegistriesInv
  <1>3. \A v \in DOMAIN staged' : staged'[v] = [name |-> staged'[v].name, rows |-> staged'[v].rows, state |-> staged'[v].state]
    BY <1>1 DEF RegistriesInv
  <1>4. EveryVersionExtendsOne'
    BY <1>1 DEF RegistriesInv, EveryVersionExtendsOne
  <1>5. MarkedIsAVersion'
    BY <1>1 DEF RegistriesInv, MarkedIsAVersion
  <1> QED
    BY <1>1, <1>2, <1>3, <1>4, <1>5 DEF RegistriesInv

LEMMA BeginKeeps ==
  ASSUME RegistriesInv, NEW k \in Clerks, NEW u \in Uploads, BeginCommit(k, u)
  PROVE  RegistriesInv'
  <1>1. /\ commits' = [commits EXCEPT ![k] = [pc |-> "compare", upload |-> u]]
        /\ u \in DOMAIN staged /\ staged' = staged /\ versions' = versions
    BY DEF BeginCommit
  <1>2. commits' = [j \in Clerks |-> commits'[j]] /\ commits'[k] = [pc |-> "compare", upload |-> u]
    BY <1>1 DEF RegistriesInv
  <1>3. \A j \in Clerks \ {k} : CommitOK(j)'
    BY <1>1, Undisturbed DEF RegistriesInv
  <1>4. CommitOK(k)'
    BY <1>1, <1>2 DEF CommitOK
  <1> QED
    BY <1>1, <1>2, <1>3, <1>4, MarkedStays DEF RegistriesInv, EveryVersionExtendsOne

LEMMA CompareKeeps ==
  ASSUME RegistriesInv, NEW k \in Clerks, CompareWithCurrent(k)
  PROVE  RegistriesInv'
  <1> DEFINE u == commits[k].upload
             s == staged[u]
  <1>1. commits[k].pc = "compare" /\ staged' = staged /\ versions' = versions
    BY DEF CompareWithCurrent
  <1>2. u \in DOMAIN staged
    BY <1>1 DEF RegistriesInv, CommitOK
  <1>3. PICK c : /\ commits' = [commits EXCEPT ![k] = c]
                 /\ \/ c = Idle
                    \/ c = [pc |-> "insert", upload |-> u, next |-> 1]
                    \/ \E d \in CurrentVersions(s.name) :
                         /\ c = [pc |-> "insert", upload |-> u, next |-> d.version + 1]
                         /\ ~ApprovalRequired(d.rows, s.rows)
    BY DEF CompareWithCurrent
  <1>4. commits' = [j \in Clerks |-> commits'[j]] /\ commits'[k] = c
    BY <1>3 DEF RegistriesInv
  <1>5. \A j \in Clerks \ {k} : CommitOK(j)'
    BY <1>1, <1>3, Undisturbed DEF RegistriesInv
  <1>6. CommitOK(k)'
    <2>1. CASE c = Idle
      BY <1>4, <2>1 DEF CommitOK, Idle
    <2>2. CASE c = [pc |-> "insert", upload |-> u, next |-> 1]
      BY <1>1, <1>2, <1>4, <2>2 DEF CommitOK, Grounds
    <2>3. ASSUME NEW d \in CurrentVersions(s.name),
                 c = [pc |-> "insert", upload |-> u, next |-> d.version + 1],
                 ~ApprovalRequired(d.rows, s.rows)
          PROVE  CommitOK(k)'
      <3>1. Extends(s, d)
        BY <2>3, UnapprovedExtends
      <3>2. d \in versions /\ d.name = s.name
        BY <2>3 DEF CurrentVersions
      <3>3. commits'[k].pc = "insert" /\ commits'[k].upload = u /\ commits'[k].next = d.version + 1
        BY <1>4, <2>3
      <3>4. Grounds(k)'
        BY <1>1, <3>1, <3>2, <3>3 DEF Grounds, Extends
      <3> QED
        BY <1>1, <1>2, <3>3, <3>4 DEF CommitOK
    <2> QED
      BY <1>3, <2>1, <2>2, <2>3
  <1> QED
    BY <1>1, <1>4, <1>5, <1>6, MarkedStays DEF RegistriesInv, EveryVersionExtendsOne

LEMMA InsertKeeps ==
  ASSUME RegistriesInv, NEW k \in Clerks, InsertVersion(k)
  PROVE  RegistriesInv'
  <1> DEFINE u == commits[k].upload
             d == [name |-> staged[u].name, version |-> commits[k].next, rows |-> staged[u].rows, by |-> u]
  <1>1. /\ commits[k].pc = "insert" /\ staged' = staged /\ versions' = versions \cup {d}
        /\ commits' = [commits EXCEPT ![k] = [pc |-> "mark", upload |-> u]]
    BY DEF InsertVersion
  <1>2. commits' = [j \in Clerks |-> commits'[j]] /\ commits'[k] = [pc |-> "mark", upload |-> u]
    BY <1>1 DEF RegistriesInv
  <1>3. u \in DOMAIN staged /\ Grounds(k)
    BY <1>1 DEF RegistriesInv, CommitOK
  <1>4. \A j \in Clerks \ {k} : CommitOK(j)'
    BY <1>1, Undisturbed DEF RegistriesInv
  <1>5. CommitOK(k)'
    <2>1. d \in versions' /\ d.name = staged'[u].name /\ d.by = u /\ d.rows = staged'[u].rows
      BY <1>1
    <2>2. commits'[k].pc = "mark" /\ commits'[k].upload = u
      BY <1>2
    <2> HIDE DEF u, d
    <2>3. Inserted(commits[k].upload)'
      BY <2>1, <2>2 DEF Inserted
    <2> QED
      BY <1>1, <1>3, <2>2, <2>3 DEF CommitOK
  <1>6. EveryVersionExtendsOne'
    <2> SUFFICES ASSUME NEW x \in versions', x.version > 1
                 PROVE  \E e \in versions' : e.name = x.name /\ e.version + 1 = x.version /\ Extends(x, e)
      BY DEF EveryVersionExtendsOne
    <2>1. CASE x \in versions
      BY <1>1, <2>1 DEF RegistriesInv, EveryVersionExtendsOne
    <2>2. CASE x = d
      <3>1. commits[k].next # 1
        BY <2>2
      <3>2. PICK e \in versions : /\ e.name = staged[u].name /\ e.version + 1 = commits[k].next
                                  /\ Extends(staged[u], e)
        BY <1>3, <3>1 DEF Grounds
      <3>3. Extends(d, e)
        BY <3>2 DEF Extends
      <3> QED
        BY <1>1, <2>2, <3>2, <3>3
    <2> QED
      BY <1>1, <2>1, <2>2
  <1> QED
    BY <1>1, <1>2, <1>4, <1>5, <1>6, MarkedStays DEF RegistriesInv

LEMMA MarkKeeps ==
  ASSUME RegistriesInv, NEW k \in Clerks, MarkCommitted(k)
  PROVE  RegistriesInv'
  <1> DEFINE u == commits[k].upload
  <1>1. /\ commits[k].pc = "mark" /\ versions' = versions
        /\ staged' = [staged EXCEPT ![u].state = "committed"]
        /\ commits' = [commits EXCEPT ![k] = Idle]
    BY DEF MarkCommitted
  <1>2. u \in DOMAIN staged /\ Inserted(u)
    BY <1>1 DEF RegistriesInv, CommitOK
  <1>3. commits' = [j \in Clerks |-> commits'[j]] /\ commits'[k] = Idle
    BY <1>1 DEF RegistriesInv
  <1>4. /\ DOMAIN staged' = DOMAIN staged /\ staged' = [v \in DOMAIN staged' |-> staged'[v]]
        /\ \A v \in DOMAIN staged \ {u} : staged'[v] = staged[v]
        /\ staged'[u] = [name |-> staged[u].name, rows |-> staged[u].rows, state |-> "committed"]
    <2>1. staged[u] = [name |-> staged[u].name, rows |-> staged[u].rows, state |-> staged[u].state]
      BY <1>2 DEF RegistriesInv
    <2>2. staged'[u] = [staged[u] EXCEPT !.state = "committed"]
      BY <1>1, <1>2
    <2>3. [[name |-> staged[u].name, rows |-> staged[u].rows, state |-> staged[u].state] EXCEPT !.state = "committed"]
            = [name |-> staged[u].name, rows |-> staged[u].rows, state |-> "committed"]
      OBVIOUS
    <2> QED
      BY <1>1, <1>2, <2>1, <2>2, <2>3
  <1>5. \A v \in DOMAIN staged : staged'[v].name = staged[v].name /\ staged'[v].rows = staged[v].rows
    BY <1>4
  <1>6. \A j \in Clerks \ {k} : CommitOK(j)'
    BY <1>1, <1>4, <1>5, Undisturbed DEF RegistriesInv
  <1>7. CommitOK(k)'
    BY <1>3 DEF CommitOK, Idle
  <1>8. MarkedIsAVersion'
    BY <1>1, <1>2, <1>4 DEF RegistriesInv, MarkedIsAVersion, Inserted
  <1>9. \A v \in DOMAIN staged' : staged'[v] = [name |-> staged'[v].name, rows |-> staged'[v].rows, state |-> staged'[v].state]
    BY <1>2, <1>4 DEF RegistriesInv
  <1> QED
    BY <1>1, <1>3, <1>4, <1>6, <1>7, <1>8, <1>9 DEF RegistriesInv, EveryVersionExtendsOne

LEMMA RestartKeeps ==
  ASSUME RegistriesInv, RestartGovern
  PROVE  RegistriesInv'
  <1>1. commits' = [k \in Clerks |-> Idle] /\ staged' = staged /\ versions' = versions
    BY DEF RestartGovern
  <1>2. \A k \in Clerks : CommitOK(k)'
    BY <1>1 DEF CommitOK, Idle
  <1> QED
    BY <1>1, <1>2, MarkedStays DEF RegistriesInv, EveryVersionExtendsOne

LEMMA RegistriesStep == RegistriesInv /\ [RegistriesNext]_registryVars => RegistriesInv'
  <1> SUFFICES ASSUME RegistriesInv, [RegistriesNext]_registryVars PROVE RegistriesInv'
    OBVIOUS
  <1>1. CASE UNCHANGED registryVars
    <2>1. \A k \in Clerks : CommitOK(k)'
      BY <1>1, Undisturbed DEF RegistriesInv, registryVars
    <2> QED
      BY <1>1, <2>1, MarkedStays DEF RegistriesInv, registryVars, EveryVersionExtendsOne
  <1>2. CASE RegistriesNext
    BY <1>2, UploadKeeps, BeginKeeps, CompareKeeps, InsertKeeps, MarkKeeps, RestartKeeps DEF RegistriesNext
  <1> QED
    BY <1>1, <1>2

\* Canon 7.4 for every number of registries, uploads and overlapping commits: a version past the
\* first repeats every row of some version numbered one below it (post_registry_commit).
THEOREM EveryVersionExtendsOneHolds == RegistriesSpec => []EveryVersionExtendsOne
  <1>1. RegistriesInv => EveryVersionExtendsOne
    BY DEF RegistriesInv
  <1> QED
    BY <1>1, RegistriesInitInv, RegistriesStep, PTL DEF RegistriesSpec

\* An upload marked committed has its rows in a version: the mark follows the insert, and
\* neither a restart nor another commit takes the version away.
THEOREM MarkedIsAVersionHolds == RegistriesSpec => []MarkedIsAVersion
  <1>1. RegistriesInv => MarkedIsAVersion
    BY DEF RegistriesInv
  <1> QED
    BY <1>1, RegistriesInitInv, RegistriesStep, PTL DEF RegistriesSpec
--------------------------------------------------------------------------------
(***************************************************************************)
(* Retention for any classes, windows and documents.  The invariant adds   *)
(* to the property what a torn file may stand on: a write begins only on   *)
(* a file that can be read, so the file below a torn one can be; and that  *)
(* the cutoff a deletion by the configured rule has taken is still one the *)
(* latest readable rule allows when it deletes.                            *)
(***************************************************************************)

FilesOK ==
  /\ files \in Seq(Windows \cup {TornFile}) /\ Len(files) \in Nat \ {0}
  /\ \A n \in 1..(Len(files) - 1) : files[n] \in Windows /\ files[n] # TornFile
  /\ Latest \in Windows \cup {TornFile}

Past == [class : Held, day : Nat]

\* The rule as it can be read deletes all that is before the cutoff.
StillAllowed(class, cutoff) ==
  /\ class \in Held /\ cutoff \in Int /\ Readable \in Windows
  /\ Readable[class] # Null /\ cutoff <= today - Readable[class]

CutoffsHold == \A d \in deleting : d.configured => StillAllowed(d.class, d.cutoff)

RetentionInv ==
  /\ FilesOK
  /\ today \in Nat
  /\ \A d \in DOMAIN store : store[d] \in Past
  /\ ruled \subseteq Past
  /\ ruled # {} => Readable \in Windows
  /\ CutoffsHold
  /\ DeletedIsStillDue

\* A window that is not loosened stays set, and deletes at least as much.
LEMMA NotLoosened ==
  ASSUME NEW old \in Days, NEW new \in Days \cup {Null}, Classify(old, new) # "loosening"
  PROVE  new \in Days /\ new <= old
  <1>1. old \in Int /\ old # Null
    BY RetentionAssumption
  <1>2. CASE old = new
    BY <1>1, <1>2
  <1>3. CASE old # new
    <2>1. ~IsLoosening(old, new)
      BY <1>3 DEF Classify
    <2>2. new \in Days
      BY <1>1, <2>1 DEF IsLoosening
    <2>3. new \in Int /\ new # Null
      BY <2>2, RetentionAssumption
    <2> QED
      BY <1>1, <2>1, <2>2, <2>3 DEF IsLoosening
  <1> QED
    BY <1>2, <1>3

LEMMA WindowsAreRead ==
  ASSUME NEW h \in Held, NEW windows \in Windows
  PROVE  windows # TornFile /\ windows[h] \in Days \cup {Null}
  BY DEF Windows, TornFile

\* What a file appended to readable ones does to the files.
LEMMA Appended ==
  ASSUME FilesOK, Latest # TornFile, NEW windows \in Windows \cup {TornFile}, files' = Append(files, windows)
  PROVE  FilesOK' /\ Latest' = windows /\ files'[Len(files') - 1] = Latest /\ Latest \in Windows
  <1>1. Len(files') = Len(files) + 1 /\ files' \in Seq(Windows \cup {TornFile})
    BY DEF FilesOK
  <1>2. \A n \in 1..Len(files) : files'[n] = files[n]
    BY DEF FilesOK
  <1>3. files'[Len(files) + 1] = windows
    BY DEF FilesOK
  <1>4. Latest' = windows
    BY <1>1, <1>3 DEF Latest
  <1>5. Latest \in Windows /\ files[Len(files)] = Latest
    BY DEF FilesOK, Latest
  <1>6. \A n \in 1..(Len(files') - 1) : files'[n] \in Windows /\ files'[n] # TornFile
    <2> SUFFICES ASSUME NEW n \in 1..Len(files) PROVE files[n] \in Windows /\ files[n] # TornFile
      BY <1>1, <1>2 DEF FilesOK
    <2>1. CASE n = Len(files)
      BY <1>5, <2>1
    <2>2. CASE n # Len(files)
      BY <2>2 DEF FilesOK
    <2> QED
      BY <2>1, <2>2
  <1>7. files'[Len(files') - 1] = Latest
    BY <1>1, <1>2, <1>5 DEF FilesOK
  <1>8. Len(files') \in Nat \ {0}
    BY <1>1 DEF FilesOK
  <1> QED
    BY <1>1, <1>4, <1>5, <1>6, <1>7, <1>8 DEF FilesOK

LEMMA RetentionInitInv == RetentionInit => RetentionInv
  <1> SUFFICES ASSUME RetentionInit PROVE RetentionInv
    OBVIOUS
  <1>1. [h \in Held |-> Null] \in Windows
    BY DEF Windows
  <1>2. FilesOK
    BY <1>1 DEF RetentionInit, FilesOK, Latest
  <1> QED
    BY <1>2 DEF RetentionInit, RetentionInv, CutoffsHold, DeletedIsStillDue

\* A step that leaves the files, the day and the history alone, adds no document and no
\* deletion by the configured rule.
LEMMA OthersKeep ==
  ASSUME RetentionInv, files' = files, today' = today, ruled' = ruled,
         \A d \in deleting' : d.configured => d \in deleting,
         DOMAIN store' \subseteq DOMAIN store, \A d \in DOMAIN store' : store'[d] = store[d]
  PROVE  RetentionInv'
  <1>1. Readable' = Readable
    BY DEF Readable, Latest
  <1>2. CutoffsHold'
    BY <1>1 DEF RetentionInv, CutoffsHold, StillAllowed
  <1> QED
    BY <1>1, <1>2 DEF RetentionInv, FilesOK, Latest, DeletedIsStillDue

LEMMA PostKeeps ==
  ASSUME RetentionInv, NEW payload \in Payloads, PostRetentionConfig(payload)
  PROVE  RetentionInv'
  <1>1. Latest # TornFile /\ store' = store /\ today' = today /\ ruled' = ruled /\ deleting' = deleting
    BY DEF PostRetentionConfig
  <1>2. CASE ~Accepted(payload)
    <2>1. files' = files
      BY <1>2 DEF PostRetentionConfig
    <2> QED
      BY <1>1, <2>1, OthersKeep
  <1>3. CASE Accepted(payload)
    <2>1. files' = Append(files, NextWindows(payload))
      BY <1>3 DEF PostRetentionConfig
    <2>2. Latest \in Windows /\ Readable = Latest
      BY <1>1 DEF RetentionInv, FilesOK, Readable
    <2>3. NextWindows(payload) \in Windows
      <3>1. \A h \in DOMAIN payload : payload[h] \in Days \cup {Null}
        BY DEF Payloads
      <3> QED
        BY <2>2, <3>1 DEF NextWindows, Windows
    <2>4. FilesOK' /\ Latest' = NextWindows(payload)
      BY <1>1, <2>1, <2>3, Appended DEF RetentionInv
    <2>5. ASSUME NEW class \in Held, Readable[class] # Null
          PROVE  /\ Readable[class] \in Int /\ Readable' \in Windows /\ Readable'[class] \in Int
                 /\ Readable'[class] # Null /\ Readable'[class] <= Readable[class]
      <3> DEFINE old == Latest[class]
                 new == NextWindows(payload)[class]
      <3>1. old \in Days /\ new \in Days \cup {Null}
        BY <2>2, <2>3, <2>5, WindowsAreRead
      <3>2. class \in DOMAIN payload => new = payload[class]
        BY DEF NextWindows
      <3>3. class \notin DOMAIN payload => new = old
        BY DEF NextWindows
      <3>4. class \in DOMAIN payload => Classify(old, new) # "loosening"
        BY <1>3, <3>2 DEF Accepted
      <3> HIDE DEF old, new
      <3>5. old \in Int /\ new \in Int /\ new # Null /\ new <= old
        <4>1. CASE class \in DOMAIN payload
          BY <3>1, <3>4, <4>1, NotLoosened, RetentionAssumption
        <4>2. CASE class \notin DOMAIN payload
          BY <3>1, <3>3, <4>2, RetentionAssumption
        <4> QED
          BY <4>1, <4>2
      <3>6. Readable' = NextWindows(payload)
        BY <2>3, <2>4, WindowsAreRead DEF Readable
      <3> QED
        BY <2>2, <2>3, <3>5, <3>6 DEF old, new
    <2>6. DeletedIsStillDue' /\ (ruled' # {} => Readable' \in Windows)
      <3> SUFFICES ASSUME NEW gone \in ruled
                   PROVE  /\ Readable' \in Windows
                          /\ Readable'[gone.class] # Null /\ gone.day < today - Readable'[gone.class]
        BY <1>1 DEF DeletedIsStillDue
      <3>1. gone.class \in Held /\ gone.day \in Nat /\ today \in Nat
        BY DEF RetentionInv, Past
      <3>2. Readable[gone.class] # Null /\ gone.day < today - Readable[gone.class]
        BY DEF RetentionInv, DeletedIsStillDue
      <3> QED
        BY <2>5, <3>1, <3>2
    <2>7. CutoffsHold'
      <3> SUFFICES ASSUME NEW d \in deleting, d.configured PROVE StillAllowed(d.class, d.cutoff)'
        BY <1>1 DEF CutoffsHold
      <3>1. StillAllowed(d.class, d.cutoff) /\ today \in Nat
        BY DEF RetentionInv, CutoffsHold
      <3> QED
        BY <1>1, <2>5, <3>1 DEF StillAllowed
    <2> QED
      BY <1>1, <2>4, <2>6, <2>7 DEF RetentionInv
  <1> QED
    BY <1>2, <1>3

LEMMA DieWritingKeeps ==
  ASSUME RetentionInv, NEW payload \in Payloads, DieWriting(payload)
  PROVE  RetentionInv'
  <1>1. /\ Latest # TornFile /\ files' = Append(files, TornFile)
        /\ store' = store /\ today' = today /\ ruled' = ruled /\ deleting' = {}
    BY DEF DieWriting
  <1>2. FilesOK' /\ Latest' = TornFile /\ files'[Len(files') - 1] = Latest
    BY <1>1, Appended DEF RetentionInv
  <1>3. Readable' = Readable
    BY <1>1, <1>2 DEF Readable
  <1> QED
    BY <1>1, <1>2, <1>3 DEF RetentionInv, CutoffsHold, DeletedIsStillDue

\* The cutoff is the one the file just read allows.
LEMMA DeleteByConfigKeeps ==
  ASSUME RetentionInv, NEW class \in Held, DeleteByConfig(class)
  PROVE  RetentionInv'
  <1>1. /\ Latest # TornFile /\ Latest[class] # Null
        /\ deleting' = {[class |-> class, cutoff |-> today - Latest[class], configured |-> TRUE]}
        /\ files' = files /\ store' = store /\ today' = today /\ ruled' = ruled
    BY DEF DeleteByConfig
  <1>2. Readable = Latest /\ Latest \in Windows /\ Readable' = Readable
    BY <1>1 DEF Readable, RetentionInv, FilesOK, Latest
  <1>3. Latest[class] \in Int /\ today \in Nat
    BY <1>1, <1>2, WindowsAreRead, RetentionAssumption DEF RetentionInv
  <1>4. StillAllowed(class, today - Latest[class])'
    BY <1>1, <1>2, <1>3 DEF StillAllowed, Latest
  <1>5. CutoffsHold'
    BY <1>1, <1>4 DEF CutoffsHold, Latest, StillAllowed
  <1> QED
    BY <1>1, <1>2, <1>5 DEF RetentionInv, FilesOK, Latest, DeletedIsStillDue

LEMMA ExecuteDeletionKeeps ==
  ASSUME RetentionInv, NEW d \in deleting, ExecuteDeletion(d)
  PROVE  RetentionInv'
  <1> DEFINE gone == {g \in Expired(d.class, d.cutoff) : d.configured}
  <1>1. /\ store' = [e \in DOMAIN store \ Expired(d.class, d.cutoff) |-> store[e]]
        /\ ruled' = ruled \cup {store[e] : e \in gone}
        /\ files' = files /\ today' = today /\ deleting' \subseteq deleting
    BY DEF ExecuteDeletion
  <1>2. Readable' = Readable /\ today \in Nat
    BY <1>1 DEF Readable, RetentionInv, Latest
  <1>3. \A g \in gone : store[g] \in Past /\ store[g].class = d.class /\ store[g].day < d.cutoff /\ d.configured
    BY DEF Expired, RetentionInv
  <1>4. ASSUME NEW x \in ruled'
        PROVE  x \in Past /\ Readable \in Windows /\ Readable[x.class] # Null /\ x.day < today - Readable[x.class]
    <2>1. CASE x \in ruled
      BY <2>1 DEF RetentionInv, DeletedIsStillDue
    <2>2. CASE x \in {store[e] : e \in gone}
      <3>1. x \in Past /\ x.class = d.class /\ x.day < d.cutoff /\ d.configured
        BY <1>3, <2>2
      <3>2. StillAllowed(d.class, d.cutoff)
        BY <3>1 DEF RetentionInv, CutoffsHold
      <3>3. Readable[d.class] \in Int /\ x.day \in Nat
        BY <3>1, <3>2, WindowsAreRead, RetentionAssumption DEF StillAllowed, Past
      <3> QED
        BY <1>2, <3>1, <3>2, <3>3 DEF StillAllowed
    <2> QED
      BY <1>1, <2>1, <2>2
  <1>5. DeletedIsStillDue' /\ ruled' \subseteq Past /\ (ruled' # {} => Readable' \in Windows)
    BY <1>1, <1>2, <1>4 DEF DeletedIsStillDue
  <1>6. CutoffsHold'
    BY <1>1, <1>2 DEF RetentionInv, CutoffsHold, StillAllowed
  <1>7. \A e \in DOMAIN store' : store'[e] \in Past
    BY <1>1 DEF RetentionInv
  <1>8. FilesOK'
    BY <1>1 DEF RetentionInv, FilesOK, Latest
  <1> QED
    BY <1>1, <1>5, <1>6, <1>7, <1>8 DEF RetentionInv

LEMMA ArriveKeeps ==
  ASSUME RetentionInv, NEW d \in Dated, NEW class \in Held, Arrive(d, class)
  PROVE  RetentionInv'
  <1>1. /\ store' = [e \in DOMAIN store \cup {d} |-> IF e = d THEN [class |-> class, day |-> today] ELSE store[e]]
        /\ files' = files /\ today' = today /\ ruled' = ruled /\ deleting' = deleting
    BY DEF Arrive
  <1>2. [class |-> class, day |-> today] \in Past
    BY DEF RetentionInv, Past
  <1>3. \A e \in DOMAIN store' : store'[e] \in Past
    BY <1>1, <1>2 DEF RetentionInv
  <1> QED
    BY <1>1, <1>3 DEF RetentionInv, FilesOK, Latest, Readable, CutoffsHold, StillAllowed, DeletedIsStillDue

LEMMA NextDayKeeps ==
  ASSUME RetentionInv, NextDay
  PROVE  RetentionInv'
  <1>1. today' = today + 1 /\ files' = files /\ store' = store /\ ruled' = ruled /\ deleting' = deleting
    BY DEF NextDay
  <1>2. today \in Nat /\ today' \in Nat /\ Readable' = Readable
    BY <1>1 DEF RetentionInv, Readable, Latest
  <1>3. DeletedIsStillDue'
    <2> SUFFICES ASSUME NEW x \in ruled PROVE Readable[x.class] # Null /\ x.day < today' - Readable[x.class]
      BY <1>1, <1>2 DEF DeletedIsStillDue
    <2>1. Readable[x.class] # Null /\ x.day < today - Readable[x.class] /\ Readable \in Windows
      BY DEF RetentionInv, DeletedIsStillDue
    <2>2. x.class \in Held /\ x.day \in Nat
      BY DEF RetentionInv, Past
    <2>3. Readable[x.class] \in Int
      BY <2>1, <2>2, WindowsAreRead, RetentionAssumption
    <2> QED
      BY <1>1, <1>2, <2>1, <2>2, <2>3
  <1>4. CutoffsHold'
    <2> SUFFICES ASSUME NEW d \in deleting, d.configured PROVE StillAllowed(d.class, d.cutoff)'
      BY <1>1 DEF CutoffsHold
    <2>1. StillAllowed(d.class, d.cutoff)
      BY DEF RetentionInv, CutoffsHold
    <2>2. Readable[d.class] \in Int
      BY <2>1, WindowsAreRead, RetentionAssumption DEF StillAllowed
    <2> QED
      BY <1>1, <1>2, <2>1, <2>2 DEF StillAllowed
  <1> QED
    BY <1>1, <1>2, <1>3, <1>4 DEF RetentionInv, FilesOK, Latest

LEMMA RetentionStep == RetentionInv /\ [RetentionNext]_retentionVars => RetentionInv'
  <1> SUFFICES ASSUME RetentionInv, [RetentionNext]_retentionVars PROVE RetentionInv'
    OBVIOUS
  <1>1. CASE UNCHANGED retentionVars
    BY <1>1, OthersKeep DEF retentionVars
  <1>2. ASSUME NEW row \in owed, WriteLedgerRow(row) PROVE RetentionInv'
    BY <1>2, OthersKeep DEF WriteLedgerRow
  <1>3. CASE RestartCompliance
    BY <1>3, OthersKeep DEF RestartCompliance
  <1>4. ASSUME NEW class \in Held, NEW window \in Days, DeleteByBody(class, window) PROVE RetentionInv'
    BY <1>4, OthersKeep DEF DeleteByBody
  <1> QED
    BY <1>1, <1>2, <1>3, <1>4, PostKeeps, DieWritingKeeps, DeleteByConfigKeeps, ExecuteDeletionKeeps, ArriveKeeps, NextDayKeeps
       DEF RetentionNext

\* Whatever the classes, windows, writes and crashes: what the configured rule once deleted, the
\* latest readable rule would delete again today, because a write may only shorten a window.
THEOREM DeletedIsStillDueHolds == RetentionSpec => []DeletedIsStillDue
  <1>1. RetentionInv => DeletedIsStillDue
    BY DEF RetentionInv
  <1> QED
    BY <1>1, RetentionInitInv, RetentionStep, PTL DEF RetentionSpec

--------------------------------------------------------------------------------
(***************************************************************************)
(* The intake of an instance, for any number of overlapping intakes and    *)
(* backfills.  The invariant is that the rows of an intake are those of    *)
(* the first keys of its list, as many as it has counted, and that its     *)
(* context stands from its first row on; so an intake that is told         *)
(* onboarded has left all eight, one that was refused none.                *)
(***************************************************************************)

\* The rows an intake has written are those of the first keys of its list.
IntakePlaces == {"idle", "insert", "rows", "onboarded", "refused", "lost"}
FirstKeys(n) == {RowKeys[i] : i \in 1..n}
HasContext(h) == \E i \in DOMAIN contexts : contexts[i] = h

IntakeOK(h) ==
  /\ Audited(h) = FirstKeys(intakes[h].written)
  /\ HasContext(h) => intakes[h].pc \in {"rows", "onboarded", "lost"}
  /\ intakes[h].pc \in {"rows", "onboarded"} => HasContext(h)
  /\ intakes[h].written > 0 => HasContext(h)
  /\ intakes[h].pc = "rows" => intakes[h].written < 8
  /\ intakes[h].pc = "onboarded" => intakes[h].written = 8
  /\ intakes[h].pc = "refused" => contexts # <<>>

OnboardTypeOK ==
  /\ contexts \in Seq(Intakes \cup {Earlier})
  /\ intakes \in [Intakes -> [pc : IntakePlaces, written : 0..8]]
  /\ backfills \in [Backfills -> {"idle", "write", "backfilled", "already_backfilled", "lost"}]
  /\ seamRows \subseteq [by : Intakes \cup Backfills \cup {Earlier}, key : AllKeys]

SourcedOK ==
  /\ \A row \in seamRows :
       \/ HasContext(row.by)
       \/ row.by \in Backfills /\ backfills[row.by] = "backfilled" /\ row.key = Sixth
  /\ \A b \in Backfills : backfills[b] \in {"backfilled", "already_backfilled"} => HasSixth

OnboardInv == OnboardTypeOK /\ SourcedOK /\ \A h \in Intakes : IntakeOK(h)

LEMMA RowKeysAre ==
  /\ Len(RowKeys) = 8 /\ \A i \in 1..8 : RowKeys[i] \in AllKeys
  /\ FirstKeys(8) = AllKeys /\ FirstKeys(0) = {}
  /\ \A n \in 0..7 : FirstKeys(n + 1) = FirstKeys(n) \cup {RowKeys[n + 1]}
  /\ \A i \in DOMAIN RowKeys_Five : RowKeys_Five[i] \in AllKeys
  /\ Sixth \in AllKeys
  <1> DEFINE tail == <<Sixth, "estate_inventory", "org_vocabulary_seat">>
             seat == <<"estate_inventory", "org_vocabulary_seat">>
  <1>0. /\ "deletion_consequence_classes" \in AllKeys /\ "rule_tightening_delay_hours" \in AllKeys
        /\ "objection_escalation_days" \in AllKeys /\ "suspension_re_review_days" \in AllKeys
        /\ "outer_gate_manual_review_threshold" \in AllKeys /\ Sixth \in AllKeys
        /\ "estate_inventory" \in AllKeys /\ "org_vocabulary_seat" \in AllKeys
    BY DEF AllKeys, SeamValues
  <1>a. FiveSeams \in Seq(AllKeys) /\ Len(FiveSeams) = 5
    BY <1>0 DEF FiveSeams
  <1>b. /\ FiveSeams[1] = "deletion_consequence_classes" /\ FiveSeams[2] = "rule_tightening_delay_hours"
        /\ FiveSeams[3] = "objection_escalation_days" /\ FiveSeams[4] = "suspension_re_review_days"
        /\ FiveSeams[5] = "outer_gate_manual_review_threshold"
    BY DEF FiveSeams
  <1>c. /\ tail \in Seq(AllKeys) /\ Len(tail) = 3 /\ tail[1] = Sixth /\ tail[2] = "estate_inventory"
        /\ tail[3] = "org_vocabulary_seat"
    BY <1>0
  <1>d. /\ seat \in Seq(AllKeys) /\ Len(seat) = 2 /\ seat[1] = "estate_inventory"
        /\ seat[2] = "org_vocabulary_seat"
    BY <1>0
  <1>e. RowKeys = FiveSeams \o tail
    BY DEF RowKeys
  <1>f. RowKeys_Five = FiveSeams \o seat
    BY DEF RowKeys_Five
  <1> HIDE DEF tail, seat
  <1>g. /\ RowKeys \in Seq(AllKeys) /\ Len(RowKeys) = 8
        /\ \A i \in 1..8 : RowKeys[i] = IF i <= 5 THEN FiveSeams[i] ELSE tail[i - 5]
    <2>1. /\ FiveSeams \o tail \in Seq(AllKeys)
          /\ Len(FiveSeams \o tail) = Len(FiveSeams) + Len(tail)
          /\ \A i \in 1 .. Len(FiveSeams) + Len(tail) :
               (FiveSeams \o tail)[i] = IF i <= Len(FiveSeams) THEN FiveSeams[i]
                                        ELSE tail[i - Len(FiveSeams)]
      BY <1>a, <1>c, ConcatProperties, Zenon
    <2> QED
      BY <1>a, <1>c, <1>e, <2>1
  <1>2. RowKeys_Five \in Seq(AllKeys)
    BY <1>a, <1>d, <1>f, ConcatProperties
  <1>1. /\ Len(RowKeys) = 8
        /\ RowKeys[1] = "deletion_consequence_classes" /\ RowKeys[2] = "rule_tightening_delay_hours"
        /\ RowKeys[3] = "objection_escalation_days" /\ RowKeys[4] = "suspension_re_review_days"
        /\ RowKeys[5] = "outer_gate_manual_review_threshold" /\ RowKeys[6] = Sixth
        /\ RowKeys[7] = "estate_inventory" /\ RowKeys[8] = "org_vocabulary_seat"
    BY <1>b, <1>c, <1>g
  <1>3. Len(RowKeys) = 8 /\ \A i \in 1..8 : RowKeys[i] \in AllKeys
    BY <1>g, ElementOfSeq
  <1>4. FirstKeys(8) = AllKeys
    <2>3. \A k \in AllKeys : k \in FirstKeys(8)
      BY <1>1 DEF AllKeys, SeamValues, FirstKeys
    <2> QED
      BY <1>3, <2>3 DEF FirstKeys
  <1>5. FirstKeys(0) = {}
    BY DEF FirstKeys
  <1>6. \A n \in 0..7 : FirstKeys(n + 1) = FirstKeys(n) \cup {RowKeys[n + 1]}
    BY DEF FirstKeys
  <1>7. \A i \in DOMAIN RowKeys_Five : RowKeys_Five[i] \in AllKeys
    BY <1>2
  <1> QED
    BY <1>0, <1>3, <1>4, <1>5, <1>6, <1>7

\* What a new context changes: its intake has one, the others have one as before.
LEMMA ContextAdded ==
  ASSUME contexts \in Seq(Intakes \cup {Earlier}), NEW h \in Intakes, contexts' = Append(contexts, h)
  PROVE  /\ contexts' \in Seq(Intakes \cup {Earlier}) /\ contexts' # <<>>
         /\ \A by : HasContext(by)' <=> HasContext(by) \/ by = h
  BY DEF HasContext

LEMMA OnboardInitInv == OnboardInit => OnboardInv
  <1> SUFFICES ASSUME OnboardInit PROVE OnboardInv
    OBVIOUS
  <1>1. PICK before \in BOOLEAN :
          IF before
          THEN /\ contexts = <<Earlier>>
               /\ seamRows = {SeamRow(Earlier, RowKeys_Five[i]) : i \in DOMAIN RowKeys_Five}
          ELSE contexts = <<>> /\ seamRows = {}
    BY DEF OnboardInit
  <1>2. \A row \in seamRows : row.by = Earlier /\ row.key \in AllKeys /\ contexts = <<Earlier>>
                              /\ row \in [by : Intakes \cup Backfills \cup {Earlier}, key : AllKeys]
    BY <1>1, RowKeysAre DEF SeamRow
  <1>3. \A by : HasContext(by) => by = Earlier
    BY <1>1 DEF HasContext
  <1>4. \A row \in seamRows : HasContext(row.by)
    BY <1>2 DEF HasContext
  <1>5. \A h \in Intakes : IntakeOK(h)
    <2> SUFFICES ASSUME NEW h \in Intakes PROVE IntakeOK(h)
      OBVIOUS
    <2>1. h # Earlier /\ intakes[h].pc = "idle" /\ intakes[h].written = 0
      BY IntakeAssumption DEF OnboardInit
    <2>2. Audited(h) = {}
      BY <1>2, <2>1 DEF Audited
    <2> QED
      BY <1>3, <2>1, <2>2, RowKeysAre DEF IntakeOK
  <1>6. OnboardTypeOK
    <2>1. contexts \in Seq(Intakes \cup {Earlier})
      <3>1. CASE contexts = <<Earlier>>
        BY <3>1
      <3>2. CASE contexts = <<>>
        BY <3>2
      <3> QED
        BY <1>1, <3>1, <3>2
    <2> QED
      BY <1>2, <2>1 DEF OnboardTypeOK, OnboardInit, IntakePlaces
  <1> QED
    BY <1>4, <1>5, <1>6 DEF OnboardInv, SourcedOK, OnboardInit

\* A step keeps what an intake it does not move has written.
LEMMA IntakeUndisturbed ==
  ASSUME NEW h \in Intakes, IntakeOK(h), intakes'[h] = intakes[h], contexts' = contexts,
         Audited(h)' = Audited(h)
  PROVE  IntakeOK(h)'
  BY DEF IntakeOK, HasContext

LEMMA OnboardLookInv ==
  ASSUME OnboardInv, NEW h \in Intakes, OnboardLook(h)
  PROVE  OnboardInv'
  <1> USE DEF OnboardLook
  <1>1. \A g \in Intakes : IntakeOK(g)'
    <2> SUFFICES ASSUME NEW g \in Intakes PROVE IntakeOK(g)'
      OBVIOUS
    <2>1. CASE g # h
      BY <2>1, IntakeUndisturbed DEF OnboardInv, OnboardTypeOK, Audited
    <2>2. CASE g = h
      <3>1. intakes'[h].pc \in {"insert", "refused"} /\ intakes'[h].written = intakes[h].written
            /\ (intakes'[h].pc = "refused" => contexts # <<>>)
        BY DEF OnboardInv, OnboardTypeOK
      <3>2. IntakeOK(h) /\ ~HasContext(h)
        BY DEF OnboardInv, IntakeOK
      <3>3. Audited(h)' = Audited(h) /\ (HasContext(h)' <=> HasContext(h)) /\ contexts' = contexts
        BY DEF Audited, HasContext
      <3> QED
        BY <2>2, <3>1, <3>2, <3>3 DEF IntakeOK
    <2> QED
      BY <2>1, <2>2
  <1>2. OnboardTypeOK'
    BY DEF OnboardInv, OnboardTypeOK, IntakePlaces
  <1> QED
    BY <1>1, <1>2 DEF OnboardInv, SourcedOK, HasContext, HasSixth

LEMMA OnboardInsertInv ==
  ASSUME OnboardInv, NEW h \in Intakes, OnboardInsert(h)
  PROVE  OnboardInv'
  <1> USE DEF OnboardInsert
  <1>0. contexts \in Seq(Intakes \cup {Earlier})
    BY DEF OnboardInv, OnboardTypeOK
  <1>1. \A g \in Intakes : IntakeOK(g)'
    <2> SUFFICES ASSUME NEW g \in Intakes PROVE IntakeOK(g)'
      OBVIOUS
    <2>1. IntakeOK(g) /\ Audited(g)' = Audited(g) /\ intakes[g].written \in 0..8
      BY DEF OnboardInv, OnboardTypeOK, Audited
    <2>2. CASE g # h
      <3>1. intakes'[g] = intakes[g]
        BY <2>2 DEF OnboardInv, OnboardTypeOK
      <3> QED
        BY <1>0, <2>1, <2>2, <3>1, ContextAdded DEF IntakeOK
    <2>3. CASE g = h
      <3>1. intakes'[g].pc = "rows" /\ intakes'[g].written = intakes[g].written
        BY <2>3 DEF OnboardInv, OnboardTypeOK
      <3>2. ~HasContext(g) /\ intakes[g].written = 0
        BY <2>1, <2>3 DEF IntakeOK
      <3> QED
        BY <1>0, <2>1, <2>3, <3>1, <3>2, ContextAdded DEF IntakeOK
    <2> QED
      BY <2>2, <2>3
  <1>2. OnboardTypeOK'
    BY <1>0, ContextAdded DEF OnboardInv, OnboardTypeOK, IntakePlaces
  <1> QED
    BY <1>0, <1>1, <1>2, ContextAdded DEF OnboardInv, SourcedOK, HasSixth

LEMMA OnboardRowInv ==
  ASSUME OnboardInv, NEW h \in Intakes, OnboardRow(h)
  PROVE  OnboardInv'
  <1> DEFINE n == intakes[h].written
             row == SeamRow(h, RowKeys[n + 1])
  <1>1. /\ n \in 0..7 /\ HasContext(h) /\ Audited(h) = FirstKeys(n)
        /\ intakes[h].pc = "rows"
    BY DEF OnboardInv, OnboardTypeOK, IntakeOK, OnboardRow
  <1>2. /\ seamRows' = seamRows \cup {row}
        /\ row.by = h /\ row.key = RowKeys[n + 1] /\ row.key \in AllKeys
        /\ row \in [by : Intakes \cup Backfills \cup {Earlier}, key : AllKeys]
    BY <1>1, RowKeysAre DEF OnboardRow, SeamRow
  <1>3. /\ intakes'[h] = [pc |-> IF n + 1 = 8 THEN "onboarded" ELSE "rows", written |-> n + 1]
        /\ \A g \in Intakes : g # h => intakes'[g] = intakes[g]
        /\ intakes' \in [Intakes -> [pc : IntakePlaces, written : 0..8]]
        /\ contexts' = contexts /\ backfills' = backfills
    BY <1>1, RowKeysAre DEF OnboardInv, OnboardTypeOK, OnboardRow, IntakePlaces
  <1> HIDE DEF row, n
  <1>4. \A g \in Intakes : IntakeOK(g)'
    <2> SUFFICES ASSUME NEW g \in Intakes PROVE IntakeOK(g)'
      OBVIOUS
    <2>1. CASE g # h
      BY <1>2, <1>3, <2>1, IntakeUndisturbed DEF OnboardInv, Audited
    <2>2. CASE g = h
      <3>1. Audited(h)' = FirstKeys(n + 1)
        BY <1>1, <1>2, RowKeysAre DEF Audited
      <3>2. HasContext(h)'
        BY <1>1, <1>3 DEF HasContext
      <3>3. intakes'[h].written = n + 1 /\ intakes'[h].pc = IF n + 1 = 8 THEN "onboarded" ELSE "rows"
        BY <1>3
      <3>4. Audited(h)' = FirstKeys(intakes'[h].written)
        BY <3>1, <3>3
      <3> QED
        BY <1>1, <2>2, <3>2, <3>3, <3>4 DEF IntakeOK
    <2> QED
      BY <2>1, <2>2
  <1>5. OnboardTypeOK'
    BY <1>2, <1>3 DEF OnboardInv, OnboardTypeOK
  <1>6. SourcedOK'
    BY <1>1, <1>2, <1>3 DEF OnboardInv, SourcedOK, HasContext, HasSixth
  <1> QED
    BY <1>4, <1>5, <1>6 DEF OnboardInv

LEMMA BackfillLookInv ==
  ASSUME OnboardInv, NEW b \in Backfills, BackfillLook(b)
  PROVE  OnboardInv'
  <1> USE DEF BackfillLook
  <1>1. /\ backfills' \in [Backfills -> {"idle", "write", "backfilled", "already_backfilled", "lost"}]
        /\ \A a \in Backfills : backfills[a] = "backfilled" => backfills'[a] = "backfilled"
        /\ \A a \in Backfills : backfills'[a] \in {"backfilled", "already_backfilled"} => HasSixth
    BY DEF OnboardInv, OnboardTypeOK, SourcedOK
  <1>2. \A h \in Intakes : IntakeOK(h)'
    BY IntakeUndisturbed DEF OnboardInv, Audited
  <1>3. SourcedOK'
    BY <1>1 DEF OnboardInv, SourcedOK, HasContext, HasSixth
  <1> QED
    BY <1>1, <1>2, <1>3 DEF OnboardInv, OnboardTypeOK

LEMMA BackfillWriteInv ==
  ASSUME OnboardInv, NEW b \in Backfills, BackfillWrite(b)
  PROVE  OnboardInv'
  <1> DEFINE row == SeamRow(b, Sixth)
  <1>1. /\ seamRows' = seamRows \cup {row} /\ row.by = b /\ row.key = Sixth
        /\ row \in [by : Intakes \cup Backfills \cup {Earlier}, key : AllKeys]
    BY RowKeysAre DEF BackfillWrite, SeamRow
  <1>2. /\ backfills' \in [Backfills -> {"idle", "write", "backfilled", "already_backfilled", "lost"}]
        /\ backfills'[b] = "backfilled"
        /\ \A a \in Backfills : a # b => backfills'[a] = backfills[a]
        /\ contexts' = contexts /\ intakes' = intakes
    BY DEF BackfillWrite, OnboardInv, OnboardTypeOK
  <1> HIDE DEF row
  <1>3. \A h \in Intakes : IntakeOK(h)'
    <2> SUFFICES ASSUME NEW h \in Intakes PROVE IntakeOK(h)'
      OBVIOUS
    <2>1. Audited(h)' = Audited(h)
      BY <1>1, IntakeAssumption DEF Audited
    <2> QED
      BY <1>2, <2>1, IntakeUndisturbed DEF OnboardInv
  <1>4. SourcedOK'
    BY <1>1, <1>2 DEF OnboardInv, SourcedOK, HasContext, HasSixth
  <1> QED
    BY <1>1, <1>2, <1>3, <1>4 DEF OnboardInv, OnboardTypeOK

LEMMA OnboardCrashInv ==
  ASSUME OnboardInv, OnboardCrash
  PROVE  OnboardInv'
  <1>1. /\ contexts' = contexts /\ seamRows' = seamRows
        /\ backfills' \in [Backfills -> {"idle", "write", "backfilled", "already_backfilled", "lost"}]
        /\ \A b \in Backfills :
             backfills'[b] # "lost" \/ backfills[b] # "write" => backfills'[b] = backfills[b]
    BY DEF OnboardCrash, OnboardInv, OnboardTypeOK
  <1>2. ASSUME NEW h \in Intakes
        PROVE  \/ intakes'[h] = intakes[h]
               \/ intakes'[h].pc = "lost" /\ intakes'[h].written = intakes[h].written
                  /\ intakes'[h] \in [pc : IntakePlaces, written : 0..8]
    BY DEF OnboardCrash, OnboardInv, OnboardTypeOK, IntakePlaces
  <1>3. intakes' \in [Intakes -> [pc : IntakePlaces, written : 0..8]]
    BY DEF OnboardCrash, OnboardInv, OnboardTypeOK, IntakePlaces
  <1>4. \A h \in Intakes : IntakeOK(h)'
    <2> SUFFICES ASSUME NEW h \in Intakes PROVE IntakeOK(h)'
      OBVIOUS
    <2>1. IntakeOK(h) /\ Audited(h)' = Audited(h)
      BY <1>1 DEF OnboardInv, Audited
    <2>2. CASE intakes'[h] = intakes[h]
      BY <1>1, <2>1, <2>2, IntakeUndisturbed
    <2>3. CASE intakes'[h].pc = "lost" /\ intakes'[h].written = intakes[h].written
      BY <1>1, <2>1, <2>3 DEF IntakeOK, HasContext
    <2> QED
      BY <1>2, <2>2, <2>3
  <1>5. SourcedOK'
    BY <1>1 DEF OnboardInv, SourcedOK, HasContext, HasSixth
  <1> QED
    BY <1>1, <1>3, <1>4, <1>5 DEF OnboardInv, OnboardTypeOK

LEMMA OnboardStep == OnboardInv /\ [OnboardNext]_onboardVars => OnboardInv'
  <1> SUFFICES ASSUME OnboardInv, [OnboardNext]_onboardVars PROVE OnboardInv'
    OBVIOUS
  <1>1. CASE UNCHANGED onboardVars
    BY <1>1 DEF onboardVars, OnboardInv, OnboardTypeOK, SourcedOK, IntakeOK, Audited, HasContext, HasSixth
  <1>2. CASE OnboardNext
    BY <1>2, OnboardLookInv, OnboardInsertInv, OnboardRowInv, BackfillLookInv, BackfillWriteInv,
       OnboardCrashInv DEF OnboardNext
  <1> QED
    BY <1>1, <1>2

LEMMA OnboardInvImplies == OnboardInv => OnboardingOnRecord
  <1> SUFFICES ASSUME OnboardInv PROVE OnboardingOnRecord
    OBVIOUS
  <1>1. ASSUME NEW h \in Intakes, intakes[h].pc = "onboarded"
        PROVE  Audited(h) = AllKeys /\ HasContext(h)
    BY <1>1, RowKeysAre DEF OnboardInv, IntakeOK
  <1>2. ASSUME NEW i \in DOMAIN contexts, contexts[i] # Earlier, Audited(contexts[i]) # AllKeys
        PROVE  intakes[contexts[i]].pc \in {"rows", "lost"}
    <2>1. contexts[i] \in Intakes
      BY <1>2 DEF OnboardInv, OnboardTypeOK
    <2>2. HasContext(contexts[i])
      BY DEF HasContext
    <2> QED
      BY <1>1, <1>2, <2>1, <2>2 DEF OnboardInv, IntakeOK
  <1>3. ASSUME NEW h \in Intakes, intakes[h].pc = "refused"
        PROVE  contexts # <<>> /\ CurrentContext # h /\ Audited(h) = {}
    <2>1. contexts # <<>> /\ ~HasContext(h) /\ intakes[h].written = 0
      BY <1>3 DEF OnboardInv, OnboardTypeOK, IntakeOK
    <2>2. CurrentContext = contexts[1] /\ 1 \in DOMAIN contexts
      BY <2>1 DEF OnboardInv, OnboardTypeOK, CurrentContext
    <2> QED
      BY <2>1, <2>2, RowKeysAre DEF OnboardInv, IntakeOK, HasContext
  <1> QED
    BY <1>1, <1>2, <1>3 DEF OnboardInv, SourcedOK, OnboardingOnRecord, HasContext

\* onboard: who is told that an instance is onboarded left every row, a refused intake left
\* nothing, and every row has its context or its backfill, whatever overlaps and dies.
THEOREM OnboardingOnRecordHolds == OnboardSpec => []OnboardingOnRecord
  BY OnboardInitInv, OnboardStep, OnboardInvImplies, PTL DEF OnboardSpec

--------------------------------------------------------------------------------
(***************************************************************************)
(* Use data, for any sessions, requests, bodies and ceilings.  A verdict   *)
(* keeps the number of ceilings there were when it was composed; ceilings  *)
(* are only ever appended, so what was in force then can be read at any    *)
(* later time.                                                             *)
(***************************************************************************)

\* A verdict was composed when as many changes of the ceiling were effective as it says.
CleanVerdict(v) ==
  v.outcome = "runs_now" =>
    /\ v.body.rights # None /\ v.body.floor /\ v.body.pii /\ v.body.resolvable
    /\ v.body.scope \subseteq v.body.connected /\ v.body.scope \subseteq v.body.censused
    /\ v.body.budget # None /\ v.body.budget <= CeilingAfter(v.at)

UseDataInv ==
  /\ ceilings \in Seq(Ceilings \cup {Malformed})
  /\ \A v \in told : v.at \in 0..Len(ceilings) /\ CleanVerdict(v)

LEMMA ChecksAre ==
  /\ DOMAIN CheckNames = 1..5
  /\ CheckNames[1] = "rights_compatibility" /\ CheckNames[2] = "privacy_floor"
  /\ CheckNames[3] = "pii_posture" /\ CheckNames[4] = "budget_ceiling"
  /\ CheckNames[5] = "scope_resolvability"
  BY DEF CheckNames

\* A body that no check fails, whose spend is within the ceiling.
LEMMA RunsNowPasses ==
  ASSUME NEW b, NEW ceiling, ComposeVerdict(b, ceiling).outcome = "runs_now"
  PROVE  /\ b.rights # None /\ b.floor /\ b.pii /\ b.resolvable
         /\ b.scope \subseteq b.connected /\ b.scope \subseteq b.censused
         /\ b.budget # None /\ b.budget <= ceiling
  <1>1. FailedChecks(b) = {} /\ AtOrUnder(b, ceiling)
    BY DEF ComposeVerdict
  <1>2. \A i \in 1..5 : ~Fails(CheckNames[i], b)
    BY <1>1, ChecksAre DEF FailedChecks
  <1>3. /\ ~Fails("rights_compatibility", b) /\ ~Fails("privacy_floor", b) /\ ~Fails("pii_posture", b)
        /\ ~Fails("budget_ceiling", b) /\ ~Fails("scope_resolvability", b)
    BY <1>2, ChecksAre
  <1>4. b.rights # None
    BY <1>3 DEF Fails
  <1>5. b.floor
    BY <1>3 DEF Fails
  <1>6. b.pii /\ b.resolvable
    BY <1>3 DEF Fails
  <1>7. b.budget # None
    BY <1>3 DEF Fails
  <1>8. b.scope \subseteq b.connected /\ b.scope \subseteq b.censused
    BY <1>3 DEF Fails
  <1>9. b.budget <= ceiling
    BY <1>1, <1>7 DEF AtOrUnder, Spend
  <1> QED
    BY <1>4, <1>5, <1>6, <1>7, <1>8, <1>9

LEMMA CeilingIsLatest ==
  ASSUME ceilings \in Seq(Ceilings \cup {Malformed})
  PROVE  EffectiveCeiling = CeilingAfter(Len(ceilings)) /\ Len(ceilings) \in 0..Len(ceilings)
  <1>1. Len(ceilings) \in Nat /\ (Len(ceilings) = 0 <=> ceilings = <<>>)
    OBVIOUS
  <1> QED
    BY <1>1 DEF EffectiveCeiling, CeilingAfter, Last

LEMMA VerdictsKept ==
  ASSUME UseDataInv, ceilings' = ceilings, told' = told
  PROVE  UseDataInv'
  BY DEF UseDataInv, CleanVerdict, CeilingAfter

LEMMA JudgeInv ==
  ASSUME UseDataInv, NEW r, JudgeCommission(r)
  PROVE  UseDataInv'
  <1> DEFINE b == desk[r].body
             v == [by |-> r, body |-> b, at |-> Len(ceilings), outcome |-> ComposeVerdict(b, EffectiveCeiling).outcome]
  <1>1. ceilings' = ceilings /\ told' \subseteq told \cup {v}
    BY DEF JudgeCommission
  <1>2. v.body = b /\ v.at = Len(ceilings) /\ v.outcome = ComposeVerdict(b, EffectiveCeiling).outcome
    OBVIOUS
  <1> HIDE DEF v, b
  <1>3. v.at \in 0..Len(ceilings) /\ CleanVerdict(v)
    BY <1>2, RunsNowPasses, CeilingIsLatest DEF UseDataInv, CleanVerdict
  <1> QED
    BY <1>1, <1>3 DEF UseDataInv, CleanVerdict, CeilingAfter

\* A change of the ceiling comes after those there are, so what was in force stays known.
LEMMA CeilingInv ==
  ASSUME UseDataInv, NEW value \in Ceilings \cup {Malformed}, CeilingTakesEffect(value)
  PROVE  UseDataInv'
  <1>1. /\ ceilings' = Append(ceilings, value) /\ told' = told
        /\ ceilings \in Seq(Ceilings \cup {Malformed})
    BY DEF CeilingTakesEffect, UseDataInv
  <1>2. /\ ceilings' \in Seq(Ceilings \cup {Malformed})
        /\ Len(ceilings') = Len(ceilings) + 1 /\ Len(ceilings) \in Nat
        /\ \A i \in 1..Len(ceilings) : ceilings'[i] = ceilings[i]
    BY <1>1
  <1>3. \A n \in 0..Len(ceilings) : CeilingAfter(n)' = CeilingAfter(n) /\ n \in 0..Len(ceilings')
    BY <1>2 DEF CeilingAfter
  <1>4. \A v \in told : CleanVerdict(v)'
    BY <1>3 DEF UseDataInv, CleanVerdict
  <1> QED
    BY <1>1, <1>2, <1>3, <1>4 DEF UseDataInv

LEMMA UseDataStep == UseDataInv /\ [UseDataNext]_useVars => UseDataInv'
  <1> SUFFICES ASSUME UseDataInv, [UseDataNext]_useVars PROVE UseDataInv'
    OBVIOUS
  <1>1. CASE \E s \in Sessions : PostOpenSession(s)
    BY <1>1, VerdictsKept DEF PostOpenSession
  <1>2. ASSUME NEW r \in Requests, NEW s \in Sessions, NEW op, NEW body, LoadSession(r, s, op, body)
        PROVE  UseDataInv'
    BY <1>2, VerdictsKept DEF LoadSession
  <1>3. CASE \E r \in Requests : JudgeCommission(r)
    BY <1>3, JudgeInv
  <1>4. CASE \E r \in Requests : StoreSession(r)
    BY <1>4, VerdictsKept DEF StoreSession
  <1>5. CASE RestartUseData
    BY <1>5, VerdictsKept DEF RestartUseData
  <1>6. CASE \E value \in Ceilings \cup {Malformed} : CeilingTakesEffect(value)
    BY <1>6, CeilingInv
  <1>7. CASE UNCHANGED useVars
    BY <1>7, VerdictsKept DEF useVars
  <1> QED
    BY <1>1, <1>2, <1>3, <1>4, <1>5, <1>6, <1>7 DEF UseDataNext

\* commit_commission: a commission told to run now passed every check, within the ceiling
\* in force when its verdict was composed.
THEOREM RunsNowIsCleanHolds == UseDataSpec => []RunsNowIsClean
  <1>1. UseDataInit => UseDataInv
    BY DEF UseDataInit, UseDataInv
  <1>2. UseDataInv => RunsNowIsClean
    BY DEF UseDataInv, CleanVerdict, RunsNowIsClean
  <1> QED
    BY <1>1, <1>2, UseDataStep, PTL DEF UseDataSpec

--------------------------------------------------------------------------------
(***************************************************************************)
(* The sources and the holdings view.  Only the oldest document of an      *)
(* identifier is ever moved, and the five counts of the view are sizes of  *)
(* disjoint sets of documents, which add up to the number of documents     *)
(* there were.                                                             *)
(***************************************************************************)

SourceDocs == [id : SourceIds, state : SourceStates, seeded : BOOLEAN]

\* Only the oldest document of an id is ever moved.
YoungerPending ==
  \A i, j \in DOMAIN sources : i < j /\ sources[i].id = sources[j].id => sources[j].state = "pending"

AddsUp(counts, total) ==
  counts["pending"] + counts["awaiting_credentials"] + counts["in_progress"]
    + counts["failed"] + counts["connected"] = total

ViewOK ==
  /\ view.pc \in {"counted", "told"} =>
       view.total \in Nat /\ view.total <= Len(sources) /\ AddsUp(view.counts, view.total)
  /\ view.pc = "told" =>
       /\ view.total <= Len(view.rows)
       /\ \A i, j \in DOMAIN view.rows : i < j /\ view.rows[i].id = view.rows[j].id =>
            ~view.rows[j].measured /\ view.rows[j].reason = "not_yet_connected"

SourcesInv ==
  /\ sources \in Seq(SourceDocs)
  /\ \A h \in DOMAIN asks : asks[h].id \in SourceIds
  /\ YoungerPending
  /\ ViewOK

\* Documents that are in one of five states are counted once.
LEMMA CountsAddUp ==
  ASSUME sources \in Seq(SourceDocs)
  PROVE  AddsUp([state \in SourceStates |-> CountByState(state)], Len(sources))
  <1> DEFINE In(state) == {i \in DOMAIN sources : sources[i].state = state}
             a == In("pending")
             b == In("awaiting_credentials")
             c == In("in_progress")
             d == In("failed")
             e == In("connected")
  <1>1. DOMAIN sources = 1..Len(sources) /\ Len(sources) \in Nat
    OBVIOUS
  <1>2. IsFiniteSet(DOMAIN sources) /\ Cardinality(DOMAIN sources) = Len(sources)
    BY <1>1, FS_Interval
  <1>3. /\ IsFiniteSet(a) /\ IsFiniteSet(b) /\ IsFiniteSet(c) /\ IsFiniteSet(d) /\ IsFiniteSet(e)
    BY <1>2, FS_Subset
  <1>4. \A i \in DOMAIN sources : sources[i].state \in SourceStates
    <2>1. \A i \in DOMAIN sources : sources[i] \in SourceDocs
      OBVIOUS
    <2> QED
      BY <2>1 DEF SourceDocs
  <1>5. ((a \cup b) \cup c) \cup (d \cup e) = DOMAIN sources
    BY <1>4 DEF SourceStates
  <1>6. /\ a \cap b = {} /\ (a \cup b) \cap c = {} /\ d \cap e = {}
        /\ ((a \cup b) \cup c) \cap (d \cup e) = {}
    OBVIOUS
  <1> HIDE DEF a, b, c, d, e
  <1>7. IsFiniteSet(a \cup b) /\ Cardinality(a \cup b) = Cardinality(a) + Cardinality(b) - Cardinality({})
    BY <1>3, <1>6, FS_Union
  <1>8. IsFiniteSet((a \cup b) \cup c)
        /\ Cardinality((a \cup b) \cup c) = Cardinality(a \cup b) + Cardinality(c) - Cardinality({})
    BY <1>3, <1>6, <1>7, FS_Union
  <1>9. IsFiniteSet(d \cup e) /\ Cardinality(d \cup e) = Cardinality(d) + Cardinality(e) - Cardinality({})
    BY <1>3, <1>6, FS_Union
  <1>10. Cardinality(DOMAIN sources)
           = Cardinality((a \cup b) \cup c) + Cardinality(d \cup e) - Cardinality({})
    BY <1>5, <1>6, <1>8, <1>9, FS_Union
  <1>11. /\ Cardinality({}) = 0 /\ Cardinality(a) \in Nat /\ Cardinality(b) \in Nat /\ Cardinality(c) \in Nat
         /\ Cardinality(d) \in Nat /\ Cardinality(e) \in Nat
    BY <1>3, FS_EmptySet, FS_CardinalityType
  <1>12. Cardinality(a) + Cardinality(b) + Cardinality(c) + Cardinality(d) + Cardinality(e) = Len(sources)
    BY <1>2, <1>7, <1>8, <1>9, <1>10, <1>11
  <1>13. /\ CountByState("pending") = Cardinality(a) /\ CountByState("awaiting_credentials") = Cardinality(b)
         /\ CountByState("in_progress") = Cardinality(c) /\ CountByState("failed") = Cardinality(d)
         /\ CountByState("connected") = Cardinality(e)
    BY DEF CountByState, a, b, c, d, e
  <1> QED
    BY <1>12, <1>13 DEF AddsUp, SourceStates

LEMMA SourcesInitInv == ConnectInit => SourcesInv
  <1> SUFFICES ASSUME ConnectInit PROVE SourcesInv
    OBVIOUS
  <1>1. view.pc = "idle" /\ DOMAIN asks = {}
    BY DEF ConnectInit
  <1>2. CASE sources = <<>>
    BY <1>1, <1>2 DEF SourcesInv, YoungerPending, ViewOK
  <1>3. CASE \E id \in SourceIds, state \in {"awaiting_credentials", "failed", "connected"} :
               sources = <<[id |-> id, state |-> state, seeded |-> TRUE]>>
    <2>1. PICK doc \in SourceDocs : sources = <<doc>>
      BY <1>3 DEF SourceDocs, SourceStates
    <2>2. sources \in Seq(SourceDocs) /\ DOMAIN sources = {1}
      BY <2>1
    <2> QED
      BY <1>1, <2>2 DEF SourcesInv, YoungerPending, ViewOK
  <1> QED
    BY <1>2, <1>3 DEF ConnectInit

\* Requests that begin or end without a write.
LEMMA AsksOnly ==
  ASSUME SourcesInv, UNCHANGED <<sources, view>>, \A h \in DOMAIN asks' : asks'[h].id \in SourceIds
  PROVE  SourcesInv'
  BY DEF SourcesInv, YoungerPending, ViewOK, AddsUp

LEMMA AskTyped ==
  ASSUME SourcesInv, NEW h, NEW op, NEW id \in SourceIds, Ask(h, op, id)
  PROVE  \A k \in DOMAIN asks' : asks'[k].id \in SourceIds
  BY DEF SourcesInv, Ask

LEMMA AnsweredTyped ==
  ASSUME SourcesInv, NEW h, Answered(h)
  PROVE  \A k \in DOMAIN asks' : asks'[k].id \in SourceIds
  BY DEF SourcesInv, Answered

\* A view that is under way when sources change keeps what it has counted.
LEMMA ViewKept ==
  ASSUME ViewOK, view' = view, sources \in Seq(SourceDocs), sources' \in Seq(SourceDocs),
         Len(sources) <= Len(sources')
  PROVE  ViewOK'
  <1>1. Len(sources) \in Nat /\ Len(sources') \in Nat
    OBVIOUS
  <1> QED
    BY <1>1 DEF ViewOK, AddsUp

LEMMA InsertSourceInv ==
  ASSUME SourcesInv, NEW h \in Hands, InsertSource(h)
  PROVE  SourcesInv'
  <1>1. PICK doc \in SourceDocs : sources' = Append(sources, doc) /\ doc.state = "pending"
    <2> DEFINE doc == [id |-> asks[h].id, state |-> "pending", seeded |-> FALSE]
    <2>1. doc \in SourceDocs /\ doc.state = "pending" /\ sources' = Append(sources, doc)
      BY DEF SourcesInv, InsertSource, SourceDocs, SourceStates
    <2> QED
      BY <2>1
  <1>2. /\ sources \in Seq(SourceDocs) /\ sources' \in Seq(SourceDocs)
        /\ Len(sources') = Len(sources) + 1 /\ Len(sources) \in Nat
        /\ DOMAIN sources = 1..Len(sources) /\ DOMAIN sources' = 1..Len(sources) + 1
        /\ sources'[Len(sources) + 1] = doc
        /\ \A i \in 1..Len(sources) : sources'[i] = sources[i]
    BY <1>1 DEF SourcesInv
  <1>3. YoungerPending'
    BY <1>1, <1>2 DEF SourcesInv, YoungerPending
  <1>4. ViewOK'
    BY <1>2, ViewKept DEF SourcesInv, InsertSource
  <1> QED
    BY <1>2, <1>3, <1>4, AnsweredTyped DEF SourcesInv, InsertSource

LEMMA UpdateStateInv ==
  ASSUME SourcesInv, NEW h \in Hands, UpdateState(h)
  PROVE  SourcesInv'
  <1>1. PICK i \in Found(asks[h].id) : sources' = [sources EXCEPT ![i].state = asks[h].op]
    BY DEF UpdateState
  <1>2. /\ i \in DOMAIN sources /\ sources[i].id = asks[h].id
        /\ \A j \in DOMAIN sources : sources[j].id = sources[i].id => i <= j
    BY DEF Found
  <1>3. asks[h].op \in SourceStates
    BY DEF UpdateState, SourceStates
  <1>4. /\ sources \in Seq(SourceDocs) /\ sources[i] \in SourceDocs
    BY <1>2 DEF SourcesInv
  <1>5. /\ sources' \in Seq(SourceDocs) /\ Len(sources') = Len(sources) /\ Len(sources) \in Nat
        /\ DOMAIN sources' = DOMAIN sources /\ DOMAIN sources = 1..Len(sources)
        /\ \A j \in DOMAIN sources : j # i => sources'[j] = sources[j]
        /\ sources'[i].id = sources[i].id
    BY <1>1, <1>2, <1>3, <1>4 DEF SourceDocs
  <1>6. YoungerPending'
    BY <1>2, <1>5 DEF SourcesInv, YoungerPending
  <1>7. ViewOK'
    BY <1>5, ViewKept DEF SourcesInv, UpdateState
  <1> QED
    BY <1>5, <1>6, <1>7, AnsweredTyped DEF SourcesInv, UpdateState

LEMMA HoldCountsInv ==
  ASSUME SourcesInv, HoldCounts
  PROVE  SourcesInv'
  <1> DEFINE counts == [state \in SourceStates |-> CountByState(state)]
  <1>1. view' = [pc |-> "counted", counts |-> counts, total |-> Len(sources)] /\ UNCHANGED <<sources, asks>>
    BY DEF HoldCounts
  <1>2. AddsUp(counts, Len(sources)) /\ Len(sources) \in Nat
    BY CountsAddUp DEF SourcesInv
  <1> HIDE DEF counts
  <1>3. view'.pc = "counted" /\ view'.counts = counts /\ view'.total = Len(sources)
    BY <1>1
  <1>4. ViewOK'
    BY <1>1, <1>2, <1>3 DEF ViewOK, AddsUp
  <1> QED
    BY <1>1, <1>4 DEF SourcesInv, YoungerPending

LEMMA HoldRowsInv ==
  ASSUME SourcesInv, NEW unreadable, HoldRows(unreadable)
  PROVE  SourcesInv'
  <1> DEFINE listed == [i \in DOMAIN sources |-> HoldingsRow(sources[i], i \notin unreadable)]
  <1>1. /\ view' = [pc |-> "told", counts |-> view.counts, total |-> view.total, rows |-> listed]
        /\ view.pc = "counted" /\ UNCHANGED <<sources, asks>>
    BY DEF HoldRows
  <1>2. /\ DOMAIN sources = 1..Len(sources) /\ Len(sources) \in Nat
    BY DEF SourcesInv
  <1>3. \A i \in DOMAIN sources :
          /\ listed[i].id = sources[i].id
          /\ sources[i].state = "pending" => ~listed[i].measured /\ listed[i].reason = "not_yet_connected"
    BY DEF HoldingsRow, UnmeasuredReason
  <1>4. DOMAIN listed = DOMAIN sources /\ Len(listed) = Len(sources)
    BY <1>2
  <1> HIDE DEF listed
  <1>5. view'.pc = "told" /\ view'.counts = view.counts /\ view'.total = view.total /\ view'.rows = listed
    BY <1>1
  <1>6. ViewOK'
    <2>1. \A i, j \in DOMAIN listed : i < j /\ listed[i].id = listed[j].id =>
            ~listed[j].measured /\ listed[j].reason = "not_yet_connected"
      BY <1>3, <1>4 DEF SourcesInv, YoungerPending
    <2> QED
      BY <1>1, <1>4, <1>5, <2>1 DEF SourcesInv, ViewOK, AddsUp
  <1> QED
    BY <1>1, <1>6 DEF SourcesInv, YoungerPending

LEMMA SourcesStep == SourcesInv /\ [ConnectNext]_sourceVars => SourcesInv'
  <1> SUFFICES ASSUME SourcesInv, [ConnectNext]_sourceVars PROVE SourcesInv'
    OBVIOUS
  <1>1. ASSUME NEW h \in Hands, NEW id \in SourceIds,
               AddSource(h, id) \/ SourceConnect(h, id) \/ SourceRetry(h, id) \/ DeclareRegistry(h, id)
        PROVE  SourcesInv'
    BY <1>1, AskTyped, AsksOnly DEF AddSource, SourceConnect, SourceRetry, DeclareRegistry
  <1>2. ASSUME NEW h \in Hands, InsertDeclared(h) PROVE SourcesInv'
    BY <1>2, AnsweredTyped, AsksOnly DEF InsertDeclared
  <1>3. CASE UNCHANGED sourceVars
    BY <1>3, AsksOnly DEF sourceVars, SourcesInv
  <1> QED
    BY <1>1, <1>2, <1>3, InsertSourceInv, UpdateStateInv, HoldCountsInv, HoldRowsInv DEF ConnectNext

\* add_source, update_state, get_what_you_hold: a younger document of an id is never
\* connected, and the counts and rows of a view agree, whatever is added in between.
THEOREM HoldingsAreHonestHolds == ConnectSpec => []HoldingsAreHonest
  <1>1. SourcesInv => HoldingsAreHonest
    BY DEF SourcesInv, YoungerPending, ViewOK, AddsUp, HoldingsAreHonest
  <1> QED
    BY <1>1, SourcesInitInv, SourcesStep, PTL DEF ConnectSpec

--------------------------------------------------------------------------------
(***************************************************************************)
(* The prove console and the gap register.  A gap keeps the first document *)
(* under its identifier; an ask has its trace exactly when its envelope    *)
(* was told, and its gap is filed before; the samples are filed under      *)
(* identifiers no ask has.                                                 *)
(***************************************************************************)

Questions == SampleQuestions \cup Novel
GapIds == Novel \cup {Placeholder, NoGap}
Envelopes == [shape : ProveShapes, question : Questions, gap : GapIds]
Filings == [gap : GapIds, origin : ProveAsks, state : {"open", "queued"}]
AskStates == [pc : {"idle"}] \cup [pc : {"file", "trace", "told", "lost"}, envelope : Envelopes]
QueueStates == [pc : {"idle"}] \cup [pc : {"mark", "queued", "gap_not_found", "lost"}, gap : GapIds]

ProveTypeOK ==
  /\ boot \in {"seeding", "serving"} /\ answers \subseteq SampleQuestions
  /\ gaps \in Seq(Filings)
  /\ asked \in [ProveAsks -> AskStates] /\ queueing \in [QueueAsks -> QueueStates]

\* The trace of an ask is there exactly when its answer was told, and is that answer.
AskOK(a) ==
  /\ \A t \in traces : t.trace = a => asked[a].pc = "told" /\ t = Trace(a, asked[a].envelope)
  /\ asked[a].pc = "told" => Trace(a, asked[a].envelope) \in traces
  /\ asked[a].pc = "file" => asked[a].envelope.gap \in Novel
  /\ asked[a].pc \in {"trace", "told"} /\ asked[a].envelope.gap \in Novel =>
       DocsOf(asked[a].envelope.gap) # {}

QueueOK(q) ==
  /\ queueing[q].pc \in {"mark", "queued"} => DocsOf(queueing[q].gap) # {}
  /\ queueing[q].pc = "queued" => gaps[FirstOf(queueing[q].gap)].state = "queued"

\* A gap that is filed has a first document, and an origin that is traced, or is in its
\* ask's hands, or died with it.
GapOK(gap) == DocsOf(gap) # {} => \E i \in DocsOf(gap) : \A j \in DocsOf(gap) : i <= j
OriginOK(i) == Traced(gaps[i].origin) \/ asked[gaps[i].origin].pc \in {"trace", "lost"}

SampleOK(question) ==
  /\ \A t \in traces : t.trace = SampleTrace(question) =>
       t = Trace(SampleTrace(question), SampleEnvelope(question))
  /\ boot = "serving" => Traced(SampleTrace(question))

ProveInv ==
  /\ ProveTypeOK
  /\ \A a \in ProveAsks : AskOK(a)
  /\ \A q \in QueueAsks : QueueOK(q)
  /\ \A gap \in GapIds : GapOK(gap)
  /\ \A i \in DOMAIN gaps : OriginOK(i)
  /\ \A question \in SampleQuestions : SampleOK(question)

--------------------------------------------------------------------------------
(* Documents of a gap.                                                         *)

\* Documents are only added, after those there are, and keep their gap and origin.
GapsKept ==
  /\ \A i \in DOMAIN gaps : /\ i \in DOMAIN gaps'
                            /\ gaps'[i].gap = gaps[i].gap /\ gaps'[i].origin = gaps[i].origin
  /\ \A i \in DOMAIN gaps' : i \notin DOMAIN gaps => \A j \in DOMAIN gaps : j <= i

LEMMA GapsIndexed ==
  ASSUME ProveTypeOK
  PROVE  /\ DOMAIN gaps = 1..Len(gaps) /\ Len(gaps) \in Nat
         /\ \A i \in DOMAIN gaps : gaps[i] \in Filings
         /\ \A gap : DocsOf(gap) \subseteq Nat
  BY DEF ProveTypeOK, DocsOf

LEMMA FirstIs ==
  ASSUME NEW gap, DocsOf(gap) \subseteq Nat, NEW i \in DocsOf(gap), \A j \in DocsOf(gap) : i <= j
  PROVE  FirstOf(gap) = i
  <1>1. /\ FirstOf(gap) \in DocsOf(gap)
        /\ \A j \in DocsOf(gap) : FirstOf(gap) <= j
    BY DEF FirstOf
  <1>2. FirstOf(gap) <= i /\ i <= FirstOf(gap) /\ i \in Nat /\ FirstOf(gap) \in Nat
    BY <1>1
  <1> QED
    BY <1>2

LEMMA DocsStay ==
  ASSUME ProveInv, ProveTypeOK', GapsKept, NEW gap \in GapIds, DocsOf(gap) # {}
  PROVE  /\ DocsOf(gap)' # {} /\ FirstOf(gap)' = FirstOf(gap) /\ FirstOf(gap) \in DOMAIN gaps
         /\ GapOK(gap)'
  <1>1. PICK i \in DocsOf(gap) : \A j \in DocsOf(gap) : i <= j
    BY DEF ProveInv, GapOK
  <1>2. i \in DOMAIN gaps /\ i \in DocsOf(gap)'
    BY <1>1 DEF DocsOf, GapsKept
  <1>3. \A j \in DocsOf(gap)' : i <= j
    BY <1>1, <1>2 DEF DocsOf, GapsKept
  <1>4. FirstOf(gap) = i
    BY <1>1, FirstIs, GapsIndexed DEF ProveInv
  <1>5. \A g : DocsOf(g)' \subseteq Nat
    BY DEF ProveTypeOK, DocsOf
  <1>6. FirstOf(gap)' = i
    <2>1. /\ FirstOf(gap)' \in DocsOf(gap)'
          /\ \A j \in DocsOf(gap)' : FirstOf(gap)' <= j
      BY <1>2, <1>3 DEF FirstOf
    <2>2. FirstOf(gap)' <= i /\ i <= FirstOf(gap)' /\ i \in Nat /\ FirstOf(gap)' \in Nat
      BY <1>2, <1>3, <1>5, <2>1
    <2> QED
      BY <2>2
  <1> QED
    BY <1>2, <1>3, <1>4, <1>6 DEF GapOK

--------------------------------------------------------------------------------
(* Traces, and what a step leaves alone.                                       *)

LEMMA TraceIs ==
  ASSUME NEW id, NEW envelope, NEW other, NEW question, NEW q
  PROVE  /\ Trace(id, envelope).trace = id /\ Trace(id, envelope).envelope = envelope
         /\ SampleTrace(question) = SampleTrace(q) => question = q
         /\ question \in SampleQuestions => SampleTrace(question) \notin ProveAsks
  BY ProveIdsAssumption DEF Trace, SampleTrace

LEMMA TracedGrows ==
  ASSUME traces \subseteq traces', NEW id, Traced(id)
  PROVE  Traced(id)'
  BY DEF Traced

\* An ask that a step does not move, when documents and traces of others are added.
LEMMA AskUndisturbed ==
  ASSUME ProveInv, ProveTypeOK', GapsKept, NEW a \in ProveAsks, asked'[a] = asked[a],
         traces \subseteq traces', \A t \in traces' \ traces : t.trace # a
  PROVE  AskOK(a)'
  <1>1. AskOK(a)
    BY DEF ProveInv
  <1>2. asked[a].pc \in {"trace", "told"} => asked[a].envelope.gap \in GapIds
    BY DEF ProveInv, ProveTypeOK, AskStates, Envelopes
  <1> QED
    BY <1>1, <1>2, DocsStay DEF AskOK

LEMMA QueueUndisturbed ==
  ASSUME ProveInv, ProveTypeOK', GapsKept, NEW q \in QueueAsks, queueing'[q] = queueing[q],
         \A i \in DOMAIN gaps : gaps[i].state = "queued" => gaps'[i].state = "queued"
  PROVE  QueueOK(q)'
  <1>1. QueueOK(q)
    BY DEF ProveInv
  <1>2. queueing[q].pc \in {"mark", "queued"} => queueing[q].gap \in GapIds
    BY DEF ProveInv, ProveTypeOK, QueueStates
  <1> QED
    BY <1>1, <1>2, DocsStay DEF QueueOK

\* Steps that leave the documents alone.
LEMMA SameGaps ==
  ASSUME ProveInv, gaps' = gaps
  PROVE  GapsKept /\ \A gap \in GapIds : GapOK(gap)'
  BY GapsIndexed DEF ProveInv, GapsKept, GapOK, DocsOf

LEMMA SampleUndisturbed ==
  ASSUME ProveInv, traces \subseteq traces', boot' \in {boot, "seeding"}, NEW question \in SampleQuestions,
         \A t \in traces' \ traces : t.trace # SampleTrace(question)
  PROVE  SampleOK(question)'
  BY TracedGrows DEF ProveInv, SampleOK

--------------------------------------------------------------------------------
(* Each step.                                                                  *)

LEMMA ProveInitInv == ProveInit => ProveInv
  <1> SUFFICES ASSUME ProveInit PROVE ProveInv
    OBVIOUS
  <1>1. asked \in [ProveAsks -> AskStates] /\ queueing \in [QueueAsks -> QueueStates]
    BY DEF ProveInit, Fresh, AskStates, QueueStates
  <1>2. /\ \A a \in ProveAsks : asked[a].pc = "idle"
        /\ \A q \in QueueAsks : queueing[q].pc = "idle"
    BY DEF ProveInit, Fresh
  <1> QED
    BY <1>1, <1>2 DEF ProveInit, ProveInv, ProveTypeOK, AskOK, QueueOK, GapOK, DocsOf, OriginOK, SampleOK

LEMMA SeedAnswerInv ==
  ASSUME ProveInv, NEW question \in SampleQuestions, SeedAnswer(question)
  PROVE  ProveInv'
  <1> USE DEF SeedAnswer
  <1>1. ProveTypeOK'
    BY DEF ProveInv, ProveTypeOK
  <1>2. GapsKept /\ \A gap \in GapIds : GapOK(gap)'
    BY SameGaps
  <1>3. \A i \in DOMAIN gaps' : OriginOK(i)'
    BY DEF ProveInv, OriginOK, Traced
  <1> QED
    BY <1>1, <1>2, <1>3, AskUndisturbed, QueueUndisturbed, SampleUndisturbed DEF ProveInv

LEMMA SeedTraceInv ==
  ASSUME ProveInv, NEW question \in SampleQuestions, SeedTrace(question)
  PROVE  ProveInv'
  <1> DEFINE t == Trace(SampleTrace(question), SampleEnvelope(question))
  <1>1. /\ traces' = traces \cup {t} /\ t.trace = SampleTrace(question) /\ ~Traced(SampleTrace(question))
        /\ UNCHANGED <<boot, answers, gaps, asked, queueing>> /\ boot = "seeding"
    BY TraceIs DEF SeedTrace
  <1>2. ProveTypeOK'
    BY <1>1 DEF ProveInv, ProveTypeOK
  <1>3. GapsKept /\ \A gap \in GapIds : GapOK(gap)'
    BY <1>1, SameGaps
  <1>4. \A i \in DOMAIN gaps' : OriginOK(i)'
    BY <1>1, TracedGrows DEF ProveInv, OriginOK
  <1>5. \A a \in ProveAsks : AskOK(a)'
    <2> HIDE DEF t
    <2> QED
      BY <1>1, <1>2, <1>3, AskUndisturbed, TraceIs
  <1>6. \A q \in SampleQuestions : SampleOK(q)'
    <2> SUFFICES ASSUME NEW q \in SampleQuestions PROVE SampleOK(q)'
      OBVIOUS
    <2>1. CASE q # question
      <3>1. \A u \in traces' \ traces : u.trace # SampleTrace(q)
        BY <1>1, <2>1, TraceIs
      <3> QED
        BY <1>1, <3>1, SampleUndisturbed
    <2>2. CASE q = question
      BY <1>1, <2>2 DEF SampleOK, Traced
    <2> QED
      BY <2>1, <2>2
  <1> QED
    BY <1>1, <1>2, <1>3, <1>4, <1>5, <1>6, QueueUndisturbed DEF ProveInv

LEMMA ServeInv ==
  ASSUME ProveInv, Serve
  PROVE  ProveInv'
  <1> USE DEF Serve
  <1>1. ProveTypeOK'
    BY DEF ProveInv, ProveTypeOK
  <1>2. GapsKept /\ \A gap \in GapIds : GapOK(gap)'
    BY SameGaps
  <1>3. \A i \in DOMAIN gaps' : OriginOK(i)'
    BY DEF ProveInv, OriginOK, Traced
  <1>4. \A question \in SampleQuestions : SampleOK(question)'
    BY DEF ProveInv, SampleOK, Traced
  <1> QED
    BY <1>1, <1>2, <1>3, <1>4, AskUndisturbed, QueueUndisturbed DEF ProveInv

LEMMA EnvelopesAre ==
  /\ \A question \in SampleQuestions :
       SampleEnvelope(question) \in Envelopes /\ SampleEnvelope(question).gap \notin Novel
  /\ \A question \in Novel :
       NovelEnvelope(question) \in Envelopes /\ NovelEnvelope(question).gap = question
  BY SamplesAssumption, ProveIdsAssumption
  DEF SampleEnvelope, NovelEnvelope, GapOf, Envelopes, Questions, GapIds, ProveShapes

\* An ask that begins: its question was seeded, or has a filed gap, or goes to file one.
LEMMA AskingInv ==
  ASSUME ProveInv, NEW a \in ProveAsks, asked[a].pc = "idle", NEW pc \in {"file", "trace"},
         NEW envelope \in Envelopes, Asking(a, pc, envelope),
         pc = "file" => envelope.gap \in Novel,
         pc = "trace" /\ envelope.gap \in Novel => DocsOf(envelope.gap) # {},
         UNCHANGED <<boot, answers, gaps, traces, queueing>>
  PROVE  ProveInv'
  <1>1. /\ asked'[a] = [pc |-> pc, envelope |-> envelope]
        /\ \A b \in ProveAsks : b # a => asked'[b] = asked[b]
        /\ asked' \in [ProveAsks -> AskStates]
    BY DEF ProveInv, ProveTypeOK, Asking, AskStates
  <1>2. ProveTypeOK'
    BY <1>1 DEF ProveInv, ProveTypeOK
  <1>3. GapsKept /\ \A gap \in GapIds : GapOK(gap)'
    BY SameGaps
  <1>4. \A b \in ProveAsks : AskOK(b)'
    <2> SUFFICES ASSUME NEW b \in ProveAsks PROVE AskOK(b)'
      OBVIOUS
    <2>1. CASE b # a
      BY <1>1, <1>2, <1>3, <2>1, AskUndisturbed
    <2>2. CASE b = a
      <3>1. \A t \in traces : t.trace # a
        BY DEF ProveInv, AskOK
      <3>2. asked'[a].pc = pc /\ asked'[a].envelope = envelope
        BY <1>1
      <3> QED
        BY <2>2, <3>1, <3>2 DEF AskOK, DocsOf
    <2> QED
      BY <2>1, <2>2
  <1>5. \A i \in DOMAIN gaps' : OriginOK(i)'
    <2> SUFFICES ASSUME NEW i \in DOMAIN gaps PROVE OriginOK(i)'
      OBVIOUS
    <2>1. OriginOK(i) /\ gaps[i].origin \in ProveAsks
      BY GapsIndexed DEF ProveInv, Filings
    <2>2. Traced(gaps[i].origin) => Traced(gaps[i].origin)'
      BY DEF Traced
    <2> QED
      BY <1>1, <2>1, <2>2 DEF OriginOK
  <1> QED
    BY <1>2, <1>3, <1>4, <1>5, QueueUndisturbed, SampleUndisturbed DEF ProveInv

LEMMA AskSeededInv ==
  ASSUME ProveInv, NEW a \in ProveAsks, NEW question \in SampleQuestions, AskSeeded(a, question)
  PROVE  ProveInv'
  <1>1. SampleEnvelope(question) \in Envelopes /\ SampleEnvelope(question).gap \notin Novel
    BY EnvelopesAre
  <1>2. asked[a].pc = "idle" /\ Asking(a, "trace", SampleEnvelope(question))
        /\ UNCHANGED <<boot, answers, gaps, traces, queueing>>
    BY DEF AskSeeded
  <1> QED
    BY <1>1, <1>2, AskingInv

LEMMA AskNovelInv ==
  ASSUME ProveInv, NEW a \in ProveAsks, NEW question \in Novel, AskNovel(a, question)
  PROVE  ProveInv'
  <1>1. NovelEnvelope(question) \in Envelopes /\ NovelEnvelope(question).gap = question
    BY EnvelopesAre
  <1>2. asked[a].pc = "idle" /\ UNCHANGED <<boot, answers, gaps, traces, queueing>>
    BY DEF AskNovel
  <1>3. CASE DocsOf(question) = {}
    <2>1. Asking(a, "file", NovelEnvelope(question))
      BY <1>3 DEF AskNovel, GapOf
    <2> QED
      BY <1>1, <1>2, <2>1, AskingInv
  <1>4. CASE DocsOf(question) # {}
    <2>1. Asking(a, "trace", NovelEnvelope(question))
      BY <1>4 DEF AskNovel, GapOf
    <2> QED
      BY <1>1, <1>2, <1>4, <2>1, AskingInv
  <1> QED
    BY <1>3, <1>4

LEMMA FileGapInv ==
  ASSUME ProveInv, NEW a \in ProveAsks, FileGap(a)
  PROVE  ProveInv'
  <1>0. asked[a].envelope.gap \in Novel /\ Len(gaps) + 1 \in Nat
    BY DEF FileGap, ProveInv, ProveTypeOK, AskOK
  <1> PICK gap \in Novel : gap = asked[a].envelope.gap
    BY <1>0
  <1> PICK n \in Nat : n = Len(gaps) + 1
    BY <1>0
  <1> DEFINE doc == [gap |-> gap, origin |-> a, state |-> "open"]
  <1>1. /\ gap \in Novel /\ asked[a].pc = "file" /\ asked[a].envelope \in Envelopes
        /\ gap \in GapIds /\ doc \in Filings
    BY DEF FileGap, ProveInv, ProveTypeOK, AskOK, AskStates, GapIds, Filings
  <1>2. /\ gaps' \in Seq(Filings) /\ DOMAIN gaps = 1..Len(gaps) /\ DOMAIN gaps' = 1..n
        /\ gaps'[n] = doc /\ \A i \in DOMAIN gaps : gaps'[i] = gaps[i]
        /\ n \in Nat /\ \A i \in DOMAIN gaps' : i # n => i \in DOMAIN gaps
    BY <1>1 DEF FileGap, Filed, ProveInv, ProveTypeOK
  <1>3. /\ asked'[a].pc = "trace" /\ asked'[a].envelope = asked[a].envelope
        /\ \A b \in ProveAsks : b # a => asked'[b] = asked[b]
        /\ asked' \in [ProveAsks -> AskStates]
        /\ UNCHANGED <<boot, answers, traces, queueing>>
    BY <1>1 DEF FileGap, ProveInv, ProveTypeOK, AskStates
  <1>4. doc.gap = gap /\ doc.origin = a
    OBVIOUS
  <1> HIDE DEF doc
  <1>5. ProveTypeOK'
    BY <1>2, <1>3 DEF ProveInv, ProveTypeOK
  <1>6. GapsKept
    BY <1>2 DEF GapsKept
  <1>7. n \in DocsOf(gap)'
    BY <1>2, <1>4 DEF DocsOf
  <1>8. \A g \in GapIds : GapOK(g)'
    <2> SUFFICES ASSUME NEW g \in GapIds PROVE GapOK(g)'
      OBVIOUS
    <2>1. CASE DocsOf(g) # {}
      BY <1>5, <1>6, <2>1, DocsStay
    <2>2. CASE DocsOf(g) = {}
      <3>1. \A i \in DocsOf(g)' : i = n
        BY <1>2, <2>2 DEF DocsOf
      <3> QED
        BY <1>2, <3>1 DEF GapOK
    <2> QED
      BY <2>1, <2>2
  <1>9. \A b \in ProveAsks : AskOK(b)'
    <2> SUFFICES ASSUME NEW b \in ProveAsks PROVE AskOK(b)'
      OBVIOUS
    <2>1. CASE b # a
      BY <1>3, <1>5, <1>6, <2>1, AskUndisturbed
    <2>2. CASE b = a
      <3>1. \A t \in traces : t.trace # a
        BY <1>1 DEF ProveInv, AskOK
      <3> QED
        BY <1>3, <1>7, <2>2, <3>1 DEF AskOK
    <2> QED
      BY <2>1, <2>2
  <1>10. \A i \in DOMAIN gaps' : OriginOK(i)'
    <2> SUFFICES ASSUME NEW i \in DOMAIN gaps' PROVE OriginOK(i)'
      OBVIOUS
    <2>1. CASE i = n
      BY <1>2, <1>3, <1>4, <2>1 DEF OriginOK
    <2>2. CASE i # n
      <3>1. OriginOK(i) /\ gaps[i].origin \in ProveAsks /\ gaps'[i] = gaps[i]
        BY <1>2, <2>2, GapsIndexed DEF ProveInv, Filings
      <3>2. \A id : Traced(id) => Traced(id)'
        BY <1>3 DEF Traced
      <3> QED
        BY <1>3, <3>1, <3>2 DEF OriginOK
    <2> QED
      BY <2>1, <2>2
  <1> QED
    BY <1>2, <1>3, <1>5, <1>6, <1>8, <1>9, <1>10, QueueUndisturbed, SampleUndisturbed DEF ProveInv

LEMMA StoreTraceInv ==
  ASSUME ProveInv, NEW a \in ProveAsks, StoreTrace(a)
  PROVE  ProveInv'
  <1> DEFINE t == Trace(a, asked[a].envelope)
  <1>1. /\ traces' = traces \cup {t} /\ t.trace = a /\ asked[a].pc = "trace"
        /\ UNCHANGED <<boot, answers, gaps, queueing>>
    BY TraceIs DEF StoreTrace
  <1>2. /\ asked'[a].pc = "told" /\ asked'[a].envelope = asked[a].envelope
        /\ \A b \in ProveAsks : b # a => asked'[b] = asked[b]
        /\ asked' \in [ProveAsks -> AskStates]
    BY DEF StoreTrace, ProveInv, ProveTypeOK, AskStates
  <1>3. ProveTypeOK'
    BY <1>1, <1>2 DEF ProveInv, ProveTypeOK
  <1>4. GapsKept /\ \A gap \in GapIds : GapOK(gap)'
    BY <1>1, SameGaps
  <1>5. \A b \in ProveAsks : AskOK(b)'
    <2> SUFFICES ASSUME NEW b \in ProveAsks PROVE AskOK(b)'
      OBVIOUS
    <2>1. CASE b # a
      <3> HIDE DEF t
      <3> QED
        BY <1>1, <1>2, <1>3, <1>4, <2>1, AskUndisturbed
    <2>2. CASE b = a
      <3>1. \A u \in traces : u.trace # a
        BY <1>1 DEF ProveInv, AskOK
      <3>2. asked[a].envelope.gap \in Novel => DocsOf(asked[a].envelope.gap) # {}
        BY <1>1 DEF ProveInv, AskOK
      <3> QED
        BY <1>1, <1>2, <2>2, <3>1, <3>2 DEF AskOK, DocsOf
    <2> QED
      BY <2>1, <2>2
  <1>6. \A i \in DOMAIN gaps' : OriginOK(i)'
    <2> SUFFICES ASSUME NEW i \in DOMAIN gaps PROVE OriginOK(i)'
      BY <1>1
    <2>1. OriginOK(i) /\ gaps[i].origin \in ProveAsks
      BY GapsIndexed DEF ProveInv, Filings
    <2>2. Traced(gaps[i].origin) => Traced(gaps[i].origin)'
      BY <1>1 DEF Traced
    <2>3. Traced(a)'
      BY <1>1 DEF Traced
    <2> QED
      BY <1>1, <1>2, <2>1, <2>2, <2>3 DEF OriginOK
  <1>7. \A question \in SampleQuestions : SampleOK(question)'
    <2> HIDE DEF t
    <2> QED
      BY <1>1, TraceIs, SampleUndisturbed
  <1> QED
    BY <1>1, <1>3, <1>4, <1>5, <1>6, <1>7, QueueUndisturbed DEF ProveInv

LEMMA QueueFindInv ==
  ASSUME ProveInv, NEW q \in QueueAsks, NEW gap \in Novel \cup {Placeholder}, QueueFind(q, gap)
  PROVE  ProveInv'
  <1> DEFINE found == [pc |-> IF DocsOf(gap) = {} THEN "gap_not_found" ELSE "mark", gap |-> gap]
  <1>1. /\ queueing'[q] = found /\ found.gap = gap
        /\ found.pc = (IF DocsOf(gap) = {} THEN "gap_not_found" ELSE "mark")
        /\ \A r \in QueueAsks : r # q => queueing'[r] = queueing[r]
        /\ queueing' \in [QueueAsks -> QueueStates]
        /\ UNCHANGED <<boot, answers, gaps, traces, asked>>
    BY DEF QueueFind, ProveInv, ProveTypeOK, QueueStates, GapIds
  <1> HIDE DEF found
  <1>2. ProveTypeOK'
    BY <1>1 DEF ProveInv, ProveTypeOK
  <1>3. GapsKept /\ \A g \in GapIds : GapOK(g)'
    BY <1>1, SameGaps
  <1>4. \A r \in QueueAsks : QueueOK(r)'
    <2> SUFFICES ASSUME NEW r \in QueueAsks PROVE QueueOK(r)'
      OBVIOUS
    <2>1. CASE r # q
      BY <1>1, <1>2, <1>3, <2>1, QueueUndisturbed
    <2>2. CASE r = q
      BY <1>1, <2>2 DEF QueueOK, DocsOf
    <2> QED
      BY <2>1, <2>2
  <1>5. \A i \in DOMAIN gaps' : OriginOK(i)'
    BY <1>1 DEF ProveInv, OriginOK, Traced
  <1> QED
    BY <1>1, <1>2, <1>3, <1>4, <1>5, AskUndisturbed, SampleUndisturbed DEF ProveInv

LEMMA QueueMarkInv ==
  ASSUME ProveInv, NEW q \in QueueAsks, QueueMark(q)
  PROVE  ProveInv'
  <1>0. queueing[q].gap \in GapIds
    BY DEF QueueMark, ProveInv, ProveTypeOK, QueueStates
  <1> PICK gap \in GapIds : gap = queueing[q].gap
    BY <1>0
  <1>1. queueing[q].pc = "mark" /\ gap \in GapIds /\ DocsOf(gap) # {}
    BY DEF QueueMark, ProveInv, ProveTypeOK, QueueStates, QueueOK
  <1>2. PICK first \in DocsOf(gap) : \A j \in DocsOf(gap) : first <= j
    BY <1>1 DEF ProveInv, GapOK
  <1>3. FirstOf(gap) = first /\ first \in DOMAIN gaps
    BY <1>2, FirstIs, GapsIndexed DEF ProveInv, DocsOf
  <1>4. /\ gaps' = [gaps EXCEPT ![first].state = "queued"]
        /\ queueing' = [queueing EXCEPT ![q].pc = "queued"]
        /\ UNCHANGED <<boot, answers, traces, asked>>
    BY <1>3 DEF QueueMark
  <1>5. /\ DOMAIN gaps' = DOMAIN gaps /\ gaps' \in Seq(Filings)
        /\ gaps'[first].state = "queued"
        /\ \A j \in DOMAIN gaps : gaps'[j].gap = gaps[j].gap /\ gaps'[j].origin = gaps[j].origin
        /\ \A j \in DOMAIN gaps : gaps[j].state = "queued" => gaps'[j].state = "queued"
    <2>1. gaps[first] \in Filings /\ gaps \in Seq(Filings)
      BY <1>3, GapsIndexed DEF ProveInv, ProveTypeOK
    <2> QED
      BY <1>3, <1>4, <2>1 DEF Filings
  <1>6. /\ queueing'[q].pc = "queued" /\ queueing'[q].gap = gap
        /\ \A r \in QueueAsks : r # q => queueing'[r] = queueing[r]
        /\ queueing' \in [QueueAsks -> QueueStates]
    BY <1>1, <1>4 DEF ProveInv, ProveTypeOK, QueueStates
  <1>7. ProveTypeOK'
    BY <1>4, <1>5, <1>6 DEF ProveInv, ProveTypeOK
  <1>8. GapsKept
    BY <1>5 DEF GapsKept
  <1>9. \A g \in GapIds : GapOK(g)'
    <2>1. \A g : DocsOf(g)' = DocsOf(g)
      BY <1>5 DEF DocsOf
    <2> QED
      BY <2>1 DEF ProveInv, GapOK
  <1>10. \A r \in QueueAsks : QueueOK(r)'
    <2> SUFFICES ASSUME NEW r \in QueueAsks PROVE QueueOK(r)'
      OBVIOUS
    <2>1. CASE r # q
      BY <1>5, <1>6, <1>7, <1>8, <2>1, QueueUndisturbed
    <2>2. CASE r = q
      <3>1. DocsOf(gap)' # {} /\ FirstOf(gap)' = first
        BY <1>1, <1>3, <1>7, <1>8, DocsStay
      <3> QED
        BY <1>5, <1>6, <2>2, <3>1 DEF QueueOK
    <2> QED
      BY <2>1, <2>2
  <1>11. \A j \in DOMAIN gaps' : OriginOK(j)'
    BY <1>4, <1>5 DEF ProveInv, OriginOK, Traced
  <1> QED
    BY <1>4, <1>7, <1>8, <1>9, <1>10, <1>11, AskUndisturbed, SampleUndisturbed DEF ProveInv

LEMMA ProveCrashInv ==
  ASSUME ProveInv, ProveCrash
  PROVE  ProveInv'
  <1>1. boot' = "seeding" /\ UNCHANGED <<answers, gaps, traces>>
    BY DEF ProveCrash
  <1>2. ASSUME NEW a \in ProveAsks
        PROVE  /\ asked'[a] \in AskStates
               /\ asked[a].pc \notin {"file", "trace"} => asked'[a] = asked[a]
               /\ asked[a].pc \in {"file", "trace"} => asked'[a].pc = "lost"
    BY DEF ProveCrash, Lost, ProveInv, ProveTypeOK, AskStates
  <1>3. ASSUME NEW q \in QueueAsks
        PROVE  /\ queueing'[q] \in QueueStates
               /\ queueing'[q] = queueing[q] \/ queueing'[q].pc = "lost"
    BY DEF ProveCrash, Lost, ProveInv, ProveTypeOK, QueueStates
  <1>4. ProveTypeOK'
    <2>1. asked' \in [ProveAsks -> AskStates]
      BY <1>2 DEF ProveCrash
    <2>2. queueing' \in [QueueAsks -> QueueStates]
      BY <1>3 DEF ProveCrash
    <2> QED
      BY <1>1, <2>1, <2>2 DEF ProveInv, ProveTypeOK
  <1>5. GapsKept /\ \A gap \in GapIds : GapOK(gap)'
    BY <1>1, SameGaps
  <1>6. \A a \in ProveAsks : AskOK(a)'
    <2> SUFFICES ASSUME NEW a \in ProveAsks PROVE AskOK(a)'
      OBVIOUS
    <2>1. CASE asked[a].pc \notin {"file", "trace"}
      BY <1>1, <1>2, <1>4, <1>5, <2>1, AskUndisturbed
    <2>2. CASE asked[a].pc \in {"file", "trace"}
      <3>1. \A t \in traces : t.trace # a
        BY <2>2 DEF ProveInv, AskOK
      <3> QED
        BY <1>1, <1>2, <2>2, <3>1 DEF AskOK
    <2> QED
      BY <2>1, <2>2
  <1>7. \A q \in QueueAsks : QueueOK(q)'
    <2> SUFFICES ASSUME NEW q \in QueueAsks PROVE QueueOK(q)'
      OBVIOUS
    <2>1. CASE queueing'[q] = queueing[q]
      BY <1>1, <1>4, <1>5, <2>1, QueueUndisturbed
    <2>2. CASE queueing'[q].pc = "lost"
      BY <2>2 DEF QueueOK
    <2> QED
      BY <1>3, <2>1, <2>2
  <1>8. \A i \in DOMAIN gaps' : OriginOK(i)'
    <2> SUFFICES ASSUME NEW i \in DOMAIN gaps PROVE OriginOK(i)'
      BY <1>1
    <2>1. OriginOK(i) /\ gaps[i].origin \in ProveAsks
      BY GapsIndexed DEF ProveInv, Filings
    <2>2. Traced(gaps[i].origin) => Traced(gaps[i].origin)'
      BY <1>1 DEF Traced
    <2> QED
      BY <1>1, <1>2, <2>1, <2>2 DEF OriginOK
  <1> QED
    BY <1>1, <1>4, <1>5, <1>6, <1>7, <1>8, SampleUndisturbed DEF ProveInv

LEMMA ProveStep == ProveInv /\ [ProveNext]_proveVars => ProveInv'
  <1> SUFFICES ASSUME ProveInv, [ProveNext]_proveVars PROVE ProveInv'
    OBVIOUS
  <1>1. CASE UNCHANGED proveVars
    <2>1. ProveTypeOK'
      BY <1>1 DEF proveVars, ProveInv, ProveTypeOK
    <2>2. GapsKept /\ \A gap \in GapIds : GapOK(gap)'
      BY <1>1, SameGaps DEF proveVars
    <2>3. \A i \in DOMAIN gaps' : OriginOK(i)'
      BY <1>1 DEF proveVars, ProveInv, OriginOK, Traced
    <2> QED
      BY <1>1, <2>1, <2>2, <2>3, AskUndisturbed, QueueUndisturbed, SampleUndisturbed
      DEF ProveInv, proveVars
  <1>2. CASE ProveNext
    BY <1>2, SeedAnswerInv, SeedTraceInv, ServeInv, AskSeededInv, AskNovelInv, FileGapInv,
       StoreTraceInv, QueueFindInv, QueueMarkInv, ProveCrashInv DEF ProveNext
  <1> QED
    BY <1>1, <1>2

LEMMA ProveInvImplies == ProveInv => ProveOnRecord
  <1> SUFFICES ASSUME ProveInv PROVE ProveOnRecord
    OBVIOUS
  <1>1. ASSUME NEW a \in ProveAsks, asked[a].pc = "told"
        PROVE  /\ Trace(a, asked[a].envelope) \in traces
               /\ Walk(a) = {WalkClaim(asked[a].envelope)}
               /\ asked[a].envelope.gap \in Novel => DocsOf(asked[a].envelope.gap) # {}
    <2>1. /\ Trace(a, asked[a].envelope) \in traces
          /\ \A t \in traces : t.trace = a => t = Trace(a, asked[a].envelope)
          /\ asked[a].envelope.gap \in Novel => DocsOf(asked[a].envelope.gap) # {}
      BY <1>1 DEF ProveInv, AskOK
    <2>2. Traced(a) /\ {u \in traces : u.trace = a} = {Trace(a, asked[a].envelope)}
      BY <2>1, TraceIs DEF Traced
    <2>3. Walk(a) = {WalkClaim(asked[a].envelope)}
      BY <2>2, TraceIs DEF Walk
    <2> QED
      BY <2>1, <2>3
  <1>2. ASSUME NEW question \in answers, boot = "serving"
        PROVE  Walk(SampleTrace(question)) = {WalkClaim(SampleEnvelope(question))}
    <2>1. question \in SampleQuestions
      BY DEF ProveInv, ProveTypeOK
    <2>2. /\ Traced(SampleTrace(question))
          /\ \A t \in traces : t.trace = SampleTrace(question) =>
               t = Trace(SampleTrace(question), SampleEnvelope(question))
      BY <1>2, <2>1 DEF ProveInv, SampleOK
    <2>3. {u \in traces : u.trace = SampleTrace(question)}
            = {Trace(SampleTrace(question), SampleEnvelope(question))}
      BY <2>2 DEF Traced
    <2> QED
      BY <2>2, <2>3, TraceIs DEF Walk
  <1>3. boot = "serving" => \A sample \in SampleEnvelopes : Walk(sample.trace) = {WalkClaim(sample.envelope)}
    BY <1>2 DEF SampleEnvelopes
  <1> QED
    BY <1>1, <1>3 DEF ProveOnRecord, ProveInv, QueueOK, OriginOK

\* prove_ask, queue_gap, prove_trace: what was told walks to what was told, and a gap that
\* was told is filed and stays queued, whatever asks overlap, die and are seeded again.
THEOREM ProveOnRecordHolds == ProveSpec => []ProveOnRecord
  BY ProveInitInv, ProveStep, ProveInvImplies, PTL DEF ProveSpec

--------------------------------------------------------------------------------
(***************************************************************************)
(* The tier lock and the quotes.  A marker file is named by at most one    *)
(* row or one post that is about to write its row; from the moment a lock  *)
(* was told in this run of the process the flag is up until an unlocking   *)
(* begins; a quote is on the ledger exactly from its minting on.           *)
(***************************************************************************)

Decisions ==
  {"form_not_offerable", "exploratory_tier_expired", "pricing_tier_frozen_by_control_surface",
   "fleet_policy_reserved_zero_capacity", "mint"}
MarkerDocs == [key : LockKeys, locked : BOOLEAN]
RuleRows == [kind : {"rule_change"}, key : LockKeys, from : BOOLEAN, to : BOOLEAN, path : Nat]
MintRows == [kind : {"minted"}, key : QuoteAsks, figure : Nat, class : {"warm_qualified", "fresh_extraction"}]
PostStates ==
  [pc : {"idle"}]
  \cup [pc : {"replayed"}, key : LockKeys, path : Nat, locked : BOOLEAN]
  \cup [pc : {"write", "lost"}, key : LockKeys, body : BOOLEAN, from : BOOLEAN, boot : Nat]
  \cup [pc : {"record", "insert", "set", "told", "lost"}, key : LockKeys, body : BOOLEAN, from : BOOLEAN, boot : Nat,
        path : Nat]
QuoteStates ==
  [pc : {"idle"}]
  \cup [pc : {"refused", "mint", "minted", "lost"}, request : QuoteRequests, reason : Decisions, boot : Nat,
        frozen : BOOLEAN]

TierTypeOK ==
  /\ markers \in Seq(MarkerDocs) /\ tierRows \in Seq(RuleRows \cup MintRows)
  /\ locked \in BOOLEAN /\ expired \in BOOLEAN /\ boots \in Nat
  /\ posting \in [LockPosts -> PostStates] /\ quoting \in [QuoteAsks -> QuoteStates]

\* A row names a marker file that no other row names; a key has a first row.
RuleOK(i) ==
  /\ tierRows[i].path \in DOMAIN markers
  /\ markers[tierRows[i].path] = [key |-> tierRows[i].key, locked |-> tierRows[i].to]
  /\ \A j \in RuleChanges : i # j => tierRows[i].path # tierRows[j].path
FirstRuleOK(key) == KeyKnown(key) => \E i \in RuleRowsOf(key) : \A j \in RuleRowsOf(key) : i <= j

Filing(h) == posting[h].pc \in {"record", "insert"}
PostOK(h) ==
  /\ posting[h].pc \in {"record", "insert", "set", "told", "replayed"} =>
       posting[h].path \in DOMAIN markers /\ markers[posting[h].path].key = posting[h].key
  /\ Filing(h) =>
       /\ markers[posting[h].path].locked = posting[h].body
       /\ \A i \in RuleChanges : tierRows[i].path # posting[h].path
       /\ \A g \in LockPosts : g # h /\ Filing(g) => posting[g].path # posting[h].path
  /\ posting[h].pc \in {"set", "told", "replayed"} => KeyKnown(posting[h].key)
  /\ posting[h].pc \in {"write", "record", "insert", "set", "told"} => posting[h].boot <= boots

\* The flag, while no unlocking was begun.
LockedOK == LocksTold # {} /\ Unlocking = {} => locked

QuoteOK(q) ==
  /\ quoting[q].pc \in {"mint", "minted"} => ~quoting[q].frozen
  /\ quoting[q].pc = "minted" => \E i \in DOMAIN tierRows : tierRows[i] = QuoteRow(q)
  /\ quoting[q].pc \in {"idle", "refused", "mint"} => \A i \in DOMAIN tierRows : tierRows[i].key # q

TierInv ==
  /\ TierTypeOK /\ LockedOK
  /\ \A i \in RuleChanges : RuleOK(i)
  /\ \A key \in LockKeys : FirstRuleOK(key)
  /\ \A h \in LockPosts : PostOK(h)
  /\ \A q \in QuoteAsks : QuoteOK(q)

--------------------------------------------------------------------------------
(* Shapes.                                                                     *)

LEMMA RowsIndexed ==
  ASSUME TierTypeOK
  PROVE  /\ DOMAIN tierRows = 1..Len(tierRows) /\ Len(tierRows) \in Nat
         /\ DOMAIN markers = 1..Len(markers) /\ Len(markers) \in Nat
         /\ \A i \in DOMAIN markers : markers[i] \in MarkerDocs
         /\ \A i \in RuleChanges : tierRows[i] \in RuleRows
         /\ \A i \in DOMAIN tierRows : i \notin RuleChanges => tierRows[i] \in MintRows
         /\ RuleChanges \subseteq DOMAIN tierRows
  <1>1. /\ DOMAIN tierRows = 1..Len(tierRows) /\ Len(tierRows) \in Nat
        /\ DOMAIN markers = 1..Len(markers) /\ Len(markers) \in Nat
    BY DEF TierTypeOK
  <1>2. \A i \in DOMAIN markers : markers[i] \in MarkerDocs
    BY DEF TierTypeOK
  <1>3. \A i \in DOMAIN tierRows : tierRows[i] \in RuleRows \cup MintRows
    BY DEF TierTypeOK
  <1> QED
    BY <1>1, <1>2, <1>3 DEF RuleChanges, RuleRows, MintRows

LEMMA PostIs ==
  ASSUME TierTypeOK, NEW h \in LockPosts
  PROVE  /\ posting[h] \in PostStates
         /\ posting[h].pc \in {"idle", "replayed", "write", "record", "insert", "set", "told", "lost"}
         /\ posting[h].pc # "idle" => posting[h].key \in LockKeys
         /\ posting[h].pc \in {"write", "record", "insert", "set", "told"} =>
              posting[h].boot \in Nat /\ posting[h].from \in BOOLEAN /\ posting[h].body \in BOOLEAN
         /\ posting[h].pc = "write" =>
              posting[h] \in [pc : {"write", "lost"}, key : LockKeys, body : BOOLEAN, from : BOOLEAN, boot : Nat]
         /\ posting[h].pc \in {"record", "insert", "set", "told"} =>
              posting[h] \in [pc : {"record", "insert", "set", "told", "lost"}, key : LockKeys, body : BOOLEAN,
                              from : BOOLEAN, boot : Nat, path : Nat]
  <1>1. posting[h] \in PostStates
    BY DEF TierTypeOK
  <1> QED
    BY <1>1 DEF PostStates

LEMMA QuoteIs ==
  ASSUME TierTypeOK, NEW q \in QuoteAsks
  PROVE  /\ quoting[q].pc \in {"idle", "refused", "mint", "minted", "lost"}
         /\ quoting[q].pc # "idle" =>
              /\ quoting[q].request \in QuoteRequests
              /\ quoting[q] \in [pc : {"refused", "mint", "minted", "lost"}, request : QuoteRequests,
                                 reason : Decisions, boot : Nat, frozen : BOOLEAN]
  <1>1. quoting[q] \in QuoteStates
    BY DEF TierTypeOK
  <1> QED
    BY <1>1 DEF QuoteStates

\* The row of a minted quote depends on its request alone.
LEMMA MintedRow ==
  ASSUME NEW q \in QuoteAsks, quoting'[q].request = quoting[q].request
  PROVE  QuoteRow(q)' = QuoteRow(q)
  BY DEF QuoteRow

\* Neither the rows nor the files change.
LEMMA TablesSame ==
  ASSUME TierInv, tierRows' = tierRows, markers' = markers
  PROVE  /\ \A i \in RuleChanges' : RuleOK(i)'
         /\ \A key \in LockKeys : FirstRuleOK(key)'
         /\ RuleChanges' = RuleChanges
         /\ \A key : KeyKnown(key)' <=> KeyKnown(key)
  <1>1. RuleChanges' = RuleChanges
    BY DEF RuleChanges
  <1>2. \A key : RuleRowsOf(key)' = RuleRowsOf(key)
    BY DEF RuleRowsOf
  <1> QED
    BY <1>1, <1>2 DEF TierInv, RuleOK, FirstRuleOK, KeyKnown

\* A quote that a step does not move, when rows of others are added.
LEMMA QuoteUndisturbed ==
  ASSUME TierInv, NEW q \in QuoteAsks, quoting'[q] = quoting[q],
         \A i \in DOMAIN tierRows : i \in DOMAIN tierRows' /\ tierRows'[i] = tierRows[i],
         \A i \in DOMAIN tierRows' : i \notin DOMAIN tierRows => tierRows'[i].key # q
  PROVE  QuoteOK(q)'
  <1>1. QuoteOK(q) /\ QuoteRow(q)' = QuoteRow(q)
    BY MintedRow DEF TierInv
  <1> QED
    BY <1>1 DEF QuoteOK

\* A post that a step does not move: keys stay known, files stay, and a post on its way to
\* its row shares the path with no row and no other such post.
LEMMA PostUndisturbed ==
  ASSUME TierInv, NEW h \in LockPosts, posting'[h] = posting[h], boots <= boots', boots' \in Nat,
         \A i \in DOMAIN markers : i \in DOMAIN markers' /\ markers'[i] = markers[i],
         \A key : KeyKnown(key) => KeyKnown(key)',
         Filing(h) => /\ \A i \in RuleChanges' : tierRows'[i].path # posting[h].path
                      /\ \A g \in LockPosts : g # h /\ Filing(g)' => posting'[g].path # posting[h].path
  PROVE  PostOK(h)'
  <1>1. PostOK(h) /\ boots \in Nat
    BY DEF TierInv, TierTypeOK
  <1>2. Filing(h)' <=> Filing(h)
    BY DEF Filing
  <1>3. posting[h].pc \in {"write", "record", "insert", "set", "told"} => posting[h].boot \in Nat
    BY PostIs DEF TierInv
  <1>4. posting[h].pc \in {"write", "record", "insert", "set", "told"} => posting'[h].boot <= boots'
    BY <1>1, <1>3 DEF PostOK
  <1>5. Filing(h)' => markers'[posting'[h].path].locked = posting'[h].body
    BY <1>1, <1>2 DEF PostOK, Filing
  <1>6. posting[h].pc \in {"record", "insert", "set", "told", "replayed"} =>
          posting'[h].path \in DOMAIN markers' /\ markers'[posting'[h].path].key = posting'[h].key
    BY <1>1 DEF PostOK
  <1>7. posting[h].pc \in {"set", "told", "replayed"} => KeyKnown(posting[h].key)'
    <2>1. ASSUME NEW key, key = posting[h].key, KeyKnown(key) PROVE KeyKnown(posting[h].key)'
      BY <2>1 DEF KeyKnown, RuleRowsOf
    <2> QED
      BY <1>1, <2>1 DEF PostOK
  <1> QED
    BY <1>2, <1>4, <1>5, <1>6, <1>7 DEF PostOK

\* Steps of quotes and of the clock.
LEMMA PostsSame ==
  ASSUME TierInv, UNCHANGED <<markers, posting, boots>>,
         \A i \in DOMAIN tierRows : i \in DOMAIN tierRows' /\ tierRows'[i] = tierRows[i],
         RuleChanges' = RuleChanges
  PROVE  \A h \in LockPosts : PostOK(h)'
  <1> SUFFICES ASSUME NEW h \in LockPosts PROVE PostOK(h)'
    OBVIOUS
  <1>1. boots \in Nat /\ boots <= boots
    BY DEF TierInv, TierTypeOK
  <1>2. \A key : KeyKnown(key) => KeyKnown(key)'
    BY DEF KeyKnown, RuleRowsOf
  <1>3. Filing(h) => /\ \A i \in RuleChanges' : tierRows'[i].path # posting[h].path
                     /\ \A g \in LockPosts : g # h /\ Filing(g)' => posting'[g].path # posting[h].path
    <2>1. \A i \in RuleChanges' : i \in RuleChanges /\ tierRows'[i] = tierRows[i]
      BY RowsIndexed DEF TierInv
    <2> QED
      BY <2>1 DEF TierInv, PostOK, Filing
  <1> QED
    BY <1>1, <1>2, <1>3, PostUndisturbed

--------------------------------------------------------------------------------
(* The posts.                                                                  *)

LEMMA TierInitInv == TierInit => TierInv
  <1> SUFFICES ASSUME TierInit PROVE TierInv
    OBVIOUS
  <1>1. /\ \A h \in LockPosts : posting[h].pc = "idle"
        /\ \A q \in QuoteAsks : quoting[q].pc = "idle"
        /\ DOMAIN tierRows = {}
    BY DEF TierInit
  <1>2. /\ markers \in Seq(MarkerDocs) /\ tierRows \in Seq(RuleRows \cup MintRows)
        /\ locked \in BOOLEAN /\ expired \in BOOLEAN /\ boots \in Nat
    <2>1. markers = <<>> /\ tierRows = <<>>
      BY DEF TierInit
    <2>2. locked \in BOOLEAN /\ expired \in BOOLEAN /\ boots \in Nat
      BY DEF TierInit
    <2> QED
      BY <2>1, <2>2
  <1>3. [pc |-> "idle"] \in PostStates /\ [pc |-> "idle"] \in QuoteStates
    BY DEF PostStates, QuoteStates
  <1>4. posting \in [LockPosts -> PostStates] /\ quoting \in [QuoteAsks -> QuoteStates]
    BY <1>3 DEF TierInit
  <1>5. TierTypeOK
    BY <1>2, <1>4 DEF TierTypeOK
  <1> QED
    BY <1>1, <1>5 DEF TierInit, TierInv, LockedOK, RuleChanges, LocksTold, FirstRuleOK, KeyKnown, RuleRowsOf,
       PostOK, Filing, QuoteOK

\* What a post's step leaves of the flag's rule: the flag as it was and no lock told anew.
LEMMA LockedKept ==
  ASSUME LockedOK, locked' = locked, LocksTold' \subseteq LocksTold, Unlocking \subseteq Unlocking',
         \A i \in RuleChanges : i \in RuleChanges' /\ tierRows'[i] = tierRows[i]
  PROVE  LockedOK'
  BY DEF LockedOK

\* A post that goes on, in this run of the process.
LEMMA PostMoves ==
  ASSUME NEW h \in LockPosts, UNCHANGED boots, \A g \in LockPosts : g # h => posting'[g] = posting[g],
         posting'[h].pc # "told",
         posting[h].pc \notin {"idle", "lost", "replayed"} =>
           posting'[h].pc \notin {"idle", "lost", "replayed"} /\ posting'[h].body = posting[h].body
  PROVE  LocksTold' \subseteq LocksTold /\ Unlocking \subseteq Unlocking'
  BY DEF LocksTold, Unlocking

LEMMA PostFindInv ==
  ASSUME TierInv, NEW h \in LockPosts, NEW key \in LockKeys, NEW body \in BOOLEAN, PostFind(h, key, body)
  PROVE  TierInv'
  <1>1. /\ posting[h].pc = "idle" /\ UNCHANGED <<markers, tierRows, locked, expired, fleetZero, quoting, boots>>
    BY DEF PostFind
  <1>2. PICK next : /\ posting' = [posting EXCEPT ![h] = next] /\ next \in PostStates
                    /\ next.pc \in {"replayed", "write"} /\ next.key = key
                    /\ next.pc = "replayed" => /\ KeyKnown(key) /\ next.path \in DOMAIN markers
                                               /\ markers[next.path].key = key
                    /\ next.pc = "write" => next.boot = boots
    <2>1. CASE KeyKnown(key)
      <3> PICK first \in RuleRowsOf(key) : first = Min(RuleRowsOf(key))
        BY <2>1 DEF TierInv, FirstRuleOK, Min
      <3>1. first \in RuleChanges /\ tierRows[first].key = key
        BY DEF RuleRowsOf, RuleChanges
      <3>2. tierRows[first] \in RuleRows /\ RuleOK(first) /\ locked \in BOOLEAN
        BY <3>1, RowsIndexed DEF TierInv, TierTypeOK
      <3> PICK path : path = tierRows[first].path
        OBVIOUS
      <3>3. path \in Nat
        BY <3>2 DEF RuleRows
      <3>4. path \in DOMAIN markers /\ markers[path].key = key
        <4>1. markers[path] = [key |-> tierRows[first].key, locked |-> tierRows[first].to]
          BY <3>2 DEF RuleOK
        <4> QED
          BY <3>1, <3>2, <4>1 DEF RuleOK
      <3> DEFINE next == [pc |-> "replayed", key |-> key, path |-> path, locked |-> locked]
      <3>5. next \in PostStates
        BY <3>2, <3>3 DEF PostStates
      <3>6. posting' = [posting EXCEPT ![h] = next]
        BY <2>1 DEF PostFind
      <3>7. next.pc = "replayed" /\ next.key = key /\ next.path = path
        OBVIOUS
      <3> HIDE DEF next
      <3> QED
        BY <2>1, <3>4, <3>5, <3>6, <3>7
    <2>2. CASE ~KeyKnown(key)
      <3> DEFINE next == [pc |-> "write", key |-> key, body |-> body, from |-> locked, boot |-> boots]
      <3>1. next \in PostStates
        BY DEF PostStates, TierInv, TierTypeOK
      <3>2. posting' = [posting EXCEPT ![h] = next]
        BY <2>2 DEF PostFind
      <3>3. next.pc = "write" /\ next.key = key /\ next.boot = boots
        OBVIOUS
      <3> HIDE DEF next
      <3> QED
        BY <3>1, <3>2, <3>3
    <2> QED
      BY <2>1, <2>2
  <1>3. /\ posting'[h] = next /\ \A g \in LockPosts : g # h => posting'[g] = posting[g]
        /\ posting' \in [LockPosts -> PostStates] /\ boots \in Nat
    BY <1>2 DEF TierInv, TierTypeOK
  <1>4. TierTypeOK'
    BY <1>1, <1>3 DEF TierInv, TierTypeOK
  <1>5. LockedOK'
    BY <1>1, <1>2, <1>3, PostMoves, LockedKept DEF TierInv, RuleChanges
  <1>6. \A g \in LockPosts : PostOK(g)'
    <2> SUFFICES ASSUME NEW g \in LockPosts PROVE PostOK(g)'
      OBVIOUS
    <2>1. CASE g # h
      <3>1. Filing(g) => /\ \A i \in RuleChanges' : tierRows'[i].path # posting[g].path
                         /\ \A f \in LockPosts : f # g /\ Filing(f)' => posting'[f].path # posting[g].path
        BY <1>1, <1>2, <1>3, TablesSame DEF TierInv, PostOK, Filing
      <3>2. boots <= boots' /\ \A i : KeyKnown(i) => KeyKnown(i)'
        BY <1>1, <1>3, TablesSame
      <3> QED
        BY <1>1, <1>3, <2>1, <3>1, <3>2, PostUndisturbed
    <2>2. CASE g = h
      <3>1. KeyKnown(key)' <=> KeyKnown(key)
        BY <1>1, TablesSame
      <3>2. boots <= boots
        BY <1>3
      <3> QED
        BY <1>1, <1>2, <1>3, <2>2, <3>1, <3>2 DEF PostOK, Filing
    <2> QED
      BY <2>1, <2>2
  <1>7. \A q \in QuoteAsks : QuoteOK(q)'
    BY <1>1, QuoteUndisturbed
  <1> QED
    BY <1>1, <1>4, <1>5, <1>6, <1>7, TablesSame DEF TierInv

LEMMA PostWriteInv ==
  ASSUME TierInv, NEW h \in LockPosts, PostWrite(h)
  PROVE  TierInv'
  <1> DEFINE doc == [key |-> posting[h].key, locked |-> posting[h].body]
  <1>1. /\ posting[h].pc = "write" /\ UNCHANGED <<tierRows, locked, expired, fleetZero, quoting, boots>>
        /\ posting[h].key \in LockKeys /\ posting[h].boot \in Nat /\ posting[h].from \in BOOLEAN
        /\ posting[h].body \in BOOLEAN
    BY PostIs DEF PostWrite, TierInv
  <1>2. /\ doc \in MarkerDocs /\ doc.key = posting[h].key /\ doc.locked = posting[h].body
        /\ markers' = Append(markers, doc)
    BY <1>1, TierAssumption DEF PostWrite, MarkerDocs
  <1> HIDE DEF doc
  <1> PICK n \in Nat : n = Len(markers) + 1
    BY RowsIndexed DEF TierInv
  <1>3. /\ markers' \in Seq(MarkerDocs) /\ DOMAIN markers' = 1..n /\ n \in DOMAIN markers' /\ markers'[n] = doc
        /\ \A i \in DOMAIN markers : i \in DOMAIN markers' /\ markers'[i] = markers[i] /\ i # n
        /\ Len(markers') = n
    BY <1>2 DEF TierInv, TierTypeOK
  <1> DEFINE next == [pc |-> "record", key |-> posting[h].key, body |-> posting[h].body, from |-> posting[h].from,
                      boot |-> posting[h].boot, path |-> n]
  <1>4. /\ posting' = [posting EXCEPT ![h] = next] /\ next \in PostStates
    BY <1>1, <1>3 DEF PostWrite, PostStates
  <1>5. /\ next.pc = "record" /\ next.key = posting[h].key /\ next.body = posting[h].body /\ next.boot = posting[h].boot /\ next.path = n
    OBVIOUS
  <1> HIDE DEF next
  <1>6. /\ posting'[h] = next /\ \A g \in LockPosts : g # h => posting'[g] = posting[g]
        /\ posting' \in [LockPosts -> PostStates] /\ boots \in Nat
    BY <1>4 DEF TierInv, TierTypeOK
  <1>7. TierTypeOK'
    BY <1>1, <1>3, <1>6 DEF TierInv, TierTypeOK
  <1>8. LockedOK'
    BY <1>1, <1>5, <1>6, PostMoves, LockedKept DEF TierInv, RuleChanges
  <1>9. /\ RuleChanges' = RuleChanges /\ \A i : KeyKnown(i)' <=> KeyKnown(i)
        /\ \A key \in LockKeys : FirstRuleOK(key)'
    <2>1. RuleChanges' = RuleChanges /\ \A key : RuleRowsOf(key)' = RuleRowsOf(key)
      BY <1>1 DEF RuleChanges, RuleRowsOf
    <2> QED
      BY <2>1 DEF TierInv, FirstRuleOK, KeyKnown
  <1>10. \A i \in RuleChanges' : RuleOK(i)'
    <2> SUFFICES ASSUME NEW i \in RuleChanges PROVE RuleOK(i)'
      BY <1>9
    <2>1. RuleOK(i)
      BY DEF TierInv
    <2> QED
      BY <1>1, <1>3, <1>9, <2>1 DEF RuleOK
  <1>11. \A i \in RuleChanges : tierRows[i].path \in DOMAIN markers
    BY DEF TierInv, RuleOK
  <1>12. \A g \in LockPosts : Filing(g) => posting[g].path \in DOMAIN markers
    BY DEF TierInv, PostOK, Filing
  <1>13. \A g \in LockPosts : PostOK(g)'
    <2> SUFFICES ASSUME NEW g \in LockPosts PROVE PostOK(g)'
      OBVIOUS
    <2>1. CASE g # h
      <3>1. Filing(g) => /\ \A i \in RuleChanges' : tierRows'[i].path # posting[g].path
                         /\ \A f \in LockPosts : f # g /\ Filing(f)' => posting'[f].path # posting[g].path
        <4> SUFFICES ASSUME Filing(g), NEW f \in LockPosts, f # g, Filing(f)'
                     PROVE  posting'[f].path # posting[g].path
          BY <1>1, <1>9 DEF TierInv, PostOK
        <4>1. CASE f = h
          BY <1>3, <1>5, <1>6, <1>12, <4>1
        <4>2. CASE f # h
          BY <1>6, <4>2 DEF TierInv, PostOK, Filing
        <4> QED
          BY <4>1, <4>2
      <3>2. boots <= boots' /\ boots' \in Nat
        BY <1>1, <1>6
      <3> QED
        BY <1>3, <1>6, <1>9, <2>1, <3>1, <3>2, PostUndisturbed
    <2>2. CASE g = h
      <3>1. posting[h].boot <= boots /\ ~Filing(h)
        BY <1>1 DEF TierInv, PostOK, Filing
      <3>2. \A i \in RuleChanges : tierRows[i].path # n
        BY <1>3, <1>11
      <3>3. \A f \in LockPosts : f # h /\ Filing(f)' => posting'[f].path # n
        BY <1>3, <1>6, <1>12 DEF Filing
      <3> QED
        BY <1>1, <1>2, <1>3, <1>5, <1>6, <1>9, <2>2, <3>1, <3>2, <3>3 DEF PostOK, Filing
    <2> QED
      BY <2>1, <2>2
  <1>14. \A q \in QuoteAsks : QuoteOK(q)'
    BY <1>1, QuoteUndisturbed
  <1> QED
    BY <1>7, <1>8, <1>9, <1>10, <1>13, <1>14 DEF TierInv

\* A post that only goes on to its next step.
LEMMA PostGoesOn ==
  ASSUME TierTypeOK, NEW h \in LockPosts, NEW onward \in {"insert", "set", "told"},
         posting[h].pc \in {"record", "insert", "set"}, posting' = [posting EXCEPT ![h].pc = onward]
  PROVE  /\ posting'[h].pc = onward /\ posting'[h].key = posting[h].key /\ posting'[h].boot = posting[h].boot
         /\ posting'[h].body = posting[h].body
         /\ posting'[h].path = posting[h].path
         /\ \A g \in LockPosts : g # h => posting'[g] = posting[g]
         /\ posting' \in [LockPosts -> PostStates]
  <1> DEFINE Next5 == [pc : {"record", "insert", "set", "told", "lost"}, key : LockKeys, body : BOOLEAN, from : BOOLEAN,
                       boot : Nat, path : Nat]
             next == [posting[h] EXCEPT !.pc = onward]
  <1>1. posting[h] \in Next5
    BY PostIs
  <1>2. /\ next \in Next5 /\ next.pc = onward /\ next.key = posting[h].key /\ next.boot = posting[h].boot
        /\ next.body = posting[h].body /\ next.path = posting[h].path
    BY <1>1
  <1>3. next \in PostStates
    BY <1>2 DEF PostStates
  <1>4. posting' = [posting EXCEPT ![h] = next] /\ posting \in [LockPosts -> PostStates]
    BY DEF TierTypeOK
  <1> HIDE DEF next
  <1> QED
    BY <1>2, <1>3, <1>4

LEMMA PostRecordInv ==
  ASSUME TierInv, NEW h \in LockPosts, PostRecord(h)
  PROVE  TierInv'
  <1>1. /\ posting[h].pc = "record" /\ UNCHANGED <<markers, tierRows, locked, expired, fleetZero, quoting, boots>>
    BY DEF PostRecord
  <1> PICK onward \in {"insert", "set"} : /\ posting' = [posting EXCEPT ![h].pc = onward]
                                          /\ onward = "set" => KeyKnown(posting[h].key)
    BY DEF PostRecord
  <1>2. /\ posting'[h].pc = onward /\ posting'[h].key = posting[h].key /\ posting'[h].boot = posting[h].boot
        /\ posting'[h].body = posting[h].body
        /\ posting'[h].path = posting[h].path
        /\ \A g \in LockPosts : g # h => posting'[g] = posting[g]
        /\ posting' \in [LockPosts -> PostStates]
    BY <1>1, PostGoesOn DEF TierInv
  <1>3. TierTypeOK'
    BY <1>1, <1>2 DEF TierInv, TierTypeOK
  <1>4. LockedOK'
    BY <1>1, <1>2, PostMoves, LockedKept DEF TierInv, RuleChanges
  <1>5. \A g \in LockPosts : Filing(g)' => Filing(g) /\ posting'[g].path = posting[g].path
    BY <1>1, <1>2 DEF Filing
  <1>6. RuleChanges' = RuleChanges /\ \A key : KeyKnown(key)' <=> KeyKnown(key)
    BY <1>1, TablesSame
  <1>7. boots \in Nat /\ boots <= boots
    BY DEF TierInv, TierTypeOK
  <1>8. \A g \in LockPosts : PostOK(g)'
    <2> SUFFICES ASSUME NEW g \in LockPosts PROVE PostOK(g)'
      OBVIOUS
    <2>1. Filing(g) => /\ \A i \in RuleChanges' : tierRows'[i].path # posting[g].path
                       /\ \A f \in LockPosts : f # g /\ Filing(f)' => posting'[f].path # posting[g].path
      BY <1>1, <1>5, <1>6 DEF TierInv, PostOK
    <2>2. CASE g # h
      BY <1>1, <1>2, <1>6, <1>7, <2>1, <2>2, PostUndisturbed
    <2>3. CASE g = h
      <3>1. PostOK(h) /\ Filing(h)
        BY <1>1 DEF TierInv, Filing
      <3>2. onward = "set" => KeyKnown(posting[h].key)'
        BY <1>1, <1>2 DEF KeyKnown, RuleRowsOf
      <3> QED
        BY <1>1, <1>2, <1>5, <2>1, <2>3, <3>1, <3>2 DEF PostOK
    <2> QED
      BY <2>2, <2>3
  <1>9. \A q \in QuoteAsks : QuoteOK(q)'
    BY <1>1, QuoteUndisturbed
  <1> QED
    BY <1>1, <1>3, <1>4, <1>8, <1>9, TablesSame DEF TierInv

LEMMA PostInsertInv ==
  ASSUME TierInv, NEW h \in LockPosts, PostInsert(h)
  PROVE  TierInv'
  <1>1. /\ posting[h].pc = "insert" /\ UNCHANGED <<markers, locked, expired, fleetZero, quoting, boots>>
        /\ posting' = [posting EXCEPT ![h].pc = "set"] /\ Filing(h) /\ PostOK(h)
        /\ posting[h].key \in LockKeys /\ posting[h].from \in BOOLEAN /\ posting[h].path \in Nat
        /\ posting[h].body \in BOOLEAN
    <2>1. posting[h].path \in DOMAIN markers
      BY DEF PostInsert, TierInv, PostOK
    <2> QED
      BY <2>1, PostIs, RowsIndexed DEF PostInsert, TierInv, Filing
  <1>2. /\ posting'[h].pc = "set" /\ posting'[h].key = posting[h].key /\ posting'[h].boot = posting[h].boot
        /\ posting'[h].body = posting[h].body
        /\ posting'[h].path = posting[h].path
        /\ \A g \in LockPosts : g # h => posting'[g] = posting[g]
        /\ posting' \in [LockPosts -> PostStates]
    BY <1>1, PostGoesOn DEF TierInv
  <1> DEFINE row == RuleChange(h)
  <1>3. /\ row \in RuleRows /\ row.kind = "rule_change" /\ row.key = posting[h].key
        /\ row.to = posting[h].body /\ row.path = posting[h].path /\ row.key \notin QuoteAsks
        /\ tierRows' = Append(tierRows, row)
    BY <1>1, TierAssumption DEF PostInsert, RuleChange, RuleRows
  <1> HIDE DEF row
  <1> PICK n \in Nat : n = Len(tierRows) + 1
    BY RowsIndexed DEF TierInv
  <1>4. tierRows \in Seq(RuleRows \cup MintRows) /\ row \in RuleRows \cup MintRows
    BY <1>3 DEF TierInv, TierTypeOK
  <1>5. /\ tierRows' \in Seq(RuleRows \cup MintRows) /\ DOMAIN tierRows' = 1..n /\ tierRows'[n] = row
        /\ DOMAIN tierRows = 1..(n - 1) /\ n \in DOMAIN tierRows'
        /\ \A i \in DOMAIN tierRows : i \in DOMAIN tierRows' /\ tierRows'[i] = tierRows[i] /\ i # n /\ i <= n
        /\ \A i \in DOMAIN tierRows' : i = n \/ i \in DOMAIN tierRows
    BY <1>3, <1>4
  <1>6. TierTypeOK'
    BY <1>1, <1>2, <1>5 DEF TierInv, TierTypeOK
  <1>7. /\ RuleChanges' = RuleChanges \cup {n} /\ n \notin RuleChanges /\ RuleChanges \subseteq DOMAIN tierRows
        /\ \A i \in RuleChanges : tierRows'[i] = tierRows[i]
    BY <1>3, <1>5 DEF RuleChanges
  <1>8. LockedOK'
    BY <1>1, <1>2, <1>7, PostMoves, LockedKept DEF TierInv
  <1>9. \A i \in RuleChanges' : RuleOK(i)'
    <2>1. \A j \in RuleChanges : tierRows[j].path # row.path
      BY <1>1, <1>3 DEF PostOK
    <2>2. RuleOK(n)'
      <3>1. row.path \in DOMAIN markers /\ markers[row.path].key = row.key /\ markers[row.path].locked = row.to
        BY <1>1, <1>3 DEF PostOK
      <3>2. markers[row.path] = [key |-> row.key, locked |-> row.to]
        <4>1. markers[row.path] \in MarkerDocs
          BY <3>1, RowsIndexed DEF TierInv
        <4> QED
          BY <3>1, <4>1 DEF MarkerDocs
      <3> QED
        BY <1>1, <1>3, <1>5, <1>7, <2>1, <3>1, <3>2 DEF RuleOK
    <2>3. ASSUME NEW i \in RuleChanges PROVE RuleOK(i)'
      <3>1. RuleOK(i)
        BY DEF TierInv
      <3> QED
        BY <1>1, <1>5, <1>7, <2>1, <3>1 DEF RuleOK
    <2> QED
      BY <1>7, <2>2, <2>3
  <1>10. \A key : RuleRowsOf(key)' = RuleRowsOf(key) \cup (IF key = row.key THEN {n} ELSE {})
    BY <1>3, <1>5 DEF RuleRowsOf
  <1>11. \A key \in LockKeys : FirstRuleOK(key)'
    <2> SUFFICES ASSUME NEW key \in LockKeys, KeyKnown(key)'
                 PROVE  \E i \in RuleRowsOf(key)' : \A j \in RuleRowsOf(key)' : i <= j
      BY DEF FirstRuleOK
    <2>1. CASE KeyKnown(key)
      <3> PICK i \in RuleRowsOf(key) : \A j \in RuleRowsOf(key) : i <= j
        BY <2>1 DEF TierInv, FirstRuleOK
      <3>1. i <= n
        BY <1>5 DEF RuleRowsOf
      <3> QED
        BY <1>10, <3>1
    <2>2. CASE ~KeyKnown(key)
      <3>1. RuleRowsOf(key)' = {n} /\ n <= n
        BY <1>10, <2>2 DEF KeyKnown
      <3> QED
        BY <3>1
    <2> QED
      BY <2>1, <2>2
  <1>12. /\ \A key : KeyKnown(key) => KeyKnown(key)'
         /\ KeyKnown(posting[h].key)'
    <2>1. \A key : KeyKnown(key) => KeyKnown(key)'
      BY <1>10 DEF KeyKnown
    <2>2. n \in DOMAIN tierRows' /\ tierRows'[n].kind = "rule_change" /\ tierRows'[n].key = posting'[h].key
      BY <1>2, <1>3, <1>5
    <2>3. KeyKnown(posting[h].key)'
      BY <2>2 DEF KeyKnown, RuleRowsOf
    <2> QED
      BY <2>1, <2>3
  <1>13. \A g \in LockPosts : PostOK(g)'
    <2> SUFFICES ASSUME NEW g \in LockPosts PROVE PostOK(g)'
      OBVIOUS
    <2>1. boots \in Nat /\ boots <= boots
      BY DEF TierInv, TierTypeOK
    <2>2. CASE g # h
      <3>1. Filing(g) => /\ \A i \in RuleChanges' : tierRows'[i].path # posting[g].path
                         /\ \A f \in LockPosts : f # g /\ Filing(f)' => posting'[f].path # posting[g].path
        <4> SUFFICES ASSUME Filing(g)
                     PROVE  /\ \A i \in RuleChanges' : tierRows'[i].path # posting[g].path
                            /\ \A f \in LockPosts : f # g /\ Filing(f)' => posting'[f].path # posting[g].path
          OBVIOUS
        <4>1. /\ \A i \in RuleChanges : tierRows[i].path # posting[g].path
              /\ \A f \in LockPosts : f # g /\ Filing(f) => posting[f].path # posting[g].path
          BY DEF TierInv, PostOK
        <4>2. \A f \in LockPosts : Filing(f)' => f # h /\ Filing(f) /\ posting'[f].path = posting[f].path
          BY <1>2 DEF Filing
        <4> QED
          BY <1>1, <1>3, <1>5, <1>7, <2>2, <4>1, <4>2
      <3> QED
        BY <1>1, <1>2, <1>12, <2>1, <2>2, <3>1, PostUndisturbed
    <2>3. CASE g = h
      <3>1. ~Filing(h)' /\ KeyKnown(posting[h].key)'
        BY <1>2, <1>12 DEF Filing
      <3> QED
        BY <1>1, <1>2, <2>3, <3>1 DEF PostOK
    <2> QED
      BY <2>2, <2>3
  <1>14. \A q \in QuoteAsks : QuoteOK(q)'
    BY <1>1, <1>3, <1>5, QuoteUndisturbed
  <1> QED
    BY <1>6, <1>8, <1>9, <1>11, <1>13, <1>14 DEF TierInv

LEMMA PostSetInv ==
  ASSUME TierInv, NEW h \in LockPosts, PostSet(h)
  PROVE  TierInv'
  <1>1. /\ posting[h].pc = "set" /\ UNCHANGED <<markers, tierRows, expired, fleetZero, quoting, boots>>
        /\ posting' = [posting EXCEPT ![h].pc = "told"] /\ locked' = posting[h].body
        /\ posting[h].key \in LockKeys /\ posting[h].body \in BOOLEAN /\ PostOK(h)
    BY PostIs DEF PostSet, TierInv
  <1>2. /\ posting'[h].pc = "told" /\ posting'[h].key = posting[h].key /\ posting'[h].boot = posting[h].boot
        /\ posting'[h].body = posting[h].body
        /\ posting'[h].path = posting[h].path
        /\ \A g \in LockPosts : g # h => posting'[g] = posting[g]
        /\ posting' \in [LockPosts -> PostStates]
    BY <1>1, PostGoesOn DEF TierInv
  <1>3. TierTypeOK'
    BY <1>1, <1>2, TierAssumption DEF TierInv, TierTypeOK
  <1>4. RuleChanges' = RuleChanges /\ \A key : KeyKnown(key)' <=> KeyKnown(key)
    BY <1>1, TablesSame
  <1>5. LockedOK'
    <2>1. ~posting[h].body => h \in Unlocking'
      BY <1>1, <1>2 DEF Unlocking
    <2> QED
      BY <1>1, <2>1 DEF LockedOK
  <1>6. \A g \in LockPosts : Filing(g)' => g # h /\ Filing(g) /\ posting'[g].path = posting[g].path
    BY <1>1, <1>2 DEF Filing
  <1>7. boots \in Nat /\ boots <= boots
    BY DEF TierInv, TierTypeOK
  <1>8. \A g \in LockPosts : PostOK(g)'
    <2> SUFFICES ASSUME NEW g \in LockPosts PROVE PostOK(g)'
      OBVIOUS
    <2>1. CASE g # h
      <3>1. Filing(g) => /\ \A i \in RuleChanges' : tierRows'[i].path # posting[g].path
                         /\ \A f \in LockPosts : f # g /\ Filing(f)' => posting'[f].path # posting[g].path
        BY <1>1, <1>4, <1>6 DEF TierInv, PostOK
      <3> QED
        BY <1>1, <1>2, <1>4, <1>7, <2>1, <3>1, PostUndisturbed
    <2>2. CASE g = h
      <3>1. ~Filing(h)' /\ KeyKnown(posting[h].key)'
        BY <1>1, <1>2 DEF PostOK, Filing, KeyKnown, RuleRowsOf
      <3> QED
        BY <1>1, <1>2, <2>2, <3>1 DEF PostOK
    <2> QED
      BY <2>1, <2>2
  <1>9. \A q \in QuoteAsks : QuoteOK(q)'
    BY <1>1, QuoteUndisturbed
  <1> QED
    BY <1>1, <1>3, <1>5, <1>8, <1>9, TablesSame DEF TierInv

--------------------------------------------------------------------------------
(* The quotes, the clock and the restart.                                      *)

LEMMA FigureIsNat ==
  ASSUME NEW request \in QuoteRequests
  PROVE  ComputeFigure(request) \in Nat
  <1> DEFINE product == ReachMultiplier(request.scope) * FormMultiplier(request.form) * GrainMultiplier(request.grain)
                        * StandardMultiplier(request.standard)
  <1>1. /\ ReachMultiplier(request.scope) \in Nat /\ FormMultiplier(request.form) \in Nat
        /\ GrainMultiplier(request.grain) \in Nat /\ StandardMultiplier(request.standard) \in Nat
    BY DEF ReachMultiplier, FormMultiplier, GrainMultiplier, StandardMultiplier
  <1>2. product \in Nat
    BY <1>1
  <1>3. \/ ComputeFigure(request) = (product * 100 + 500) \div 1000
        \/ ComputeFigure(request) = (product * 396 + 500) \div 1000
    BY DEF ComputeFigure
  <1> HIDE DEF product
  <1> QED
    BY <1>2, <1>3

\* The same request asked for as warm costs no more than as it was asked for.
LEMMA WarmIsNoDearer ==
  ASSUME NEW warm, NEW request \in QuoteRequests, warm = [request EXCEPT !.fork = "warm"]
  PROVE  ComputeFigure(warm) <= ComputeFigure(request)
  <1> DEFINE product == ReachMultiplier(request.scope) * FormMultiplier(request.form) * GrainMultiplier(request.grain)
                        * StandardMultiplier(request.standard)
  <1>1. /\ ReachMultiplier(request.scope) \in Nat /\ FormMultiplier(request.form) \in Nat
        /\ GrainMultiplier(request.grain) \in Nat /\ StandardMultiplier(request.standard) \in Nat
    BY DEF ReachMultiplier, FormMultiplier, GrainMultiplier, StandardMultiplier
  <1>2. product \in Nat
    BY <1>1
  <1>3. request \in [form : STRING, grain : STRING, standard : STRING, scope : Nat, fork : STRING]
    BY TierAssumption
  <1>4. /\ warm.scope = request.scope /\ warm.form = request.form /\ warm.grain = request.grain
        /\ warm.standard = request.standard /\ warm.fork = "warm"
    BY <1>3
  <1>5. ComputeFigure(warm) = (product * 100 + 500) \div 1000
    BY <1>4 DEF ComputeFigure, ClassifyDelivery
  <1>6. \/ ComputeFigure(request) = (product * 100 + 500) \div 1000
        \/ ComputeFigure(request) = (product * 396 + 500) \div 1000
    BY DEF ComputeFigure
  <1> HIDE DEF product
  <1> QED
    BY <1>2, <1>5, <1>6

LEMMA DecisionIs ==
  ASSUME NEW request, locked \in BOOLEAN, expired \in BOOLEAN
  PROVE  /\ QuoteDecision(request) \in Decisions
         /\ QuoteDecision(request) = "mint" => ~locked
  BY DEF QuoteDecision, IsFormQuotable, Decisions

LEMMA QuoteDecideInv ==
  ASSUME TierInv, NEW q \in QuoteAsks, NEW request \in QuoteRequests, QuoteDecide(q, request)
  PROVE  TierInv'
  <1>1. quoting[q].pc = "idle" /\ UNCHANGED <<markers, tierRows, locked, expired, fleetZero, posting, boots>>
    BY DEF QuoteDecide
  <1> DEFINE decision == QuoteDecision(request)
             frozen == LocksTold # {} /\ Unlocking = {}
             next == [pc |-> IF decision = "mint" THEN "mint" ELSE "refused", request |-> request,
                      reason |-> decision, boot |-> boots, frozen |-> frozen]
  <1>2. decision \in Decisions /\ (decision = "mint" => ~locked)
    BY DecisionIs DEF TierInv, TierTypeOK
  <1>3. frozen \in BOOLEAN /\ (frozen => locked)
    BY DEF TierInv, LockedOK
  <1>4. quoting' = [quoting EXCEPT ![q] = next]
    BY DEF QuoteDecide
  <1> HIDE DEF decision, frozen
  <1>5. next \in QuoteStates
    BY <1>2, <1>3 DEF QuoteStates, TierInv, TierTypeOK
  <1>6. next.pc \in {"mint", "refused"} /\ (next.pc = "mint" => ~next.frozen)
    BY <1>2, <1>3
  <1> HIDE DEF next
  <1>7. /\ quoting'[q] = next /\ \A p \in QuoteAsks : p # q => quoting'[p] = quoting[p]
        /\ quoting' \in [QuoteAsks -> QuoteStates]
    BY <1>4, <1>5 DEF TierInv, TierTypeOK
  <1>8. TierTypeOK'
    BY <1>1, <1>7 DEF TierInv, TierTypeOK
  <1>9. LockedOK'
    BY <1>1 DEF TierInv, LockedOK, LocksTold, Unlocking, RuleChanges
  <1>10. \A p \in QuoteAsks : QuoteOK(p)'
    <2> SUFFICES ASSUME NEW p \in QuoteAsks PROVE QuoteOK(p)'
      OBVIOUS
    <2>1. CASE p # q
      BY <1>1, <1>7, <2>1, QuoteUndisturbed
    <2>2. CASE p = q
      <3>1. \A i \in DOMAIN tierRows : tierRows[i].key # q
        BY <1>1 DEF TierInv, QuoteOK
      <3> QED
        BY <1>1, <1>6, <1>7, <2>2, <3>1 DEF QuoteOK
    <2> QED
      BY <2>1, <2>2
  <1>11. \A h \in LockPosts : PostOK(h)'
    BY <1>1, TablesSame, PostsSame
  <1> QED
    BY <1>1, <1>8, <1>9, <1>10, <1>11, TablesSame DEF TierInv

LEMMA QuoteMintInv ==
  ASSUME TierInv, NEW q \in QuoteAsks, QuoteMint(q)
  PROVE  TierInv'
  <1>1. /\ quoting[q].pc = "mint" /\ UNCHANGED <<markers, locked, expired, fleetZero, posting, boots>>
        /\ quoting' = [quoting EXCEPT ![q].pc = "minted"] /\ quoting[q].request \in QuoteRequests
    BY QuoteIs DEF QuoteMint, TierInv
  <1> DEFINE row == QuoteRow(q)
  <1>2. /\ row \in MintRows /\ row.kind = "minted" /\ row.key = q /\ tierRows' = Append(tierRows, row)
        /\ row.key \notin LockKeys
    <2>1. ComputeFigure(quoting[q].request) \in Nat /\ ClassifyDelivery(quoting[q].request.fork) \in {"warm_qualified", "fresh_extraction"}
      BY <1>1, FigureIsNat DEF ClassifyDelivery
    <2>2. row \in MintRows /\ row.kind = "minted" /\ row.key = q
      BY <2>1 DEF QuoteRow, MintRows
    <2> QED
      BY <2>2, TierAssumption DEF QuoteMint
  <1> HIDE DEF row
  <1> PICK n \in Nat : n = Len(tierRows) + 1
    BY RowsIndexed DEF TierInv
  <1>3. tierRows \in Seq(RuleRows \cup MintRows) /\ row \in RuleRows \cup MintRows
    BY <1>2 DEF TierInv, TierTypeOK
  <1>4. /\ tierRows' \in Seq(RuleRows \cup MintRows) /\ tierRows'[n] = row /\ n \in DOMAIN tierRows'
        /\ \A i \in DOMAIN tierRows : i \in DOMAIN tierRows' /\ tierRows'[i] = tierRows[i] /\ i # n
        /\ \A i \in DOMAIN tierRows' : i = n \/ i \in DOMAIN tierRows
    BY <1>2, <1>3
  <1> DEFINE next == [quoting[q] EXCEPT !.pc = "minted"]
  <1>5. /\ next \in QuoteStates /\ next.pc = "minted" /\ next.request = quoting[q].request
        /\ next.frozen = quoting[q].frozen /\ quoting' = [quoting EXCEPT ![q] = next]
    BY <1>1, QuoteIs DEF QuoteStates, TierInv
  <1> HIDE DEF next
  <1>6. /\ quoting'[q] = next /\ \A p \in QuoteAsks : p # q => quoting'[p] = quoting[p]
        /\ quoting' \in [QuoteAsks -> QuoteStates]
    BY <1>5 DEF TierInv, TierTypeOK
  <1>7. TierTypeOK'
    BY <1>1, <1>4, <1>6 DEF TierInv, TierTypeOK
  <1>8. RuleChanges' = RuleChanges /\ \A key : RuleRowsOf(key)' = RuleRowsOf(key)
    BY <1>2, <1>4 DEF RuleChanges, RuleRowsOf
  <1>9. LockedOK'
    BY <1>1, <1>4, <1>8 DEF TierInv, LockedOK, LocksTold, Unlocking, RuleChanges
  <1>10. \A i \in RuleChanges' : RuleOK(i)'
    <2> SUFFICES ASSUME NEW i \in RuleChanges PROVE RuleOK(i)'
      BY <1>8
    <2>1. RuleOK(i) /\ \A j \in RuleChanges : tierRows'[j] = tierRows[j]
      BY <1>4 DEF TierInv, RuleChanges
    <2> QED
      BY <1>1, <1>8, <2>1 DEF RuleOK
  <1>11. \A key \in LockKeys : FirstRuleOK(key)'
    BY <1>8 DEF TierInv, FirstRuleOK, KeyKnown
  <1>12. \A h \in LockPosts : PostOK(h)'
    BY <1>1, <1>4, <1>8, PostsSame
  <1>13. \A p \in QuoteAsks : QuoteOK(p)'
    <2> SUFFICES ASSUME NEW p \in QuoteAsks PROVE QuoteOK(p)'
      OBVIOUS
    <2>1. CASE p # q
      BY <1>2, <1>4, <1>6, <2>1, QuoteUndisturbed
    <2>2. CASE p = q
      <3>1. QuoteRow(q)' = row
        BY <1>5, <1>6, MintedRow DEF row
      <3>2. ~quoting[q].frozen
        BY <1>1 DEF TierInv, QuoteOK
      <3> QED
        BY <1>4, <1>5, <1>6, <2>2, <3>1, <3>2 DEF QuoteOK
    <2> QED
      BY <2>1, <2>2
  <1> QED
    BY <1>7, <1>9, <1>10, <1>11, <1>12, <1>13 DEF TierInv

LEMMA ExpireInv ==
  ASSUME TierInv, Expire
  PROVE  TierInv'
  <1>1. UNCHANGED <<markers, tierRows, locked, fleetZero, posting, quoting, boots>> /\ expired' \in BOOLEAN
    BY DEF Expire
  <1>2. TierTypeOK' /\ LockedOK'
    BY <1>1 DEF TierInv, TierTypeOK, LockedOK, LocksTold, Unlocking, RuleChanges
  <1>3. \A q \in QuoteAsks : QuoteOK(q)'
    BY <1>1, QuoteUndisturbed
  <1>4. \A h \in LockPosts : PostOK(h)'
    BY <1>1, TablesSame, PostsSame
  <1> QED
    BY <1>1, <1>2, <1>3, <1>4, TablesSame DEF TierInv

LEMMA TierCrashInv ==
  ASSUME TierInv, TierCrash
  PROVE  TierInv'
  <1>1. UNCHANGED <<markers, tierRows, expired, fleetZero>> /\ ~locked' /\ locked' \in BOOLEAN
        /\ boots \in Nat /\ boots' = boots + 1
    BY DEF TierCrash, TierInv, TierTypeOK
  <1>2. \A h \in LockPosts :
          /\ posting'[h] \in PostStates
          /\ posting[h].pc \notin {"write", "record", "insert", "set"} => posting'[h] = posting[h]
          /\ posting[h].pc \in {"write", "record", "insert", "set"} => posting'[h].pc = "lost"
    <2> SUFFICES ASSUME NEW h \in LockPosts
                 PROVE  /\ posting'[h] \in PostStates
                        /\ posting[h].pc \notin {"write", "record", "insert", "set"} => posting'[h] = posting[h]
                        /\ posting[h].pc \in {"write", "record", "insert", "set"} => posting'[h].pc = "lost"
      OBVIOUS
    <2>1. CASE posting[h].pc \notin {"write", "record", "insert", "set"}
      BY <2>1, PostIs DEF TierCrash, TierInv
    <2>2. CASE posting[h].pc \in {"write", "record", "insert", "set"}
      <3>1. posting'[h] = [posting[h] EXCEPT !.pc = "lost"]
        BY <2>2 DEF TierCrash
      <3> QED
        BY <2>2, <3>1, PostIs DEF TierInv, PostStates
    <2> QED
      BY <2>1, <2>2
  <1>3. \A q \in QuoteAsks :
          /\ quoting'[q] \in QuoteStates
          /\ quoting[q].pc # "mint" => quoting'[q] = quoting[q]
          /\ quoting[q].pc = "mint" => quoting'[q].pc = "lost"
    <2> SUFFICES ASSUME NEW q \in QuoteAsks
                 PROVE  /\ quoting'[q] \in QuoteStates
                        /\ quoting[q].pc # "mint" => quoting'[q] = quoting[q]
                        /\ quoting[q].pc = "mint" => quoting'[q].pc = "lost"
      OBVIOUS
    <2>1. quoting[q] \in QuoteStates
      BY DEF TierInv, TierTypeOK
    <2> QED
      BY <2>1, QuoteIs DEF TierCrash, TierInv, QuoteStates
  <1>4. TierTypeOK'
    <2>1. DOMAIN posting' = LockPosts /\ posting' = [h \in LockPosts |-> posting'[h]]
      BY DEF TierCrash
    <2>2. DOMAIN quoting' = QuoteAsks /\ quoting' = [q \in QuoteAsks |-> quoting'[q]]
      BY DEF TierCrash
    <2>3. posting' \in [LockPosts -> PostStates] /\ quoting' \in [QuoteAsks -> QuoteStates]
      BY <1>2, <1>3, <2>1, <2>2
    <2> QED
      BY <1>1, <2>3 DEF TierInv, TierTypeOK
  <1>5. LockedOK'
    <2>1. LocksTold' = {}
      <3> SUFFICES ASSUME NEW h \in LockPosts, posting'[h].pc = "told", posting'[h].boot = boots' PROVE FALSE
        BY DEF LocksTold
      <3>1. posting'[h] = posting[h] /\ posting[h].pc = "told"
        BY <1>2
      <3>2. posting[h].boot <= boots /\ posting[h].boot \in Nat
        BY <3>1, PostIs DEF TierInv, PostOK
      <3> QED
        BY <1>1, <3>1, <3>2
    <2> QED
      BY <1>1, <2>1 DEF LockedOK
  <1>6. RuleChanges' = RuleChanges /\ \A key : KeyKnown(key)' <=> KeyKnown(key)
    BY <1>1, TablesSame
  <1>7. \A h \in LockPosts : ~Filing(h)'
    BY <1>2 DEF Filing
  <1>8. \A h \in LockPosts : PostOK(h)'
    <2> SUFFICES ASSUME NEW h \in LockPosts PROVE PostOK(h)'
      OBVIOUS
    <2>1. CASE posting[h].pc \in {"write", "record", "insert", "set"}
      BY <1>2, <1>7, <2>1 DEF PostOK
    <2>2. CASE posting[h].pc \notin {"write", "record", "insert", "set"}
      <3>1. boots <= boots' /\ boots' \in Nat /\ ~Filing(h)
        BY <1>1, <2>2 DEF Filing
      <3> QED
        BY <1>1, <1>2, <1>6, <2>2, <3>1, PostUndisturbed
    <2> QED
      BY <2>1, <2>2
  <1>9. \A q \in QuoteAsks : QuoteOK(q)'
    <2> SUFFICES ASSUME NEW q \in QuoteAsks PROVE QuoteOK(q)'
      OBVIOUS
    <2>1. CASE quoting[q].pc = "mint"
      BY <1>3, <2>1 DEF QuoteOK
    <2>2. CASE quoting[q].pc # "mint"
      BY <1>1, <1>3, <2>2, QuoteUndisturbed
    <2> QED
      BY <2>1, <2>2
  <1> QED
    BY <1>1, <1>4, <1>5, <1>8, <1>9, TablesSame DEF TierInv

LEMMA TierStep == TierInv /\ [TierNext]_tierVars => TierInv'
  <1> SUFFICES ASSUME TierInv, [TierNext]_tierVars PROVE TierInv'
    OBVIOUS
  <1>1. ASSUME NEW h \in LockPosts, NEW key \in LockKeys, NEW body \in BOOLEAN, PostFind(h, key, body) PROVE TierInv'
    BY <1>1, PostFindInv
  <1>2. ASSUME NEW h \in LockPosts, PostWrite(h) PROVE TierInv'
    BY <1>2, PostWriteInv
  <1>3. ASSUME NEW h \in LockPosts, PostRecord(h) PROVE TierInv'
    BY <1>3, PostRecordInv
  <1>4. ASSUME NEW h \in LockPosts, PostInsert(h) PROVE TierInv'
    BY <1>4, PostInsertInv
  <1>5. ASSUME NEW h \in LockPosts, PostSet(h) PROVE TierInv'
    BY <1>5, PostSetInv
  <1>6. ASSUME NEW q \in QuoteAsks, NEW request \in QuoteRequests, QuoteDecide(q, request) PROVE TierInv'
    BY <1>6, QuoteDecideInv
  <1>7. ASSUME NEW q \in QuoteAsks, QuoteMint(q) PROVE TierInv'
    BY <1>7, QuoteMintInv
  <1>8. CASE Expire
    BY <1>8, ExpireInv
  <1>9. CASE TierCrash
    BY <1>9, TierCrashInv
  <1>10. CASE UNCHANGED tierVars
    <2>1. UNCHANGED <<markers, tierRows, locked, expired, posting, quoting, boots>>
      BY <1>10 DEF tierVars
    <2>2. TierTypeOK' /\ LockedOK'
      BY <2>1 DEF TierInv, TierTypeOK, LockedOK, LocksTold, Unlocking, RuleChanges
    <2>3. \A q \in QuoteAsks : QuoteOK(q)'
      BY <2>1, QuoteUndisturbed
    <2>4. \A h \in LockPosts : PostOK(h)'
      BY <2>1, TablesSame, PostsSame
    <2> QED
      BY <2>1, <2>2, <2>3, <2>4, TablesSame DEF TierInv
  <1> QED
    BY <1>1, <1>2, <1>3, <1>4, <1>5, <1>6, <1>7, <1>8, <1>9, <1>10 DEF TierNext

--------------------------------------------------------------------------------
(* What the rows say of the flag.  Nothing compares the bodies posted under one key: a row *)
(* is some writer's, and a post that takes it for its own says the same or contests the key. *)

Active(h) == posting[h].pc \in {"write", "record", "insert", "set"}
SaysInv ==
  /\ locked => LocksTold # {}
  /\ \A i \in RuleChanges : \E g \in Writers : posting[g].key = tierRows[i].key /\ posting[g].body = tierRows[i].to
  /\ \A h \in LockPosts : /\ posting[h].pc \in {"set", "told"} => RowBacks(h)
                          /\ Active(h) => posting[h].boot = boots

SamePost(g) == posting'[g].key = posting[g].key /\ posting'[g].body = posting[g].body

\* A writer's post keeps its key and its body, and the ledger its rows.
LEMMA WritersStay ==
  ASSUME TierInv, TierNext
  PROVE  /\ \A g \in Writers : g \in Writers' /\ SamePost(g)
         /\ \A i \in DOMAIN tierRows : i \in DOMAIN tierRows' /\ tierRows'[i] = tierRows[i]
  <1> DEFINE Kept == /\ \A g \in Writers : g \in Writers' /\ SamePost(g)
                     /\ \A i \in DOMAIN tierRows : i \in DOMAIN tierRows' /\ tierRows'[i] = tierRows[i]
  <1>0. posting \in [LockPosts -> PostStates] /\ tierRows \in Seq(RuleRows \cup MintRows)
    BY DEF TierInv, TierTypeOK
  <1>1. ASSUME posting' = posting PROVE \A g \in Writers : g \in Writers' /\ SamePost(g)
    BY <1>1 DEF Writers, SamePost
  <1>2. ASSUME NEW h \in LockPosts, \A g \in LockPosts : g # h => posting'[g] = posting[g],
               h \in Writers => posting'[h].pc \notin {"idle", "replayed"} /\ SamePost(h)
        PROVE  \A g \in Writers : g \in Writers' /\ SamePost(g)
    BY <1>2 DEF Writers, SamePost
  <1>3. ASSUME NEW h \in LockPosts, NEW key \in LockKeys, NEW body \in BOOLEAN, PostFind(h, key, body) PROVE Kept
    <2>1. h \notin Writers /\ tierRows' = tierRows /\ \A g \in LockPosts : g # h => posting'[g] = posting[g]
      BY <1>0, <1>3 DEF PostFind, Writers
    <2> QED
      BY <1>2, <2>1
  <1>4. ASSUME NEW h \in LockPosts, PostWrite(h) PROVE Kept
    <2>1. /\ tierRows' = tierRows /\ \A g \in LockPosts : g # h => posting'[g] = posting[g]
          /\ posting'[h].pc = "record" /\ SamePost(h)
      BY <1>0, <1>4 DEF PostWrite, SamePost
    <2> QED
      BY <1>2, <2>1
  <1>5. ASSUME NEW h \in LockPosts, NEW onward \in {"insert", "set", "told"},
               posting[h].pc \in {"record", "insert", "set"}, posting' = [posting EXCEPT ![h].pc = onward]
        PROVE  \A g \in Writers : g \in Writers' /\ SamePost(g)
    <2>1. /\ \A g \in LockPosts : g # h => posting'[g] = posting[g]
          /\ posting'[h].pc = onward /\ SamePost(h)
      BY <1>5, PostGoesOn DEF TierInv, SamePost
    <2> QED
      BY <1>2, <2>1
  <1>6. ASSUME NEW row, tierRows' = Append(tierRows, row), row \in RuleRows \cup MintRows
        PROVE  \A i \in DOMAIN tierRows : i \in DOMAIN tierRows' /\ tierRows'[i] = tierRows[i]
    BY <1>0, <1>6
  <1>7. ASSUME NEW h \in LockPosts, PostRecord(h) PROVE Kept
    <2>1. PICK onward \in {"insert", "set"} : posting' = [posting EXCEPT ![h].pc = onward]
      BY <1>7 DEF PostRecord
    <2> QED
      BY <1>5, <1>7, <2>1 DEF PostRecord
  <1>8. ASSUME NEW h \in LockPosts, PostInsert(h) PROVE Kept
    <2>1. RuleChange(h) \in RuleRows
      <3>1. posting[h].path \in DOMAIN markers
        BY <1>8 DEF PostInsert, TierInv, PostOK
      <3> QED
        BY <1>8, <3>1, PostIs, RowsIndexed DEF PostInsert, TierInv, RuleChange, RuleRows
    <2> QED
      BY <1>5, <1>6, <1>8, <2>1 DEF PostInsert
  <1>9. ASSUME NEW h \in LockPosts, PostSet(h) PROVE Kept
    BY <1>5, <1>9 DEF PostSet
  <1>10. ASSUME NEW q \in QuoteAsks, QuoteMint(q) PROVE Kept
    <2> DEFINE row == QuoteRow(q)
    <2>1. quoting[q].request \in QuoteRequests
      BY <1>10, QuoteIs DEF QuoteMint, TierInv
    <2>2. ComputeFigure(quoting[q].request) \in Nat
      BY <2>1, FigureIsNat
    <2>3. row \in MintRows
      BY <2>2 DEF QuoteRow, MintRows, ClassifyDelivery
    <2>4. tierRows' = Append(tierRows, row) /\ posting' = posting
      BY <1>10 DEF QuoteMint
    <2> HIDE DEF row
    <2> QED
      BY <1>1, <1>6, <2>3, <2>4
  <1>11. ASSUME TierCrash PROVE Kept
    <2>1. \A g \in LockPosts : Active(g) => posting'[g] = [posting[g] EXCEPT !.pc = "lost"]
      BY <1>11 DEF TierCrash, Active
    <2>2. \A g \in LockPosts : ~Active(g) => posting'[g] = posting[g]
      BY <1>11 DEF TierCrash, Active
    <2>3. ASSUME NEW g \in Writers PROVE g \in Writers' /\ SamePost(g)
      <3>1. g \in LockPosts /\ posting[g] \in PostStates /\ posting[g].pc \notin {"idle", "replayed"}
        BY <1>0 DEF Writers
      <3>2. CASE Active(g)
        <4>1. posting'[g].pc = "lost" /\ SamePost(g)
          BY <2>1, <3>1, <3>2 DEF PostStates, SamePost
        <4> QED
          BY <3>1, <4>1 DEF Writers
      <3>3. CASE ~Active(g)
        BY <2>2, <3>1, <3>3 DEF Writers, SamePost
      <3> QED
        BY <3>2, <3>3
    <2> QED
      BY <1>11, <2>3 DEF TierCrash
  <1>12. ASSUME NEW q \in QuoteAsks, NEW request \in QuoteRequests, QuoteDecide(q, request) PROVE Kept
    BY <1>1, <1>12 DEF QuoteDecide
  <1>13. ASSUME Expire PROVE Kept
    BY <1>1, <1>13 DEF Expire
  <1> HIDE DEF Kept
  <1>14. Kept
    BY <1>3, <1>4, <1>7, <1>8, <1>9, <1>10, <1>11, <1>12, <1>13 DEF TierNext
  <1> QED
    BY <1>14 DEF Kept

\* What backs a writer's post goes on backing it.
LEMMA BackingStays ==
  ASSUME TierInv, TierNext, NEW h \in Writers, RowBacks(h)
  PROVE  RowBacks(h)'
  <1>1. /\ \A g \in Writers : g \in Writers' /\ SamePost(g)
        /\ \A i \in DOMAIN tierRows : i \in DOMAIN tierRows' /\ tierRows'[i] = tierRows[i]
    BY WritersStay
  <1> PICK key, body : key = posting[h].key /\ body = posting[h].body
    OBVIOUS
  <1>2. posting'[h].key = key /\ posting'[h].body = body
    BY <1>1 DEF SamePost
  <1>3. Contested(key) => Contested(key)'
    BY <1>1 DEF Contested, SamePost
  <1>4. \A i \in RuleRowsOf(key) : i \in RuleRowsOf(key)' /\ tierRows'[i] = tierRows[i]
    BY <1>1 DEF RuleRowsOf
  <1>5. PICK i \in RuleRowsOf(key) : tierRows[i].to = body \/ Contested(key)
    BY DEF RowBacks
  <1>6. i \in RuleRowsOf(key)' /\ (tierRows'[i].to = body \/ Contested(key)')
    BY <1>3, <1>4, <1>5
  <1>7. RuleRowsOf(key)' = {j \in DOMAIN tierRows' : tierRows'[j].kind = "rule_change" /\ tierRows'[j].key = key}
    BY DEF RuleRowsOf
  <1>8. RuleRowsOf(posting[h].key)' = RuleRowsOf(key)' /\ (Contested(posting[h].key)' <=> Contested(key)')
    BY <1>2 DEF RuleRowsOf, Contested
  <1> QED
    BY <1>2, <1>6, <1>8 DEF RowBacks

\* A post that finds its key on record is backed by the row, or contests the key with its writer.
LEMMA KnownBacks ==
  ASSUME SaysInv, NEW h \in Writers, KeyKnown(posting[h].key)
  PROVE  RowBacks(h)
  <1> PICK i \in RuleRowsOf(posting[h].key) : TRUE
    BY DEF KeyKnown
  <1>1. i \in RuleChanges /\ tierRows[i].key = posting[h].key
    BY DEF RuleRowsOf, RuleChanges
  <1> PICK g \in Writers : posting[g].key = tierRows[i].key /\ posting[g].body = tierRows[i].to
    BY <1>1 DEF SaysInv
  <1> QED
    BY <1>1 DEF RowBacks, Contested

LEMMA SaysStep ==
  ASSUME TierInv, SaysInv, TierNext
  PROVE  SaysInv'
  <1>0. /\ \A g \in Writers : g \in Writers' /\ SamePost(g)
        /\ \A i \in DOMAIN tierRows : i \in DOMAIN tierRows' /\ tierRows'[i] = tierRows[i]
        /\ posting \in [LockPosts -> PostStates] /\ tierRows \in Seq(RuleRows \cup MintRows)
    BY WritersStay DEF TierInv, TierTypeOK
  <1>1. ASSUME NEW i \in RuleChanges'
        PROVE  \E g \in Writers' : posting'[g].key = tierRows'[i].key /\ posting'[g].body = tierRows'[i].to
    <2>1. CASE i \in RuleChanges
      <3> PICK g \in Writers : posting[g].key = tierRows[i].key /\ posting[g].body = tierRows[i].to
        BY <2>1 DEF SaysInv
      <3> QED
        BY <1>0, <2>1 DEF SamePost, RuleChanges
    <2>2. ASSUME NEW h \in LockPosts, PostInsert(h), i \notin RuleChanges
          PROVE  \E g \in Writers' : posting'[g].key = tierRows'[i].key /\ posting'[g].body = tierRows'[i].to
      <3>1. h \in Writers
        BY <2>2 DEF PostInsert, Writers
      <3> DEFINE row == RuleChange(h)
      <3>2. tierRows' = Append(tierRows, row) /\ row.key = posting[h].key /\ row.to = posting[h].body
        BY <2>2 DEF PostInsert, RuleChange
      <3> HIDE DEF row
      <3>3. tierRows'[i] = row
        BY <1>0, <2>2, <3>2 DEF RuleChanges
      <3> QED
        BY <1>0, <3>1, <3>2, <3>3 DEF SamePost
    <2>3. ASSUME NEW q \in QuoteAsks, QuoteMint(q) PROVE i \in RuleChanges
      <3> DEFINE row == QuoteRow(q)
      <3>1. tierRows' = Append(tierRows, row) /\ row.kind = "minted"
        BY <2>3 DEF QuoteMint, QuoteRow
      <3> HIDE DEF row
      <3> QED
        BY <1>0, <3>1 DEF RuleChanges
    <2>4. CASE UNCHANGED tierRows
      BY <2>1, <2>4 DEF RuleChanges
    <2> QED
      BY <2>1, <2>2, <2>3, <2>4
         DEF TierNext, PostFind, PostWrite, PostRecord, PostSet, QuoteDecide, Expire, TierCrash
  <1>2. ASSUME NEW h \in LockPosts, posting'[h].pc \in {"set", "told"} PROVE RowBacks(h)'
    <2>1. CASE posting[h].pc \in {"set", "told"}
      BY <2>1, BackingStays DEF SaysInv, Writers
    <2>2. ASSUME PostRecord(h) PROVE RowBacks(h)'
      <3>1. h \in Writers /\ KeyKnown(posting[h].key)
        <4>1. posting[h].pc = "record" /\ h \in Writers
          BY <2>2 DEF PostRecord, Writers
        <4>2. posting'[h].pc = IF KeyKnown(posting[h].key) THEN "set" ELSE "insert"
          BY <1>0, <2>2 DEF PostRecord
        <4> QED
          BY <1>2, <4>1, <4>2
      <3> QED
        BY <3>1, KnownBacks, BackingStays
    <2>3. ASSUME PostInsert(h) PROVE RowBacks(h)'
      <3> DEFINE row == RuleChange(h)
      <3>1. /\ tierRows' = Append(tierRows, row) /\ row.key = posting[h].key /\ row.to = posting[h].body
            /\ row.kind = "rule_change" /\ h \in Writers
        BY <2>3 DEF PostInsert, RuleChange, Writers
      <3> HIDE DEF row
      <3>2. \E i \in DOMAIN tierRows' : tierRows'[i] = row
        <4>1. Len(tierRows) + 1 \in DOMAIN tierRows' /\ tierRows'[Len(tierRows) + 1] = row
          BY <1>0, <3>1
        <4> QED
          BY <4>1
      <3> QED
        BY <1>0, <3>1, <3>2 DEF RowBacks, RuleRowsOf, SamePost
    <2>4. CASE posting'[h] = posting[h]
      BY <1>2, <2>1, <2>4
    <2>5. ASSUME posting'[h].pc \in {"idle", "replayed", "write", "record", "insert", "lost"} PROVE FALSE
      BY <1>2, <2>5
    <2>6. ASSUME NEW g \in LockPosts, g # h,
                 (\E key \in LockKeys, body \in BOOLEAN : PostFind(g, key, body)) \/ PostWrite(g) \/ PostRecord(g)
                 \/ PostInsert(g) \/ PostSet(g)
          PROVE  posting'[h] = posting[h]
      BY <1>0, <2>6 DEF PostFind, PostWrite, PostRecord, PostInsert, PostSet
    <2>7. ASSUME NEW key \in LockKeys, NEW body \in BOOLEAN, PostFind(h, key, body) PROVE FALSE
      BY <1>0, <1>2, <2>7 DEF PostFind
    <2>8. ASSUME PostWrite(h) PROVE FALSE
      BY <1>0, <1>2, <2>8 DEF PostWrite
    <2>9. ASSUME PostSet(h) PROVE posting[h].pc \in {"set", "told"}
      BY <2>9 DEF PostSet
    <2>10. ASSUME TierCrash PROVE posting'[h] = posting[h] \/ posting'[h].pc = "lost"
      BY <1>0, <2>10 DEF TierCrash, PostStates
    <2>11. ASSUME UNCHANGED posting PROVE posting'[h] = posting[h]
      BY <2>11
    <2> QED
      BY <2>1, <2>2, <2>3, <2>4, <2>5, <2>6, <2>7, <2>8, <2>9, <2>10, <2>11
         DEF TierNext, QuoteDecide, QuoteMint, Expire
  <1>3. ASSUME NEW h \in LockPosts, Active(h)' PROVE posting'[h].boot = boots'
    <2>1. ASSUME NEW g \in LockPosts, NEW key \in LockKeys, NEW body \in BOOLEAN, PostFind(g, key, body)
          PROVE  posting'[h].boot = boots'
      BY <1>0, <1>3, <2>1 DEF PostFind, SaysInv, Active
    <2>2. ASSUME NEW g \in LockPosts, PostWrite(g) PROVE posting'[h].boot = boots'
      BY <1>0, <1>3, <2>2 DEF PostWrite, SaysInv, Active
    <2>3. ASSUME NEW g \in LockPosts, NEW onward \in {"insert", "set", "told"}, UNCHANGED boots,
                 posting[g].pc \in {"record", "insert", "set"}, posting' = [posting EXCEPT ![g].pc = onward]
          PROVE  posting'[h].boot = boots'
      BY <1>3, <2>3, PostGoesOn DEF TierInv, SaysInv, Active
    <2>4. ASSUME NEW g \in LockPosts, PostRecord(g) PROVE posting'[h].boot = boots'
      <3>1. PICK onward \in {"insert", "set"} : posting' = [posting EXCEPT ![g].pc = onward]
        BY <2>4 DEF PostRecord
      <3> QED
        BY <2>3, <2>4, <3>1 DEF PostRecord
    <2>5. ASSUME NEW g \in LockPosts, PostInsert(g) \/ PostSet(g) PROVE posting'[h].boot = boots'
      BY <2>3, <2>5 DEF PostInsert, PostSet
    <2>6. ASSUME TierCrash PROVE FALSE
      <3>1. Active(h) => posting'[h].pc = "lost"
        BY <1>0, <2>6 DEF TierCrash, Active, PostStates
      <3>2. ~Active(h) => posting'[h] = posting[h]
        BY <2>6 DEF TierCrash, Active
      <3> QED
        BY <1>3, <3>1, <3>2 DEF Active
    <2>7. ASSUME UNCHANGED <<posting, boots>> PROVE posting'[h].boot = boots'
      BY <1>3, <2>7 DEF SaysInv, Active
    <2> QED
      BY <2>1, <2>2, <2>4, <2>5, <2>6, <2>7 DEF TierNext, QuoteDecide, QuoteMint, Expire
  <1>4. locked' => LocksTold' # {}
    <2>1. ASSUME UNCHANGED <<locked, boots>>, \A h \in LockPosts : posting[h].pc = "told" => posting'[h] = posting[h]
          PROVE  LocksTold \subseteq LocksTold' /\ locked' = locked
      BY <2>1 DEF LocksTold
    <2>2. ASSUME NEW h \in LockPosts, PostSet(h), locked' PROVE h \in LocksTold'
      <3>1. posting'[h].pc = "told" /\ posting'[h].body = posting[h].body /\ posting'[h].boot = posting[h].boot
        BY <2>2, PostGoesOn DEF PostSet, TierInv
      <3>2. posting[h].boot = boots /\ boots' = boots /\ posting[h].body
        BY <2>2 DEF PostSet, SaysInv, Active
      <3> QED
        BY <3>1, <3>2 DEF LocksTold
    <2>3. ASSUME NEW h \in LockPosts, NEW key \in LockKeys, NEW body \in BOOLEAN, PostFind(h, key, body)
          PROVE  LocksTold \subseteq LocksTold' /\ locked' = locked
      BY <1>0, <2>1, <2>3 DEF PostFind
    <2>4. ASSUME NEW h \in LockPosts, PostWrite(h) \/ PostRecord(h) \/ PostInsert(h)
          PROVE  LocksTold \subseteq LocksTold' /\ locked' = locked
      BY <1>0, <2>1, <2>4 DEF PostWrite, PostRecord, PostInsert
    <2>5. ASSUME UNCHANGED <<locked, boots, posting>> PROVE LocksTold \subseteq LocksTold' /\ locked' = locked
      BY <2>1, <2>5
    <2> QED
      BY <2>2, <2>3, <2>4, <2>5 DEF SaysInv, TierNext, QuoteDecide, QuoteMint, Expire, TierCrash
  <1> QED
    BY <1>1, <1>2, <1>3, <1>4 DEF SaysInv

LEMMA TierInvImplies == TierInv /\ SaysInv => TierLockGoverns
  <1> SUFFICES ASSUME TierInv, SaysInv PROVE TierLockGoverns
    OBVIOUS
  <1>1. /\ locked => LocksTold # {}
        /\ \A h \in LockPosts : posting[h].pc = "told" => RowBacks(h)
    BY DEF SaysInv
  <1>2. \A i \in RuleChanges :
          /\ markers[tierRows[i].path] = [key |-> tierRows[i].key, locked |-> tierRows[i].to]
          /\ \A j \in RuleChanges : i # j => tierRows[i].path # tierRows[j].path
    BY DEF TierInv, RuleOK
  <1>3. \A h \in LockPosts : posting[h].pc \in {"told", "replayed"} =>
          KeyKnown(posting[h].key) /\ markers[posting[h].path].key = posting[h].key
    BY DEF TierInv, PostOK
  <1>4. \A q \in QuoteAsks :
          /\ quoting[q].pc = "minted" => ~quoting[q].frozen /\ \E i \in DOMAIN tierRows : tierRows[i] = QuoteRow(q)
          /\ quoting[q].pc = "refused" => \A i \in DOMAIN tierRows : tierRows[i].key # q
    BY DEF TierInv, QuoteOK
  <1>5. ASSUME NEW p \in QuoteAsks, NEW q \in QuoteAsks, quoting[q].pc = "minted",
               quoting[p].request = [quoting[q].request EXCEPT !.fork = "warm"]
        PROVE  ComputeFigure(quoting[p].request) <= ComputeFigure(quoting[q].request)
    <2>1. quoting[q].request \in QuoteRequests
      BY <1>5, QuoteIs DEF TierInv
    <2> QED
      BY <1>5, <2>1, WarmIsNoDearer
  <1> QED
    BY <1>1, <1>2, <1>3, <1>4, <1>5 DEF TierLockGoverns

\* post_tier_lock, issue_quote: every row names a file of its own; the flag is up only by a lock
\* that was told, with its row unless two posts contested the key; it stays up while that lock
\* stands; a minted quote is on the ledger at its figure.
THEOREM TierLockGovernsHolds == TierSpec => []TierLockGoverns
  <1>1. TierInit => TierInv /\ SaysInv
    BY TierInitInv DEF TierInit, SaysInv, RuleChanges, Active
  <1>2. TierInv /\ SaysInv /\ [TierNext]_tierVars => TierInv' /\ SaysInv'
    <2> SUFFICES ASSUME TierInv, SaysInv, [TierNext]_tierVars PROVE TierInv' /\ SaysInv'
      OBVIOUS
    <2>1. CASE TierNext
      BY <2>1, TierStep, SaysStep
    <2>2. CASE UNCHANGED tierVars
      BY <2>2, TierStep DEF tierVars, SaysInv, RuleChanges, LocksTold, Writers, Active, RowBacks, RuleRowsOf, Contested
    <2> QED
      BY <2>1, <2>2
  <1>3. TierInv /\ SaysInv => TierLockGoverns
    BY TierInvImplies
  <1> QED
    BY <1>1, <1>2, <1>3, PTL DEF TierSpec

--------------------------------------------------------------------------------
(***************************************************************************)
(* The dispatch calls of Service 1, for any number of runs and calls.  The *)
(* invariant relates a warm call to the Registry it will read again:       *)
(* either it has moved since the feasibility read, or that read would      *)
(* still say warm; and a conclusion that is being worded is on the ledger  *)
(* with the class and the rows it will be told with.                       *)
(***************************************************************************)

\* Places and records.
Outcomes ==
  {"none", "auth_scope_insufficient", "form_not_offerable", "grain_form_incompatible", "not_yet_implemented",
   "idempotency_key_missing", "accepted", "standard_below_admission_floor", "license_class_unavailable", "payload",
   "composition_below_floor", "emergent_key_missing", "conclusion"}
RunStates ==
  [pc : {"idle"}]
  \cup [pc : {"refused", "measuring", "planned", "gated", "converged", "lost"}, body : RunBodies, measured : Nat]
OpenCalls ==
  [pc : {"warm", "synthesising", "told"}, number : Nat, ask : Asks, outcome : Outcomes, rows : SUBSET UnitRows,
   fluent : BOOLEAN, fork : {"none", "warm", "fresh"}, moved : BOOLEAN, draft : Drafts \cup {NoDraft}]
CallStates == [pc : {"idle"}, number : Nat] \cup OpenCalls

EstateTypeOK ==
  /\ registry \subseteq UnitRows
  /\ runs \in [Runs -> RunStates]
  /\ call \in CallStates

\* The rows a conclusion is drawn from, and its row of the ledger.
Selected(found) == \A row \in found :
  /\ row.feed \in call.ask.reach.scope \ call.ask.reach.exclusions
  /\ LicenseOf[row.feed] = DefaultClass[call.ask.commissioner]
OnLedger(decision) == \E row \in callRows :
  /\ row.call = call.number /\ row.refs = {unit.ref : unit \in call.rows} /\ row.decision = decision
  /\ \A unit \in call.rows : row.class <= unit.class

WarmOK ==
  call.pc = "warm" =>
    /\ call.rows = {} /\ call.outcome = "none" /\ ~call.fluent
    /\ call.moved \/ Fork(registry, call.ask.reach, call.ask.floor) = "warm"
SynthesisOK ==
  call.pc = "synthesising" =>
    /\ ~call.fluent /\ Selected(call.rows) /\ OnLedger("terminate_success")
    /\ \A row \in call.rows : row.class >= call.ask.floor

EstateInv == EstateTypeOK /\ WarmOK /\ SynthesisOK /\ WarmAnswersHold

--------------------------------------------------------------------------------
(* Shapes, and the rules of the grammar.                                       *)

LEMMA MinOfClasses ==
  ASSUME NEW S \in SUBSET Classes, S # {}
  PROVE  Min(S) \in S /\ \A class \in S : Min(S) <= class
  <1>1. \E x \in S : \A y \in S : x <= y
    <2>1. CASE 0 \in S
      BY <2>1 DEF Classes
    <2>2. CASE 0 \notin S /\ 1 \in S
      BY <2>2 DEF Classes
    <2>3. CASE 0 \notin S /\ 1 \notin S
      <3>1. ASSUME NEW y \in S PROVE y = 2
        <4>1. y \in 0..2 /\ y # 0 /\ y # 1
          BY <2>3 DEF Classes
        <4> QED
          BY <4>1
      <3> QED
        BY <3>1
    <2> QED
      BY <2>1, <2>2, <2>3
  <1> QED
    BY <1>1 DEF Min

\* A standard that the feasibility read found has a row at packaging, when the Registry is the same.
LEMMA WarmHasRows ==
  ASSUME NEW found, NEW reach, NEW floor, Fork(found, reach, floor) = "warm"
  PROVE  StandardHardFilter(ReachRows(found, reach), floor) # {}
  <1>1. PICK class \in Classes : class >= floor /\ ClassCount(Qualifying(found, reach))[class] > 0
    BY DEF Fork, Feasible
  <1> DEFINE ofClass == {row \in Qualifying(found, reach) : row.class = class}
  <1>2. Cardinality(ofClass) > 0
    BY <1>1 DEF ClassCount
  <1>3. Cardinality({}) = 0
    BY FS_EmptySet
  <1>4. ofClass # {}
    BY <1>2, <1>3
  <1>5. PICK row \in Qualifying(found, reach) : row.class = class
    BY <1>4
  <1> QED
    BY <1>1, <1>5 DEF Qualifying, RowMatchesReach, ReachRows, StandardHardFilter

LEMMA UpfrontIs ==
  ASSUME NEW ask
  PROVE  Upfront(ask) \in {"auth_scope_insufficient", "form_not_offerable", "grain_form_incompatible",
                           "not_yet_implemented", "read"}
  BY DEF Upfront

LEMMA CallIs ==
  ASSUME EstateTypeOK
  PROVE  /\ call.pc # "idle" => call \in OpenCalls
         /\ call.number \in Nat
         /\ call.pc = "idle" => call \in [pc : {"idle"}, number : Nat]
  BY DEF EstateTypeOK, CallStates, OpenCalls

\* What an answer is, made of the call in flight.
LEMMA ToldIs ==
  ASSUME EstateTypeOK, call.pc # "idle", NEW outcome \in Outcomes, NEW found \in SUBSET UnitRows, NEW fluent \in BOOLEAN
  PROVE  /\ Told(outcome, found, fluent) \in OpenCalls
         /\ Told(outcome, found, fluent).pc = "told" /\ Told(outcome, found, fluent).number = call.number
         /\ Told(outcome, found, fluent).ask = call.ask /\ Told(outcome, found, fluent).outcome = outcome
         /\ Told(outcome, found, fluent).rows = found /\ Told(outcome, found, fluent).fluent = fluent
         /\ Told(outcome, found, fluent).moved = call.moved
  <1>1. call \in OpenCalls
    BY CallIs
  <1> QED
    BY <1>1 DEF Told, OpenCalls

--------------------------------------------------------------------------------
(* The steps.                                                                  *)

\* Runs and the console move, and the call and what it reads stay.
LEMMA CallUndisturbed ==
  ASSUME EstateInv, UNCHANGED <<registry, call, callRows>>, runs' \in [Runs -> RunStates]
  PROVE  EstateInv'
  <1>1. EstateTypeOK'
    BY DEF EstateInv, EstateTypeOK
  <1>2. WarmOK'
    BY DEF EstateInv, WarmOK
  <1>3. SynthesisOK'
    BY DEF EstateInv, SynthesisOK, Selected, OnLedger
  <1>4. WarmAnswersHold'
    BY DEF EstateInv, WarmAnswersHold
  <1> QED
    BY <1>1, <1>2, <1>3, <1>4 DEF EstateInv

\* A call is answered.
LEMMA AnswerKeeps ==
  ASSUME EstateInv, UNCHANGED <<registry, runs>>, call' \in OpenCalls, call'.pc = "told", WarmAnswersHold'
  PROVE  EstateInv'
  <1>1. EstateTypeOK'
    BY DEF EstateInv, EstateTypeOK, CallStates
  <1>2. WarmOK' /\ SynthesisOK'
    BY DEF WarmOK, SynthesisOK
  <1> QED
    BY <1>1, <1>2 DEF EstateInv

LEMMA EstateInitInv == EstateInit => EstateInv
  <1> SUFFICES ASSUME EstateInit PROVE EstateInv
    OBVIOUS
  <1>1. registry \subseteq UnitRows
    BY EstateAssumption DEF EstateInit
  <1>2. NotStarted \in RunStates /\ runs = [r \in Runs |-> NotStarted]
    BY DEF EstateInit, NotStarted, RunStates
  <1>3. call.pc = "idle" /\ call \in CallStates
    BY DEF EstateInit, CallStates
  <1> QED
    BY <1>1, <1>2, <1>3 DEF EstateInv, EstateTypeOK, WarmOK, SynthesisOK, WarmAnswersHold

LEMMA RunEnds ==
  ASSUME EstateInv, NEW r \in Runs, runs[r].pc # "idle",
         NEW pc \in {"refused", "measuring", "planned", "gated", "converged", "lost"}, Ends(r, pc)
  PROVE  runs' \in [Runs -> RunStates]
  <1>1. runs \in [Runs -> RunStates]
    BY DEF EstateInv, EstateTypeOK
  <1>2. [runs[r] EXCEPT !.pc = pc] \in RunStates
    BY <1>1 DEF RunStates
  <1> QED
    BY <1>1, <1>2 DEF Ends

LEMMA RunStartsInv ==
  ASSUME EstateInv, NEW r \in Runs, NEW body \in RunBodies, RunRefuseBasis(r, body) \/ RunAdmit(r, body)
  PROVE  EstateInv'
  <1>1. runs \in [Runs -> RunStates]
    BY DEF EstateInv, EstateTypeOK
  <1>2. /\ [pc |-> "refused", body |-> body, measured |-> 0] \in RunStates
        /\ [pc |-> "measuring", body |-> body, measured |-> 0] \in RunStates
    BY DEF RunStates
  <1>3. runs' \in [Runs -> RunStates]
    BY <1>1, <1>2 DEF RunRefuseBasis, RunAdmit
  <1> QED
    BY <1>3, CallUndisturbed DEF RunRefuseBasis, RunAdmit

\* The Registry moves under a warm call, which takes note of it.
LEMMA RunMeasureInv ==
  ASSUME EstateInv, NEW r \in Runs, RunMeasure(r)
  PROVE  EstateInv'
  <1>1. /\ runs \in [Runs -> RunStates] /\ runs[r].pc = "measuring" /\ runs[r].measured < Len(runs[r].body.units)
        /\ registry \subseteq UnitRows
    BY DEF EstateInv, EstateTypeOK, RunMeasure
  <1>2. /\ runs[r].body \in RunBodies /\ runs[r].measured \in Nat
        /\ runs[r] \in [pc : {"refused", "measuring", "planned", "gated", "converged", "lost"}, body : RunBodies,
                        measured : Nat]
    BY <1>1 DEF RunStates
  <1>3. runs' \in [Runs -> RunStates]
    <2>1. [runs[r] EXCEPT !.measured = @ + 1] \in RunStates
      BY <1>2 DEF RunStates
    <2> QED
      BY <1>1, <2>1 DEF RunMeasure
  <1>4. registry' \subseteq UnitRows
    <2> PICK units : units = runs[r].body.units
      OBVIOUS
    <2> PICK n \in Nat : n = runs[r].measured
      BY <1>2
    <2>1. units \in Seq(UnitRows) /\ n + 1 \in 1..Len(units)
      BY <1>1, <1>2, EstateAssumption
    <2>2. units[n + 1] \in UnitRows
      BY <2>1
    <2> QED
      BY <1>1, <2>2 DEF RunMeasure, Upserted
  <1>5. CASE call.pc # "warm"
    <2>1. UNCHANGED <<call, callRows>>
      BY <1>5 DEF RunMeasure
    <2>2. EstateTypeOK'
      BY <1>3, <1>4, <2>1 DEF EstateInv, EstateTypeOK
    <2>3. WarmOK'
      BY <1>5, <2>1 DEF WarmOK
    <2>4. SynthesisOK' /\ WarmAnswersHold'
      BY <2>1 DEF EstateInv, SynthesisOK, Selected, OnLedger, WarmAnswersHold
    <2> QED
      BY <2>2, <2>3, <2>4 DEF EstateInv
  <1>6. CASE call.pc = "warm"
    <2> PICK moved \in BOOLEAN : moved <=> (call.moved \/ registry' # registry)
      OBVIOUS
    <2>1. call \in OpenCalls /\ call.moved \in BOOLEAN
      BY <1>6, CallIs DEF EstateInv, OpenCalls
    <2>2. call' = [call EXCEPT !.moved = moved]
      BY <1>6, <2>1 DEF RunMeasure
    <2>3. /\ call' \in OpenCalls /\ call'.pc = "warm" /\ call'.rows = call.rows /\ call'.outcome = call.outcome
          /\ call'.fluent = call.fluent /\ call'.ask = call.ask /\ call'.moved = moved
      BY <1>6, <2>1, <2>2 DEF OpenCalls
    <2>4. EstateTypeOK'
      BY <1>3, <1>4, <2>3 DEF EstateTypeOK, CallStates
    <2>5. WarmOK'
      BY <1>6, <2>3 DEF EstateInv, WarmOK
    <2>6. SynthesisOK' /\ WarmAnswersHold'
      BY <2>3 DEF SynthesisOK, WarmAnswersHold
    <2> QED
      BY <2>4, <2>5, <2>6 DEF EstateInv
  <1> QED
    BY <1>5, <1>6

LEMMA RunMovesInv ==
  ASSUME EstateInv, NEW r \in Runs, RunRefuseFloor(r) \/ RunPlan(r) \/ RunGate(r) \/ RunConverge(r)
  PROVE  EstateInv'
  <1>1. runs' \in [Runs -> RunStates]
    BY RunEnds DEF RunRefuseFloor, RunPlan, RunGate, RunConverge, Measured
  <1> QED
    BY <1>1, CallUndisturbed DEF RunRefuseFloor, RunPlan, RunGate, RunConverge

LEMMA DispatchInv ==
  ASSUME EstateInv, NEW ask \in Asks, Dispatch(ask)
  PROVE  EstateInv'
  <1>1. UNCHANGED <<registry, runs, callRows>> /\ call.number \in Nat
    BY CallIs DEF Dispatch, EstateInv
  <1>2. PICK pc \in {"told", "warm"}, outcome \in Outcomes, fork \in {"none", "warm", "fresh"} :
          /\ call' = Called(ask, pc, outcome, fork)
          /\ pc = "warm" => Fork(registry, ask.reach, ask.floor) = "warm" /\ outcome = "none"
          /\ outcome \notin {"standard_below_admission_floor", "conclusion", "composition_below_floor"}
    <2>1. CASE Upfront(ask) # "read"
      <3>1. /\ Upfront(ask) \in Outcomes
            /\ Upfront(ask) \notin {"standard_below_admission_floor", "conclusion", "composition_below_floor"}
        BY <2>1, UpfrontIs DEF Outcomes
      <3>2. call' = Called(ask, "told", Upfront(ask), "none")
        BY <2>1 DEF Dispatch
      <3> QED
        BY <3>1, <3>2
    <2>2. CASE Upfront(ask) = "read" /\ Fork(registry, ask.reach, ask.floor) = "warm"
      <3>1. call' = Called(ask, "warm", "none", "warm")
        BY <2>2 DEF Dispatch
      <3> QED
        BY <2>2, <3>1 DEF Outcomes
    <2>3. CASE Upfront(ask) = "read" /\ Fork(registry, ask.reach, ask.floor) # "warm"
      <3>1. Fork(registry, ask.reach, ask.floor) = "fresh"
        BY <2>3 DEF Fork
      <3>2. \/ call' = Called(ask, "told", "idempotency_key_missing", "fresh")
            \/ call' = Called(ask, "told", "accepted", "fresh")
        BY <2>3, <3>1 DEF Dispatch
      <3> QED
        BY <3>2 DEF Outcomes
    <2> QED
      BY <2>1, <2>2, <2>3
  <1>3. /\ call' \in OpenCalls /\ call'.pc = pc /\ call'.ask = ask /\ call'.outcome = outcome /\ call'.rows = {}
        /\ call'.fluent = FALSE
    BY <1>1, <1>2 DEF Called, OpenCalls
  <1>4. EstateTypeOK'
    BY <1>1, <1>3 DEF EstateInv, EstateTypeOK, CallStates
  <1>5. WarmOK'
    BY <1>1, <1>2, <1>3 DEF WarmOK
  <1>6. SynthesisOK' /\ WarmAnswersHold'
    BY <1>2, <1>3 DEF SynthesisOK, WarmAnswersHold
  <1> QED
    BY <1>4, <1>5, <1>6 DEF EstateInv

LEMMA PackageQualifiedInv ==
  ASSUME EstateInv, PackageQualified
  PROVE  EstateInv'
  <1>1. /\ call.pc = "warm" /\ UNCHANGED <<registry, runs, callRows>> /\ registry \subseteq UnitRows /\ EstateTypeOK
        /\ call \in OpenCalls
    BY CallIs DEF PackageQualified, EstateInv, EstateTypeOK
  <1> DEFINE standard == StandardHardFilter(ReachRows(registry, call.ask.reach), call.ask.floor)
             licensed == SelectByClass(standard, call.ask.commissioner)
  <1>2. \A row \in licensed :
          /\ row \in UnitRows /\ row.class >= call.ask.floor
          /\ row.feed \in call.ask.reach.scope \ call.ask.reach.exclusions
          /\ LicenseOf[row.feed] = DefaultClass[call.ask.commissioner]
    BY <1>1 DEF SelectByClass, StandardHardFilter, ReachRows
  <1>3. PICK outcome \in Outcomes, found \in SUBSET UnitRows :
          /\ call' = Told(outcome, found, FALSE)
          /\ found = {} \/ found = licensed
          /\ outcome \in {"standard_below_admission_floor", "license_class_unavailable", "payload"}
          /\ outcome = "standard_below_admission_floor" => standard = {}
    <2>1. CASE standard = {} /\ Answers("standard_below_admission_floor", {})
      BY <2>1 DEF Answers, Outcomes
    <2>2. CASE Answers("license_class_unavailable", {})
      <3>1. call' = Told("license_class_unavailable", {}, FALSE)
        BY <2>2 DEF Answers
      <3>2. "license_class_unavailable" \in Outcomes /\ {} \in SUBSET UnitRows
        BY DEF Outcomes
      <3> HIDE DEF licensed, standard
      <3> QED
        BY <3>1, <3>2
    <2>3. CASE Answers("payload", licensed)
      <3>1. licensed \in SUBSET UnitRows
        BY <1>2
      <3> HIDE DEF licensed
      <3> QED
        BY <2>3, <3>1 DEF Answers, Outcomes
    <2> QED
      BY <2>1, <2>2, <2>3 DEF PackageQualified
  <1>4. /\ call' \in OpenCalls /\ call'.pc = "told" /\ call'.ask = call.ask /\ call'.outcome = outcome
        /\ call'.rows = found /\ call'.fluent = FALSE /\ call'.moved = call.moved
    BY <1>1, <1>3, ToldIs
  <1>5. outcome = "standard_below_admission_floor" => call.moved
    BY <1>1, <1>3, WarmHasRows DEF EstateInv, WarmOK
  <1>6. WarmAnswersHold'
    <2>1. \A row \in found :
          /\ row.class >= call.ask.floor
          /\ row.feed \in call.ask.reach.scope \ call.ask.reach.exclusions
          /\ LicenseOf[row.feed] = DefaultClass[call.ask.commissioner]
      BY <1>2, <1>3
    <2> QED
      BY <1>3, <1>4, <1>5, <2>1 DEF WarmAnswersHold
  <1> QED
    BY <1>1, <1>4, <1>6, AnswerKeeps

LEMMA PackageComposedInv ==
  ASSUME EstateInv, PackageComposed
  PROVE  EstateInv'
  <1>1. /\ call.pc = "warm" /\ UNCHANGED <<registry, runs>> /\ registry \subseteq UnitRows /\ EstateTypeOK
        /\ call \in OpenCalls /\ ~call.fluent
    BY CallIs DEF PackageComposed, EstateInv, EstateTypeOK, WarmOK
  <1> PICK licensed : licensed = SelectByClass(ReachRows(registry, call.ask.reach), call.ask.commissioner)
    OBVIOUS
  <1>2. /\ licensed \in SUBSET UnitRows
        /\ \A row \in licensed : /\ row.feed \in call.ask.reach.scope \ call.ask.reach.exclusions
                                 /\ LicenseOf[row.feed] = DefaultClass[call.ask.commissioner]
    BY <1>1 DEF SelectByClass, ReachRows
  <1>3. CASE licensed = {}
    <2>1. call' = Told("license_class_unavailable", {}, FALSE) /\ "license_class_unavailable" \in Outcomes
      BY <1>3 DEF PackageComposed, Answers, Outcomes
    <2>2. /\ call' \in OpenCalls /\ call'.pc = "told" /\ call'.outcome = "license_class_unavailable"
          /\ call'.rows = {} /\ call'.fluent = FALSE
      <3>1. {} \in SUBSET UnitRows /\ FALSE \in BOOLEAN
        OBVIOUS
      <3> QED
        BY <1>1, <2>1, <3>1, ToldIs
    <2>3. WarmAnswersHold'
      BY <2>2 DEF WarmAnswersHold
    <2> QED
      BY <1>1, <2>2, <2>3, AnswerKeeps
  <1>4. ASSUME licensed # {}
        PROVE  \A row \in licensed : /\ ConclusionClass(licensed) <= row.class
                                     /\ ConclusionClass(licensed) \in Nat /\ row.class \in Nat
    <2>1. {row.class : row \in licensed} \in SUBSET Classes /\ {row.class : row \in licensed} # {}
      BY <1>2, <1>4 DEF UnitRows
    <2>2. /\ Min({row.class : row \in licensed}) \in Classes
          /\ \A class \in {row.class : row \in licensed} : Min({row.class : row \in licensed}) <= class
      BY <2>1, MinOfClasses
    <2> QED
      BY <1>2, <2>2 DEF ConclusionClass, UnitRows, Classes
  <1>5. ASSUME NEW decision, licensed # {}, callRows' = callRows \cup {CallRow(decision, licensed)},
               call'.number = call.number, call'.rows = licensed
        PROVE  OnLedger(decision)'
    <2> DEFINE row == CallRow(decision, licensed)
    <2>1. /\ row \in callRows' /\ row.call = call'.number /\ row.refs = {unit.ref : unit \in call'.rows}
          /\ row.decision = decision /\ row.class = ConclusionClass(licensed)
      BY <1>5 DEF CallRow
    <2>2. \A unit \in call'.rows : row.class <= unit.class
      BY <1>4, <1>5, <2>1
    <2> QED
      BY <2>1, <2>2 DEF OnLedger
  <1>6. CASE licensed # {} /\ ConclusionClass(licensed) < call.ask.floor
    <2>1. /\ call' = Told("composition_below_floor", licensed, FALSE) /\ "composition_below_floor" \in Outcomes
          /\ callRows' = callRows \cup {CallRow("refused", licensed)}
      <3>1. ~(ConclusionClass(licensed) >= call.ask.floor)
        <4>1. ConclusionClass(licensed) \in Nat /\ call.ask.floor \in Nat
          BY <1>1, <1>4, <1>6, EstateAssumption DEF OpenCalls, Classes
        <4> QED
          BY <1>6, <4>1
      <3> QED
        BY <1>6, <3>1 DEF PackageComposed, Answers, Outcomes
    <2>2. /\ call' \in OpenCalls /\ call'.pc = "told" /\ call'.outcome = "composition_below_floor"
          /\ call'.rows = licensed /\ call'.fluent = FALSE /\ call'.ask = call.ask /\ call'.number = call.number
      <3>1. /\ EstateTypeOK /\ call.pc # "idle" /\ licensed \in SUBSET UnitRows /\ FALSE \in BOOLEAN
            /\ "composition_below_floor" \in Outcomes
        BY <1>1, <1>2, <2>1
      <3> PICK answer : answer = Told("composition_below_floor", licensed, FALSE)
        OBVIOUS
      <3>2. /\ answer \in OpenCalls /\ answer.pc = "told" /\ answer.outcome = "composition_below_floor"
            /\ answer.rows = licensed /\ answer.fluent = FALSE /\ answer.ask = call.ask
            /\ answer.number = call.number
        BY <3>1, ToldIs
      <3>3. call' = answer
        BY <2>1
      <3> QED
        BY <3>2, <3>3
    <2>3. OnLedger("refused")'
      BY <1>5, <1>6, <2>1, <2>2
    <2>4. WarmAnswersHold'
      BY <1>2, <2>2, <2>3 DEF WarmAnswersHold, OnLedger
    <2> QED
      BY <1>1, <2>2, <2>4, AnswerKeeps
  <1>7. CASE licensed # {} /\ ~(ConclusionClass(licensed) < call.ask.floor)
    <2>1. /\ ConclusionClass(licensed) >= call.ask.floor
          /\ call' = [call EXCEPT !.pc = "synthesising", !.rows = licensed]
          /\ callRows' = callRows \cup {CallRow("terminate_success", licensed)}
      BY <1>7 DEF PackageComposed
    <2>2. /\ call' \in OpenCalls /\ call'.pc = "synthesising" /\ call'.rows = licensed /\ ~call'.fluent
          /\ call'.ask = call.ask /\ call'.number = call.number
      BY <1>1, <1>2, <2>1 DEF OpenCalls
    <2>3. OnLedger("terminate_success")'
      BY <1>5, <1>7, <2>1, <2>2
    <2>4. \A row \in licensed : row.class >= call.ask.floor
      <3>1. call.ask.floor \in Nat
        BY <1>1, EstateAssumption DEF OpenCalls, Classes
      <3> QED
        BY <1>4, <1>7, <2>1, <3>1
    <2>5. SynthesisOK'
      BY <1>2, <2>2, <2>3, <2>4 DEF SynthesisOK, Selected
    <2>6. EstateTypeOK' /\ WarmOK' /\ WarmAnswersHold'
      BY <1>1, <2>2 DEF EstateTypeOK, CallStates, WarmOK, WarmAnswersHold
    <2> QED
      BY <2>5, <2>6 DEF EstateInv
  <1> QED
    BY <1>3, <1>6, <1>7

LEMMA SynthesiseInv ==
  ASSUME EstateInv,
         \/ SynthesiseKeyMissing \/ SynthesiseMechanical
         \/ \E draft \in Drafts : SynthesiseFluent(draft)
  PROVE  EstateInv'
  <1>1. /\ call.pc = "synthesising" /\ UNCHANGED <<registry, runs, callRows>> /\ call \in OpenCalls /\ EstateTypeOK
        /\ call.rows \in SUBSET UnitRows
    BY CallIs DEF EstateInv, SynthesiseKeyMissing, SynthesiseMechanical, SynthesiseFluent, OpenCalls
  <1>2. /\ Selected(call.rows) /\ OnLedger("terminate_success") /\ \A row \in call.rows : row.class >= call.ask.floor
    BY <1>1 DEF EstateInv, SynthesisOK
  <1>3. ASSUME NEW outcome \in {"emergent_key_missing", "conclusion"}, Answers(outcome, call.rows)
        PROVE  EstateInv'
    <2>1. outcome \in Outcomes /\ call' = Told(outcome, call.rows, FALSE)
      BY <1>3 DEF Outcomes, Answers
    <2>2. /\ call' \in OpenCalls /\ call'.pc = "told" /\ call'.outcome = outcome /\ call'.rows = call.rows
          /\ call'.fluent = FALSE /\ call'.ask = call.ask /\ call'.number = call.number
      <3>1. EstateTypeOK /\ call.pc # "idle" /\ call.rows \in SUBSET UnitRows /\ outcome \in Outcomes
        BY <1>1, <2>1
      <3> PICK answer : answer = Told(outcome, call.rows, FALSE)
        OBVIOUS
      <3>2. /\ answer \in OpenCalls /\ answer.pc = "told" /\ answer.outcome = outcome /\ answer.rows = call.rows
            /\ answer.fluent = FALSE /\ answer.ask = call.ask /\ answer.number = call.number
        BY <3>1, ToldIs
      <3>3. call' = answer
        BY <2>1
      <3> QED
        BY <3>2, <3>3
    <2>3. WarmAnswersHold'
      BY <1>1, <1>2, <2>2 DEF WarmAnswersHold, Selected, OnLedger
    <2> QED
      BY <1>1, <2>2, <2>3, AnswerKeeps
  <1>4. ASSUME NEW draft \in Drafts, SynthesiseFluent(draft)
        PROVE  EstateInv'
    <2> PICK answer : answer = Told("conclusion", call.rows, TRUE)
      OBVIOUS
    <2>1. /\ answer \in OpenCalls /\ answer.pc = "told" /\ answer.outcome = "conclusion" /\ answer.rows = call.rows
          /\ answer.fluent = TRUE /\ answer.ask = call.ask /\ answer.number = call.number
      <3>1. "conclusion" \in Outcomes
        BY DEF Outcomes
      <3> QED
        BY <1>1, <3>1, ToldIs
    <2>2. call' = [answer EXCEPT !.draft = draft] /\ GroundingPasses(draft, {row.ref : row \in call.rows})
      BY <1>4 DEF SynthesiseFluent
    <2>3. /\ call' \in OpenCalls /\ call'.pc = "told" /\ call'.outcome = "conclusion" /\ call'.rows = call.rows
          /\ call'.ask = call.ask /\ call'.number = call.number /\ call'.draft = draft
      BY <2>1, <2>2 DEF OpenCalls
    <2>4. \A i \in DOMAIN draft.prose :
            /\ draft.prose[i] \notin Numbered
            /\ \E j \in DOMAIN draft.anchors :
                 /\ draft.anchors[j].sentence = draft.prose[i]
                 /\ draft.anchors[j].units \cap {unit.ref : unit \in call.rows} # {}
      <3> SUFFICES ASSUME NEW i \in DOMAIN draft.prose
                   PROVE  /\ draft.prose[i] \notin Numbered
                          /\ \E j \in DOMAIN draft.anchors :
                               /\ draft.anchors[j].sentence = draft.prose[i]
                               /\ draft.anchors[j].units \cap {unit.ref : unit \in call.rows} # {}
        OBVIOUS
      <3>1. PICK j \in DOMAIN draft.anchors : draft.anchors[j].sentence = draft.prose[i]
        BY <2>2 DEF GroundingPasses
      <3>2. /\ draft.anchors[j].units \subseteq {row.ref : row \in call.rows} /\ draft.anchors[j].units # {}
            /\ draft.anchors[j].sentence \notin Numbered
        BY <2>2 DEF GroundingPasses
      <3> QED
        BY <3>1, <3>2
    <2>5. WarmAnswersHold'
      BY <1>1, <1>2, <2>3, <2>4 DEF WarmAnswersHold, Selected, OnLedger
    <2> QED
      BY <1>1, <2>3, <2>5, AnswerKeeps
  <1>5. CASE SynthesiseKeyMissing
    BY <1>3, <1>5 DEF SynthesiseKeyMissing
  <1>6. CASE SynthesiseMechanical
    BY <1>3, <1>6 DEF SynthesiseMechanical
  <1> QED
    BY <1>4, <1>5, <1>6

LEMMA EstateCrashInv ==
  ASSUME EstateInv, EstateCrash
  PROVE  EstateInv'
  <1>1. /\ runs \in [Runs -> RunStates] /\ registry' = registry /\ callRows' = callRows /\ call.number \in Nat
    BY CallIs DEF EstateInv, EstateTypeOK, EstateCrash
  <1>2. runs' \in [Runs -> RunStates]
    <2>1. \A r \in Runs : InFlight(r) => [runs[r] EXCEPT !.pc = "lost"] \in RunStates
      <3> SUFFICES ASSUME NEW r \in Runs, InFlight(r) PROVE [runs[r] EXCEPT !.pc = "lost"] \in RunStates
        OBVIOUS
      <3>1. runs[r] \in RunStates /\ runs[r].pc # "idle"
        BY <1>1 DEF InFlight
      <3> QED
        BY <3>1 DEF RunStates
    <2> QED
      BY <1>1, <2>1 DEF EstateCrash
  <1>3. CASE call.pc \in {"warm", "synthesising"}
    <2>1. call' = [pc |-> "idle", number |-> call.number]
      BY <1>3 DEF EstateCrash
    <2>2. call' \in CallStates /\ call'.pc = "idle"
      BY <1>1, <2>1 DEF CallStates
    <2> QED
      BY <1>1, <1>2, <2>2 DEF EstateInv, EstateTypeOK, WarmOK, SynthesisOK, WarmAnswersHold
  <1>4. CASE call.pc \notin {"warm", "synthesising"}
    <2>1. call' = call
      BY <1>4 DEF EstateCrash
    <2> QED
      BY <1>1, <1>2, <2>1, CallUndisturbed
  <1> QED
    BY <1>3, <1>4

LEMMA EstateStep == EstateInv /\ [EstateNext]_estateVars => EstateInv'
  <1> SUFFICES ASSUME EstateInv, [EstateNext]_estateVars PROVE EstateInv'
    OBVIOUS
  <1>1. ASSUME NEW r \in Runs, NEW body \in RunBodies, RunRefuseBasis(r, body) \/ RunAdmit(r, body) PROVE EstateInv'
    BY <1>1, RunStartsInv
  <1>2. ASSUME NEW r \in Runs, RunMeasure(r) PROVE EstateInv'
    BY <1>2, RunMeasureInv
  <1>3. ASSUME NEW r \in Runs, RunRefuseFloor(r) \/ RunPlan(r) \/ RunGate(r) \/ RunConverge(r) PROVE EstateInv'
    BY <1>3, RunMovesInv
  <1>4. ASSUME NEW ask \in Asks, Dispatch(ask) PROVE EstateInv'
    BY <1>4, DispatchInv
  <1>5. CASE PackageQualified
    BY <1>5, PackageQualifiedInv
  <1>6. CASE PackageComposed
    BY <1>6, PackageComposedInv
  <1>7. CASE \/ SynthesiseKeyMissing \/ SynthesiseMechanical
             \/ \E draft \in Drafts : SynthesiseFluent(draft)
    BY <1>7, SynthesiseInv
  <1>8. CASE LensAdmits \/ LensTerminated \/ UNCHANGED estateVars
    <2>1. UNCHANGED <<registry, runs, call, callRows>>
      BY <1>8 DEF LensAdmits, LensTerminated, estateVars
    <2>2. runs' \in [Runs -> RunStates]
      BY <2>1 DEF EstateInv, EstateTypeOK
    <2> QED
      BY <2>1, <2>2, CallUndisturbed
  <1>9. CASE EstateCrash
    BY <1>9, EstateCrashInv
  <1> QED
    BY <1>1, <1>2, <1>3, <1>4, <1>5, <1>6, <1>7, <1>8, <1>9 DEF EstateNext

\* dispatch, package_qualified_data, package_composed_conclusion: what a warm answer tells is in
\* reach, at the standard and licensed, and a conclusion is on the ledger, although runs move
\* the Registry between the two reads.
THEOREM WarmAnswersHoldAlways == EstateSpec => []WarmAnswersHold
  <1>1. EstateInit => EstateInv
    BY EstateInitInv
  <1>2. EstateInv /\ [EstateNext]_estateVars => EstateInv'
    BY EstateStep
  <1>3. EstateInv => WarmAnswersHold
    BY DEF EstateInv
  <1> QED
    BY <1>1, <1>2, <1>3, PTL DEF EstateSpec

--------------------------------------------------------------------------------
(***************************************************************************)
(* Service 1, the runs (service.py, targeta/core.py, plan.py).  The        *)
(* invariant holds the ledger against the stores at every place a run can  *)
(* stop: its rows so far, the units measured so far, and each stored plan  *)
(* against some run whose identifier it has.  Two runs of one identifier   *)
(* rank the same sources in one order, so whoever wrote last wrote that    *)
(* order, under feeds that it ranked the sources with.                     *)
(***************************************************************************)

\* What the ranking compares is numbers: relevance, class, source, position.
RankOf(records, scope, i) == <<Relevance(records[i], scope), records[i].class, records[i].ref, i>>
Ranks == Nat \X Nat \X Nat \X Nat
KeyBefore(k1, k2) ==
  \/ k1[1] > k2[1]
  \/ k1[1] = k2[1] /\ k1[2] > k2[2]
  \/ k1[1] = k2[1] /\ k1[2] = k2[2] /\ k1[3] < k2[3]
  \/ k1[1] = k2[1] /\ k1[2] = k2[2] /\ k1[3] = k2[3] /\ k1[4] < k2[4]

LEMMA KeyIsOfNumbers ==
  ASSUME NEW records \in Seq(UnitRows), NEW scope, NEW i \in 1..Len(records)
  PROVE  RankOf(records, scope, i) \in Ranks
  <1>1. i \in Nat
    BY LenProperties
  <1>2. records[i].class \in Nat /\ records[i].ref \in Nat
    <2>1. records[i] \in UnitRows
      BY ElementOfSeq
    <2>2. records[i].class \in Classes /\ records[i].ref \in Nat
      BY <2>1 DEF UnitRows
    <2> QED
      BY <2>2 DEF Classes
  <1> PICK relevance \in Nat : relevance = Relevance(records[i], scope)
    BY DEF Relevance
  <1>3. RankOf(records, scope, i) = <<relevance, records[i].class, records[i].ref, i>>
    BY DEF RankOf
  <1> QED
    BY <1>1, <1>2, <1>3 DEF Ranks

LEMMA BeforeByKey ==
  ASSUME NEW records \in Seq(UnitRows), NEW scope, NEW i \in 1..Len(records), NEW j \in 1..Len(records)
  PROVE  GoesBefore(records, scope, i, j) <=> KeyBefore(RankOf(records, scope, i), RankOf(records, scope, j))
  <1> PICK k1, k2 : k1 = RankOf(records, scope, i) /\ k2 = RankOf(records, scope, j)
    OBVIOUS
  <1>1. k1 \in Ranks /\ k2 \in Ranks
    BY KeyIsOfNumbers
  <1>2. Relevance(records[i], scope) = k1[1] /\ records[i].class = k1[2] /\ records[i].ref = k1[3] /\ i = k1[4]
    BY DEF RankOf
  <1>3. Relevance(records[j], scope) = k2[1] /\ records[j].class = k2[2] /\ records[j].ref = k2[3] /\ j = k2[4]
    BY DEF RankOf
  <1>4. RanksBefore(scope, records[i], records[j]) <=>
          \/ k1[1] > k2[1]
          \/ k1[1] = k2[1] /\ k1[2] > k2[2]
          \/ k1[1] = k2[1] /\ k1[2] = k2[2] /\ k1[3] < k2[3]
    BY <1>2, <1>3, Zenon DEF RanksBefore
  <1>5. RanksBefore(scope, records[j], records[i]) <=>
          \/ k2[1] > k1[1]
          \/ k2[1] = k1[1] /\ k2[2] > k1[2]
          \/ k2[1] = k1[1] /\ k2[2] = k1[2] /\ k2[3] < k1[3]
    BY <1>2, <1>3, Zenon DEF RanksBefore
  <1>6. GoesBefore(records, scope, i, j) <=>
          \/ RanksBefore(scope, records[i], records[j])
          \/ ~RanksBefore(scope, records[j], records[i]) /\ k1[4] < k2[4]
    BY <1>2, <1>3, Zenon DEF GoesBefore
  <1> PICK before, ranks, back \in BOOLEAN :
         /\ before <=> GoesBefore(records, scope, i, j)
         /\ ranks <=> RanksBefore(scope, records[i], records[j])
         /\ back <=> RanksBefore(scope, records[j], records[i])
    OBVIOUS
  <1>7. before <=> KeyBefore(k1, k2)
    BY <1>1, <1>4, <1>5, <1>6 DEF Ranks, KeyBefore
  <1> QED
    BY <1>7

LEMMA KeysAreOrdered ==
  ASSUME NEW a \in Ranks, NEW b \in Ranks, NEW c \in Ranks
  PROVE  /\ ~KeyBefore(a, a)
         /\ a[4] # b[4] => KeyBefore(a, b) \/ KeyBefore(b, a)
         /\ KeyBefore(a, b) /\ KeyBefore(b, c) => KeyBefore(a, c)
  BY DEF KeyBefore, Ranks

\* Ranking is a total order of the eligible records, so each place is taken by one of them.
LEMMA BeforeIsTotal ==
  ASSUME NEW records \in Seq(UnitRows), NEW scope, NEW i \in 1..Len(records), NEW j \in 1..Len(records)
  PROVE  /\ ~GoesBefore(records, scope, i, i)
         /\ i # j => GoesBefore(records, scope, i, j) \/ GoesBefore(records, scope, j, i)
  <1> PICK a, b : a = RankOf(records, scope, i) /\ b = RankOf(records, scope, j)
    OBVIOUS
  <1>1. a \in Ranks /\ b \in Ranks /\ a[4] = i /\ b[4] = j
    BY KeyIsOfNumbers DEF RankOf
  <1>2. /\ GoesBefore(records, scope, i, i) <=> KeyBefore(a, a)
        /\ GoesBefore(records, scope, i, j) <=> KeyBefore(a, b)
        /\ GoesBefore(records, scope, j, i) <=> KeyBefore(b, a)
    BY BeforeByKey
  <1> QED
    BY <1>1, <1>2, KeysAreOrdered

LEMMA BeforeIsTransitive ==
  ASSUME NEW records \in Seq(UnitRows), NEW scope, NEW i \in 1..Len(records), NEW j \in 1..Len(records),
         NEW k \in 1..Len(records), GoesBefore(records, scope, i, j), GoesBefore(records, scope, j, k)
  PROVE  GoesBefore(records, scope, i, k)
  <1> PICK a, b, c : a = RankOf(records, scope, i) /\ b = RankOf(records, scope, j) /\ c = RankOf(records, scope, k)
    OBVIOUS
  <1>1. a \in Ranks /\ b \in Ranks /\ c \in Ranks
    BY KeyIsOfNumbers
  <1>2. KeyBefore(a, b) /\ KeyBefore(b, c)
    BY BeforeByKey
  <1>3. KeyBefore(a, c)
    BY <1>1, <1>2, KeysAreOrdered
  <1> QED
    BY <1>3, BeforeByKey

PlaceIsTaken(records, floor, scope, n) ==
  \E i \in Eligible(records, floor) : Place(records, floor, scope, i) = n
LEMMA PlacesAreTaken ==
  ASSUME NEW records \in Seq(UnitRows), NEW floor, NEW scope,
         NEW n \in 1..Cardinality(Eligible(records, floor))
  PROVE  PlaceIsTaken(records, floor, scope, n)
  <1> DEFINE E == Eligible(records, floor)
             before(i) == {j \in E : GoesBefore(records, scope, j, i)}
             place == [i \in E |-> Place(records, floor, scope, i)]
  <1>1. Len(records) \in Nat /\ E \in SUBSET (1..Len(records))
    BY LenProperties DEF Eligible
  <1>2. IsFiniteSet(1..Len(records))
    BY <1>1, FS_Interval
  <1>3. IsFiniteSet(E)
    BY <1>1, <1>2, FS_Subset
  <1>4. Cardinality(E) \in Nat
    BY <1>3, FS_CardinalityType
  <1>5. \A i \in E : Place(records, floor, scope, i) = 1 + Cardinality(before(i))
    BY DEF Place
  <1>6. \A i \in E : before(i) \in SUBSET E /\ i \notin before(i)
    BY <1>1, BeforeIsTotal
  <1> HIDE DEF E, before
  <1>7. \A i \in E : IsFiniteSet(before(i)) /\ Cardinality(before(i)) \in Nat
    <2> SUFFICES ASSUME NEW i \in E PROVE IsFiniteSet(before(i)) /\ Cardinality(before(i)) \in Nat
      OBVIOUS
    <2>1. IsFiniteSet(before(i))
      BY <1>3, <1>6, FS_Subset
    <2> QED
      BY <2>1, FS_CardinalityType
  <1>8. ASSUME NEW i \in E, NEW S \in SUBSET E, before(i) \cup {i} \in SUBSET S
        PROVE  Cardinality(before(i)) + 1 <= Cardinality(S)
    <2>1. IsFiniteSet(S)
      BY <1>3, FS_Subset
    <2>2. Cardinality(before(i) \cup {i}) = Cardinality(before(i)) + 1
      BY <1>6, <1>7, FS_AddElement
    <2>3. Cardinality(before(i) \cup {i}) <= Cardinality(S)
      BY <1>8, <2>1, FS_Subset
    <2> QED
      BY <2>2, <2>3
  <1>9. \A i \in E : Place(records, floor, scope, i) \in 1..Cardinality(E)
    <2> SUFFICES ASSUME NEW i \in E PROVE Place(records, floor, scope, i) \in 1..Cardinality(E)
      OBVIOUS
    <2>1. Cardinality(before(i)) + 1 <= Cardinality(E)
      BY <1>6, <1>8
    <2> QED
      BY <1>4, <1>5, <1>7, <2>1
  <1>10. ASSUME NEW i \in E, NEW j \in E, GoesBefore(records, scope, i, j)
         PROVE  Place(records, floor, scope, i) # Place(records, floor, scope, j)
    <2>1. before(i) \cup {i} \in SUBSET before(j)
      BY <1>1, <1>10, BeforeIsTransitive DEF before
    <2>2. Cardinality(before(i)) + 1 <= Cardinality(before(j))
      BY <1>6, <1>8, <2>1
    <2> QED
      BY <1>5, <1>7, <2>2
  <1>11. \A i, j \in E : Place(records, floor, scope, i) = Place(records, floor, scope, j) => i = j
    <2> SUFFICES ASSUME NEW i \in E, NEW j \in E, i # j
                 PROVE  Place(records, floor, scope, i) # Place(records, floor, scope, j)
      OBVIOUS
    <2>1. GoesBefore(records, scope, i, j) \/ GoesBefore(records, scope, j, i)
      BY <1>1, BeforeIsTotal
    <2> QED
      BY <1>10, <2>1
  <1>12. place \in Injection(E, 1..Cardinality(E))
    BY <1>9, <1>11 DEF Injection, IsInjective
  <1>13. IsFiniteSet(1..Cardinality(E)) /\ Cardinality(1..Cardinality(E)) = Cardinality(E)
    <2> PICK size \in Nat : size = Cardinality(E)
      BY <1>4
    <2>1. IsFiniteSet(1..size) /\ Cardinality(1..size) = size
      BY FS_Interval
    <2> QED
      BY <2>1
  <1> HIDE DEF place
  <1>14. place \in Surjection(E, 1..Cardinality(E))
    BY <1>12, <1>13, FS_Injection
  <1>15. \E i \in E : place[i] = n
    BY <1>14 DEF Surjection, E
  <1> QED
    BY <1>15 DEF place, E, PlaceIsTaken

\* What is ranked is a sequence of records that were measured.
LEMMA RankedAreRecords ==
  ASSUME NEW records \in Seq(UnitRows), NEW floor, NEW scope
  PROVE  /\ EligibleAndRank(records, floor, scope) \in Seq(UnitRows)
         /\ \A n \in DOMAIN EligibleAndRank(records, floor, scope) :
              \E i \in 1..Len(records) : EligibleAndRank(records, floor, scope)[n] = records[i]
  <1> PICK size : size = Cardinality(Eligible(records, floor))
    OBVIOUS
  <1> DEFINE chosen(n) == CHOOSE i \in Eligible(records, floor) : Place(records, floor, scope, i) = n
  <1>1. \A n \in 1..size : chosen(n) \in Eligible(records, floor)
    <2> SUFFICES ASSUME NEW n \in 1..size PROVE chosen(n) \in Eligible(records, floor)
      OBVIOUS
    <2>1. PlaceIsTaken(records, floor, scope, n)
      BY PlacesAreTaken
    <2> QED
      BY <2>1 DEF PlaceIsTaken
  <1>2. Eligible(records, floor) \in SUBSET (1..Len(records)) /\ Len(records) \in Nat
    BY LenProperties DEF Eligible
  <1>3. size \in Nat
    <2>1. IsFiniteSet(1..Len(records))
      BY <1>2, FS_Interval
    <2>2. IsFiniteSet(Eligible(records, floor))
      BY <1>2, <2>1, FS_Subset
    <2> QED
      BY <2>2, FS_CardinalityType
  <1>4. EligibleAndRank(records, floor, scope) = [n \in 1..size |-> records[chosen(n)]]
    BY DEF EligibleAndRank, chosen
  <1> HIDE DEF chosen
  <1>5. \A n \in 1..size : chosen(n) \in 1..Len(records) /\ records[chosen(n)] \in UnitRows
    BY <1>1, <1>2, ElementOfSeq
  <1> PICK order : order = EligibleAndRank(records, floor, scope)
    OBVIOUS
  <1>6. DOMAIN order = 1..size /\ \A n \in 1..size : order[n] = records[chosen(n)]
    BY <1>4
  <1>7. order \in Seq(UnitRows)
    <2>1. order \in [1..size -> UnitRows]
      BY <1>4, <1>5
    <2> QED
      BY <1>3, <2>1, SeqDef
  <1>8. \A n \in DOMAIN order : \E i \in 1..Len(records) : order[n] = records[i]
    BY <1>5, <1>6
  <1> QED
    BY <1>7, <1>8

\* The rows of a run, and where they stand when the run stops there.
Admitted == RunRow("admit", "admitted", NoPlan, 0)
GateRow(body) == RunRow("gate", "warm", PlanId(body), 0)
ConvergeRow(body, units) == RunRow("converge", "terminate_success", PlanId(body), units)

RowsFit(run, found) ==
  \/ run.pc = "idle" /\ found = <<>>
  \/ run.pc = "refused" /\ (found = <<Refused>> \/ found = <<Admitted, Refused>>)
  \/ run.pc \in {"measuring", "planned"} /\ found = <<Admitted>>
  \/ run.pc = "gated" /\ found = <<Admitted, GateRow(run.body)>>
  \/ run.pc = "converged" /\ found = <<Admitted, GateRow(run.body), ConvergeRow(run.body, run.measured)>>
  \/ run.pc = "lost" /\ (found = <<Admitted>> \/ found = <<Admitted, GateRow(run.body)>>)

\* A run against the identifiers of the stored plans and the sources of the Registry.
RunOK(run, found, ids, refs) ==
  /\ RowsFit(run, found)
  /\ run.pc \in {"planned", "gated", "converged"} =>
       run.measured = Len(run.body.units) /\ Ranked(run.body) # <<>> /\ PlanId(run.body) \in ids
  /\ run.pc = "lost" => found = <<Admitted>> \/ PlanId(run.body) \in ids
  /\ run.pc # "idle" => run.measured <= Len(run.body.units)
                        /\ \A k \in 1..run.measured : run.body.units[k].ref \in refs

RefsHeld == {row.ref : row \in registry}
PlansOK == \A id \in DOMAIN plans : \E body \in RunBodies :
  id = PlanId(body) /\ plans[id].targets = TargetsOf(Ranked(body))
LensOK == lens.pc = "told" => lens.listed = lens.admits \ lens.converged

RunsInv ==
  /\ runRows = [r \in Runs |-> runRows[r]]
  /\ \A r \in Runs : RunOK(runs[r], runRows[r], DOMAIN plans, RefsHeld)
  /\ PlansOK /\ LensOK

LEMMA RowsAppended ==
  ASSUME NEW a, NEW b, NEW c
  PROVE  <<>> \o <<a>> = <<a>> /\ <<a>> \o <<b>> = <<a, b>> /\ <<a, b>> \o <<c>> = <<a, b, c>>
  <1> PICK S : S = {a, b, c}
    OBVIOUS
  <1>1. /\ <<>> \in Seq(S) /\ <<a>> \in Seq(S) /\ <<b>> \in Seq(S) /\ <<c>> \in Seq(S) /\ <<a, b>> \in Seq(S)
        /\ <<a, b, c>> \in Seq(S)
    OBVIOUS
  <1>2. Len(<<a>>) = 1 /\ Len(<<b>>) = 1 /\ Len(<<c>>) = 1 /\ Len(<<a, b>>) = 2 /\ Len(<<a, b, c>>) = 3
    OBVIOUS
  <1>3. <<>> \o <<a>> = <<a>>
    BY <1>1, ConcatEmptySeq
  <1>4. <<a>> \o <<b>> = <<a, b>>
    <2> PICK one, two, both : one = <<a>> /\ two = <<b>> /\ both = <<a, b>>
      OBVIOUS
    <2>1. /\ one \in Seq(S) /\ two \in Seq(S) /\ both \in Seq(S) /\ Len(one) = 1 /\ Len(two) = 1 /\ Len(both) = 2
          /\ one[1] = a /\ two[1] = b /\ both[1] = a /\ both[2] = b
      BY <1>1, <1>2
    <2>2. one \o two \in Seq(S) /\ Len(one \o two) = 2 /\ (one \o two)[1] = a /\ (one \o two)[2] = b
      <3>1. /\ one \o two \in Seq(S) /\ Len(one \o two) = Len(one) + Len(two)
            /\ \A i \in 1..Len(one) + Len(two) : (one \o two)[i] = IF i <= Len(one) THEN one[i] ELSE two[i - Len(one)]
        BY <2>1, ConcatProperties
      <3> QED
        BY <2>1, <3>1
    <2>3. one \o two = both
      BY ONLY <2>1, <2>2, SeqEqual
    <2> QED
      BY <2>3
  <1>5. <<a, b>> \o <<c>> = <<a, b, c>>
    <2> PICK one, two, both : one = <<a, b>> /\ two = <<c>> /\ both = <<a, b, c>>
      OBVIOUS
    <2>1. /\ one \in Seq(S) /\ two \in Seq(S) /\ both \in Seq(S) /\ Len(one) = 2 /\ Len(two) = 1 /\ Len(both) = 3
          /\ one[1] = a /\ one[2] = b /\ two[1] = c /\ both[1] = a /\ both[2] = b /\ both[3] = c
      BY <1>1, <1>2
    <2>2. /\ one \o two \in Seq(S) /\ Len(one \o two) = 3 /\ (one \o two)[1] = a /\ (one \o two)[2] = b
          /\ (one \o two)[3] = c
      <3>1. /\ one \o two \in Seq(S) /\ Len(one \o two) = Len(one) + Len(two)
            /\ \A i \in 1..Len(one) + Len(two) : (one \o two)[i] = IF i <= Len(one) THEN one[i] ELSE two[i - Len(one)]
        BY <2>1, ConcatProperties
      <3> QED
        BY <2>1, <3>1
    <2>3. one \o two = both
      BY ONLY <2>1, <2>2, SeqEqual
    <2> QED
      BY <2>3
  <1> QED
    BY <1>3, <1>4, <1>5

LEMMA RunStaysOK ==
  ASSUME NEW run, NEW found, NEW ids, NEW refs, NEW ids2, NEW refs2, RunOK(run, found, ids, refs),
         ids \subseteq ids2, refs \subseteq refs2
  PROVE  RunOK(run, found, ids2, refs2)
  BY DEF RunOK

LEMMA RunMoves ==
  ASSUME RunsInv, runs \in [Runs -> RunStates], NEW r \in Runs, NEW run, NEW found,
         runs' = [runs EXCEPT ![r] = run], runRows' = [runRows EXCEPT ![r] = found],
         DOMAIN plans \subseteq DOMAIN plans', RefsHeld \subseteq RefsHeld',
         RunOK(run, found, DOMAIN plans', RefsHeld'), PlansOK', lens' = lens
  PROVE  RunsInv'
  <1>1. runRows' = [q \in Runs |-> runRows'[q]]
    BY DEF RunsInv
  <1>2. LensOK'
    BY DEF RunsInv, LensOK
  <1>3. ASSUME NEW q \in Runs PROVE RunOK(runs'[q], runRows'[q], DOMAIN plans', RefsHeld')
    <2>1. CASE q = r
      BY <2>1 DEF RunsInv
    <2>2. CASE q # r
      <3>1. runs'[q] = runs[q] /\ runRows'[q] = runRows[q] /\ RunOK(runs[q], runRows[q], DOMAIN plans, RefsHeld)
        BY <2>2 DEF RunsInv
      <3>2. RunOK(runs[q], runRows[q], DOMAIN plans', RefsHeld')
        BY <3>1, RunStaysOK
      <3> QED
        BY <3>1, <3>2
    <2> QED
      BY <2>1, <2>2
  <1> QED
    BY <1>1, <1>2, <1>3 DEF RunsInv

\* Two runs of one plan identifier rank the same sources, of the same units.
LEMMA RankedIsFromUnits ==
  ASSUME NEW body \in RunBodies
  PROVE  /\ Ranked(body) \in Seq(UnitRows)
         /\ \A n \in DOMAIN Ranked(body) : \E i \in 1..Len(body.units) : Ranked(body)[n] = body.units[i]
  BY RankedAreRecords, EstateAssumption DEF Ranked

LEMMA OneIdOneOrder ==
  ASSUME NEW one \in RunBodies, NEW two \in RunBodies, PlanId(one) = PlanId(two)
  PROVE  /\ RefsOf(TargetsOf(Ranked(two))) = RefsOf(Ranked(one))
         /\ ToSet(TargetsOf(Ranked(two))) \subseteq ToSet(TargetsOf(one.units))
  <1> PICK p, q, units : p = Ranked(one) /\ q = Ranked(two) /\ units = two.units
    OBVIOUS
  <1>1. one.units = units /\ RefsOf(p) = RefsOf(q)
    BY DEF PlanId
  <1>2. RefsOf(TargetsOf(q)) = RefsOf(q)
    BY DEF RefsOf, TargetsOf
  <1>3. units \in Seq(UnitRows) /\ DOMAIN units = 1..Len(units)
    BY EstateAssumption
  <1>4. ASSUME NEW n \in DOMAIN q PROVE TargetsOf(q)[n] \in ToSet(TargetsOf(units))
    <2> PICK i \in 1..Len(units) : q[n] = units[i]
      BY RankedIsFromUnits
    <2>1. TargetsOf(q)[n] = TargetsOf(units)[i] /\ i \in DOMAIN TargetsOf(units)
      BY <1>3 DEF TargetsOf
    <2> QED
      BY <2>1 DEF ToSet
  <1>5. DOMAIN TargetsOf(q) = DOMAIN q
    BY DEF TargetsOf
  <1>6. ToSet(TargetsOf(q)) \subseteq ToSet(TargetsOf(units))
    BY <1>4, <1>5 DEF ToSet
  <1> QED
    BY <1>1, <1>2, <1>6

\* Runs of another shape than these have no place in the records.
LEMMA RunIs ==
  ASSUME EstateTypeOK, NEW r \in Runs
  PROVE  /\ runs \in [Runs -> RunStates] /\ registry \subseteq UnitRows
         /\ runs[r].pc # "idle" =>
              /\ runs[r] \in [pc : {"refused", "measuring", "planned", "gated", "converged", "lost"}, body : RunBodies,
                              measured : Nat]
              /\ runs[r].body \in RunBodies /\ runs[r].measured \in Nat
              /\ runs[r].body.units \in Seq(UnitRows) /\ Len(runs[r].body.units) \in Nat
  <1>1. runs \in [Runs -> RunStates] /\ registry \subseteq UnitRows /\ runs[r] \in RunStates
    BY DEF EstateTypeOK
  <1>2. ASSUME runs[r].pc # "idle"
        PROVE  /\ runs[r] \in [pc : {"refused", "measuring", "planned", "gated", "converged", "lost"}, body : RunBodies,
                               measured : Nat]
               /\ runs[r].body \in RunBodies /\ runs[r].measured \in Nat
    BY <1>1, <1>2 DEF RunStates
  <1>3. ASSUME runs[r].pc # "idle"
        PROVE  runs[r].body.units \in Seq(UnitRows) /\ Len(runs[r].body.units) \in Nat
    <2> PICK units : units = runs[r].body.units
      OBVIOUS
    <2>1. units \in Seq(UnitRows)
      BY <1>2, <1>3, EstateAssumption
    <2> QED
      BY <2>1, LenProperties
  <1> QED
    BY <1>1, <1>2, <1>3

LEMMA RunsInitInv == EstateInit => RunsInv
  <1> SUFFICES ASSUME EstateInit PROVE RunsInv
    OBVIOUS
  <1>1. \A r \in Runs : runs[r] = NotStarted /\ runRows[r] = <<>>
    BY DEF EstateInit
  <1>2. \A r \in Runs : RunOK(runs[r], runRows[r], DOMAIN plans, RefsHeld)
    BY <1>1 DEF RunOK, RowsFit, NotStarted
  <1>3. runRows = [r \in Runs |-> runRows[r]] /\ DOMAIN plans = {} /\ lens.pc = "idle"
    BY DEF EstateInit
  <1> QED
    BY <1>2, <1>3 DEF RunsInv, PlansOK, LensOK

LEMMA PlansStay ==
  ASSUME PlansOK, plans' = plans
  PROVE  PlansOK'
  BY DEF PlansOK

LEMMA RunStartsOnRecord ==
  ASSUME RunsInv, EstateTypeOK, NEW r \in Runs, NEW body \in RunBodies, RunRefuseBasis(r, body) \/ RunAdmit(r, body)
  PROVE  RunsInv'
  <1>1. /\ runs \in [Runs -> RunStates] /\ runs[r].pc = "idle" /\ registry' = registry /\ plans' = plans /\ lens' = lens
        /\ RefsHeld' = RefsHeld /\ PlansOK'
    BY RunIs, PlansStay DEF RunsInv, RunRefuseBasis, RunAdmit, RefsHeld
  <1>2. runRows[r] = <<>> /\ runRows = [q \in Runs |-> runRows[q]]
    BY <1>1 DEF RunsInv, RunOK, RowsFit
  <1>3. Len(body.units) \in Nat
    <2> PICK units : units = body.units
      OBVIOUS
    <2>1. units \in Seq(UnitRows)
      BY EstateAssumption
    <2> QED
      BY <2>1, LenProperties
  <1>4. CASE RunRefuseBasis(r, body)
    <2> PICK run : run = [pc |-> "refused", body |-> body, measured |-> 0]
      OBVIOUS
    <2>1. /\ runs' = [runs EXCEPT ![r] = run] /\ runRows' = [runRows EXCEPT ![r] = <<Refused>>]
      BY <1>2, <1>4, RowsAppended DEF RunRefuseBasis, Recorded
    <2>2. RunOK(run, <<Refused>>, DOMAIN plans', RefsHeld')
      BY <1>3 DEF RunOK, RowsFit
    <2> QED
      BY <1>1, <2>1, <2>2, RunMoves
  <1>5. CASE RunAdmit(r, body)
    <2> PICK run : run = [pc |-> "measuring", body |-> body, measured |-> 0]
      OBVIOUS
    <2>1. /\ runs' = [runs EXCEPT ![r] = run] /\ runRows' = [runRows EXCEPT ![r] = <<Admitted>>]
      BY <1>2, <1>5, RowsAppended DEF RunAdmit, Recorded, Admitted
    <2>2. RunOK(run, <<Admitted>>, DOMAIN plans', RefsHeld')
      BY <1>3 DEF RunOK, RowsFit
    <2> QED
      BY <1>1, <2>1, <2>2, RunMoves
  <1> QED
    BY <1>4, <1>5

\* A unit that is measured keeps every source that the Registry held and adds its own.
LEMMA UpsertKeepsRefs ==
  ASSUME registry \subseteq UnitRows, NEW unit, registry' = Upserted(registry, unit)
  PROVE  RefsHeld \subseteq RefsHeld' /\ unit.ref \in RefsHeld'
  BY DEF RefsHeld, Upserted

LEMMA RunMeasureOnRecord ==
  ASSUME RunsInv, EstateTypeOK, NEW r \in Runs, RunMeasure(r)
  PROVE  RunsInv'
  <1> PICK body, n : body = runs[r].body /\ n = runs[r].measured
    OBVIOUS
  <1>1. /\ runs \in [Runs -> RunStates] /\ runs[r].pc = "measuring" /\ n < Len(body.units) /\ n \in Nat
        /\ registry' = Upserted(registry, body.units[n + 1]) /\ runs' = [runs EXCEPT ![r].measured = @ + 1]
        /\ UNCHANGED <<plans, runRows, lens>> /\ registry \subseteq UnitRows /\ Len(body.units) \in Nat
        /\ runs[r] \in [pc : {"refused", "measuring", "planned", "gated", "converged", "lost"}, body : RunBodies,
                        measured : Nat]
    BY RunIs DEF RunMeasure
  <1>2. RefsHeld \subseteq RefsHeld' /\ body.units[n + 1].ref \in RefsHeld'
    BY <1>1, UpsertKeepsRefs
  <1> PICK run : run = [runs[r] EXCEPT !.measured = n + 1]
    OBVIOUS
  <1>3. run.pc = "measuring" /\ run.body = body /\ run.measured = n + 1
    BY <1>1
  <1>4. runs' = [runs EXCEPT ![r] = run] /\ runRows' = [runRows EXCEPT ![r] = runRows[r]]
    BY <1>1 DEF RunsInv
  <1>5. RowsFit(runs[r], runRows[r]) /\ \A k \in 1..n : body.units[k].ref \in RefsHeld
    BY <1>1 DEF RunsInv, RunOK
  <1>6. RowsFit(run, runRows[r])
    BY <1>1, <1>3, <1>5 DEF RowsFit
  <1>7. \A k \in 1..(n + 1) : body.units[k].ref \in RefsHeld'
    <2> SUFFICES ASSUME NEW k \in 1..(n + 1) PROVE body.units[k].ref \in RefsHeld'
      OBVIOUS
    <2>1. k \in 1..n \/ k = n + 1
      BY <1>1
    <2> QED
      BY <1>2, <1>5, <2>1
  <1>8. RunOK(run, runRows[r], DOMAIN plans', RefsHeld')
    BY <1>1, <1>3, <1>6, <1>7 DEF RunOK
  <1>9. PlansOK'
    BY <1>1, PlansStay DEF RunsInv
  <1> QED
    BY <1>1, <1>2, <1>4, <1>8, <1>9, RunMoves

LEMMA RunEndsAs ==
  ASSUME EstateTypeOK, NEW r \in Runs, runs[r].pc # "idle", NEW pc, Ends(r, pc)
  PROVE  \E run : /\ run.pc = pc /\ run.body = runs[r].body /\ run.measured = runs[r].measured
                  /\ runs' = [runs EXCEPT ![r] = run]
  <1> PICK run : run = [runs[r] EXCEPT !.pc = pc]
    OBVIOUS
  <1>1. run.pc = pc /\ run.body = runs[r].body /\ run.measured = runs[r].measured
    BY RunIs
  <1>2. runs' = [runs EXCEPT ![r] = run]
    BY DEF Ends
  <1> QED
    BY <1>1, <1>2

LEMMA RunMovesOnRecord ==
  ASSUME RunsInv, EstateTypeOK, NEW r \in Runs, RunRefuseFloor(r) \/ RunGate(r) \/ RunConverge(r)
  PROVE  RunsInv'
  <1>1. /\ runs[r].pc \in {"measuring", "planned", "gated"} /\ registry' = registry /\ plans' = plans /\ lens' = lens
        /\ RefsHeld' = RefsHeld /\ PlansOK' /\ runs \in [Runs -> RunStates]
    BY RunIs, PlansStay DEF RunsInv, RunRefuseFloor, RunGate, RunConverge, Measured, RefsHeld
  <1>2. RunOK(runs[r], runRows[r], DOMAIN plans', RefsHeld')
    BY <1>1 DEF RunsInv
  <1>3. CASE RunRefuseFloor(r)
    <2>1. PICK run : /\ run.pc = "refused" /\ run.body = runs[r].body /\ run.measured = runs[r].measured
                     /\ runs' = [runs EXCEPT ![r] = run]
      BY <1>1, <1>3, RunEndsAs DEF RunRefuseFloor
    <2>2. runs[r].pc = "measuring" /\ runRows[r] = <<Admitted>>
      BY <1>2, <1>3 DEF RunRefuseFloor, Measured, RunOK, RowsFit
    <2>3. runRows' = [runRows EXCEPT ![r] = <<Admitted, Refused>>]
      BY <1>3, <2>2, RowsAppended DEF RunRefuseFloor, Recorded
    <2>4. RunOK(run, <<Admitted, Refused>>, DOMAIN plans', RefsHeld')
      BY <1>1, <1>2, <2>1 DEF RunOK, RowsFit
    <2> QED
      BY <1>1, <2>1, <2>3, <2>4, RunMoves
  <1>4. CASE RunGate(r)
    <2>1. PICK run : /\ run.pc = "gated" /\ run.body = runs[r].body /\ run.measured = runs[r].measured
                     /\ runs' = [runs EXCEPT ![r] = run]
      BY <1>1, <1>4, RunEndsAs DEF RunGate
    <2>2. runs[r].pc = "planned" /\ runRows[r] = <<Admitted>>
      BY <1>2, <1>4 DEF RunGate, RunOK, RowsFit
    <2>3. runRows' = [runRows EXCEPT ![r] = <<Admitted, GateRow(runs[r].body)>>]
      BY <1>4, <2>2, RowsAppended DEF RunGate, Recorded, GateRow
    <2>4. RunOK(run, <<Admitted, GateRow(runs[r].body)>>, DOMAIN plans', RefsHeld')
      BY <1>2, <2>1, <2>2 DEF RunOK, RowsFit
    <2> QED
      BY <1>1, <2>1, <2>3, <2>4, RunMoves
  <1>5. CASE RunConverge(r)
    <2>1. PICK run : /\ run.pc = "converged" /\ run.body = runs[r].body /\ run.measured = runs[r].measured
                     /\ runs' = [runs EXCEPT ![r] = run]
      BY <1>1, <1>5, RunEndsAs DEF RunConverge
    <2>2. runs[r].pc = "gated" /\ runRows[r] = <<Admitted, GateRow(runs[r].body)>>
      BY <1>2, <1>5 DEF RunConverge, RunOK, RowsFit
    <2> PICK entries : entries = <<Admitted, GateRow(runs[r].body), ConvergeRow(runs[r].body, runs[r].measured)>>
      OBVIOUS
    <2>3. runRows' = [runRows EXCEPT ![r] = entries]
      BY <1>5, <2>2, RowsAppended DEF RunConverge, Recorded, ConvergeRow
    <2>4. RunOK(run, entries, DOMAIN plans', RefsHeld')
      BY <1>2, <2>1, <2>2 DEF RunOK, RowsFit
    <2> QED
      BY <1>1, <2>1, <2>3, <2>4, RunMoves
  <1> QED
    BY <1>3, <1>4, <1>5

\* The plan that is written has the targets that any run of its identifier ranks.
LEMMA RunPlanOnRecord ==
  ASSUME RunsInv, EstateTypeOK, NEW r \in Runs, RunPlan(r)
  PROVE  RunsInv'
  <1> PICK body, id, plan : body = runs[r].body /\ id = PlanId(body) /\ plan = BuildPlan(body)
    OBVIOUS
  <1>1. /\ runs[r].pc = "measuring" /\ runs[r].measured = Len(body.units) /\ Ranked(body) # <<>> /\ body \in RunBodies
        /\ plans' = [p \in DOMAIN plans \cup {id} |-> IF p = id THEN plan ELSE plans[p]] /\ runs \in [Runs -> RunStates]
        /\ UNCHANGED <<registry, runRows, lens>> /\ RefsHeld' = RefsHeld
    BY RunIs DEF RunPlan, Measured, RefsHeld
  <1>2. DOMAIN plans \subseteq DOMAIN plans' /\ id \in DOMAIN plans'
    BY <1>1
  <1>3. PlansOK'
    <2> SUFFICES ASSUME NEW p \in DOMAIN plans'
                 PROVE  \E other \in RunBodies : p = PlanId(other) /\ plans'[p].targets = TargetsOf(Ranked(other))
      BY DEF PlansOK
    <2>1. CASE p = id
      <3>1. plans'[p] = plan /\ plan.targets = TargetsOf(Ranked(body))
        BY <1>1, <2>1 DEF BuildPlan
      <3> QED
        BY <1>1, <2>1, <3>1
    <2>2. CASE p # id
      <3>1. p \in DOMAIN plans /\ plans'[p] = plans[p]
        BY <1>1, <2>2
      <3> QED
        BY <3>1 DEF RunsInv, PlansOK
    <2> QED
      BY <2>1, <2>2
  <1>4. PICK run : /\ run.pc = "planned" /\ run.body = body /\ run.measured = runs[r].measured
                   /\ runs' = [runs EXCEPT ![r] = run]
    BY <1>1, RunEndsAs DEF RunPlan
  <1>5. RunOK(runs[r], runRows[r], DOMAIN plans, RefsHeld)
    BY DEF RunsInv
  <1>6. RunOK(run, runRows[r], DOMAIN plans', RefsHeld')
    BY <1>1, <1>2, <1>4, <1>5 DEF RunOK, RowsFit
  <1>7. runRows' = [runRows EXCEPT ![r] = runRows[r]]
    BY <1>1 DEF RunsInv
  <1> QED
    BY <1>1, <1>2, <1>3, <1>4, <1>6, <1>7, RunMoves

LEMMA RunsStayOnRecord ==
  ASSUME RunsInv, UNCHANGED <<registry, plans, runs, runRows>>, LensOK'
  PROVE  RunsInv'
  <1>1. PlansOK' /\ RefsHeld' = RefsHeld
    BY PlansStay DEF RunsInv, RefsHeld
  <1> QED
    BY <1>1 DEF RunsInv

LEMMA LensOnRecord ==
  ASSUME RunsInv, LensAdmits \/ LensTerminated
  PROVE  RunsInv'
  <1>1. CASE LensAdmits
    <2>1. lens'.pc = "read"
      BY <1>1 DEF LensAdmits
    <2> QED
      BY <1>1, <2>1, RunsStayOnRecord DEF LensAdmits, LensOK
  <1>2. CASE LensTerminated
    <2> PICK terminated :
           terminated = {r \in Runs : \E i \in DOMAIN runRows[r] : runRows[r][i].decision = "terminate_success"}
      OBVIOUS
    <2>1. lens'.listed = lens'.admits \ terminated /\ lens'.converged = {r \in Runs : runs[r].pc = "converged"}
      BY <1>2 DEF LensTerminated
    <2>2. ASSUME NEW r \in Runs
          PROVE  (\E i \in DOMAIN runRows[r] : runRows[r][i].decision = "terminate_success") <=> runs[r].pc = "converged"
      <3> PICK entries : entries = runRows[r]
        OBVIOUS
      <3>1. RowsFit(runs[r], entries)
        BY DEF RunsInv, RunOK
      <3>2. /\ Refused.decision = "refused" /\ Admitted.decision = "admitted"
            /\ GateRow(runs[r].body).decision = "warm"
            /\ ConvergeRow(runs[r].body, runs[r].measured).decision = "terminate_success"
        BY DEF Refused, Admitted, GateRow, ConvergeRow, RunRow
      <3>3. CASE runs[r].pc = "converged"
        <4>1. entries = <<Admitted, GateRow(runs[r].body), ConvergeRow(runs[r].body, runs[r].measured)>>
          BY <3>1, <3>3 DEF RowsFit
        <4>2. 3 \in DOMAIN entries /\ entries[3].decision = "terminate_success"
          BY <3>2, <4>1
        <4> QED
          BY <3>3, <4>2
      <3>4. CASE runs[r].pc # "converged"
        <4>1. \/ entries = <<>> \/ entries = <<Refused>> \/ entries = <<Admitted>> \/ entries = <<Admitted, Refused>>
              \/ entries = <<Admitted, GateRow(runs[r].body)>>
          BY <3>1, <3>4 DEF RowsFit
        <4>2. \A i \in DOMAIN entries : entries[i].decision # "terminate_success"
          BY <3>2, <4>1
        <4> QED
          BY <3>4, <4>2
      <3> QED
        BY <3>3, <3>4
    <2>3. terminated = lens'.converged
      BY <2>1, <2>2
    <2> QED
      BY <1>2, <2>1, <2>3, RunsStayOnRecord DEF LensTerminated, LensOK
  <1> QED
    BY <1>1, <1>2

LEMMA RunsCrashOnRecord ==
  ASSUME RunsInv, EstateTypeOK, EstateCrash
  PROVE  RunsInv'
  <1>1. UNCHANGED <<registry, plans, runRows>> /\ RefsHeld' = RefsHeld /\ PlansOK'
    BY PlansStay DEF EstateCrash, RefsHeld, RunsInv
  <1>2. LensOK'
    BY DEF EstateCrash, RunsInv, LensOK
  <1>3. ASSUME NEW r \in Runs PROVE RunOK(runs'[r], runRows'[r], DOMAIN plans', RefsHeld')
    <2>1. RunOK(runs[r], runRows[r], DOMAIN plans, RefsHeld)
      BY DEF RunsInv
    <2>2. CASE InFlight(r)
      <3> PICK run : run = [runs[r] EXCEPT !.pc = "lost"]
        OBVIOUS
      <3>1. run.pc = "lost" /\ run.body = runs[r].body /\ run.measured = runs[r].measured
        BY <2>2, RunIs DEF InFlight
      <3>2. runs'[r] = run
        BY <2>2 DEF EstateCrash
      <3>3. RunOK(run, runRows[r], DOMAIN plans, RefsHeld)
        BY <2>1, <2>2, <3>1 DEF InFlight, RunOK, RowsFit
      <3> QED
        BY <1>1, <3>2, <3>3
    <2>3. CASE ~InFlight(r)
      <3>1. runs'[r] = runs[r]
        BY <2>3 DEF EstateCrash
      <3> QED
        BY <1>1, <2>1, <3>1
    <2> QED
      BY <2>2, <2>3
  <1> QED
    BY <1>1, <1>2, <1>3 DEF RunsInv

LEMMA CallsLeaveRuns ==
  ASSUME RunsInv,
         \/ \E ask \in Asks : Dispatch(ask)
         \/ PackageQualified \/ PackageComposed \/ SynthesiseKeyMissing \/ SynthesiseMechanical
         \/ \E draft \in Drafts : SynthesiseFluent(draft)
         \/ UNCHANGED estateVars
  PROVE  RunsInv'
  <1>1. UNCHANGED <<registry, plans, runs, runRows, lens>>
    BY DEF Dispatch, PackageQualified, PackageComposed, SynthesiseKeyMissing, SynthesiseMechanical, SynthesiseFluent,
           estateVars
  <1>2. LensOK'
    BY <1>1 DEF RunsInv, LensOK
  <1> QED
    BY <1>1, <1>2, RunsStayOnRecord

\* A converged run's three rows, read back.
LEMMA StatusOfConverged ==
  ASSUME NEW r \in Runs, NEW body, NEW units,
         runRows[r] = <<Admitted, GateRow(body), ConvergeRow(body, units)>>
  PROVE  /\ StatusByRun(r) = [stage |-> "converge", decision |-> "terminate_success", plan |-> PlanId(body),
                              units |-> units, rows |-> 3]
         /\ {runRows[r][i].plan : i \in DOMAIN runRows[r]} = {NoPlan, PlanId(body)}
         /\ \E i \in DOMAIN runRows[r] : runRows[r][i].decision = "terminate_success"
  <1> PICK entries, admit, gate, converge :
         entries = runRows[r] /\ admit = Admitted /\ gate = GateRow(body) /\ converge = ConvergeRow(body, units)
    OBVIOUS
  <1>1. /\ entries = <<admit, gate, converge>> /\ DOMAIN entries = 1..3 /\ Len(entries) = 3
        /\ entries[1] = admit /\ entries[2] = gate /\ entries[3] = converge
    OBVIOUS
  <1>2. /\ admit.stage = "admit" /\ gate.stage = "gate" /\ converge.stage = "converge"
        /\ admit.plan = NoPlan /\ gate.plan = PlanId(body) /\ converge.plan = PlanId(body)
        /\ converge.decision = "terminate_success" /\ converge.units = units
    BY DEF Admitted, GateRow, ConvergeRow, RunRow
  <1>3. Last(entries) = converge
    BY <1>1 DEF Last
  <1>4. {i \in DOMAIN entries : entries[i].stage = "gate"} = {2}
    <2>1. \A i \in 1..3 : i = 1 \/ i = 2 \/ i = 3
      OBVIOUS
    <2> QED
      BY <1>1, <1>2, <2>1
  <1>5. Max({2}) = 2
    BY DEF Max
  <1>6. StatusByRun(r) = [stage |-> "converge", decision |-> "terminate_success", plan |-> PlanId(body),
                          units |-> units, rows |-> 3]
    BY <1>1, <1>2, <1>3, <1>4, <1>5 DEF StatusByRun
  <1>7. {entries[i].plan : i \in DOMAIN entries} = {NoPlan, PlanId(body)}
    <2>1. \A i \in 1..3 : i = 1 \/ i = 2 \/ i = 3
      OBVIOUS
    <2> QED
      BY <1>1, <1>2, <2>1
  <1>8. \E i \in DOMAIN entries : entries[i].decision = "terminate_success"
    BY <1>1, <1>2
  <1> QED
    BY <1>6, <1>7, <1>8

LEMMA NoPlanIsNotStored == RunsInv => NoPlan \notin DOMAIN plans
  BY PlanIdAssumption DEF RunsInv, PlansOK

\* A converged run: its plan ranks its own units, and the trace finds them all.
LEMMA ConvergedOnRecord ==
  ASSUME RunsInv, EstateTypeOK, NEW r \in Runs, runs[r].pc = "converged"
  PROVE  LET id == PlanId(runs[r].body)
         IN  /\ StatusByRun(r) = [stage |-> "converge", decision |-> "terminate_success", plan |-> id,
                                  units |-> Len(runs[r].body.units), rows |-> 3]
             /\ RefsOf(plans[id].targets) = RefsOf(Ranked(runs[r].body))
             /\ ToSet(plans[id].targets) \subseteq ToSet(TargetsOf(runs[r].body.units))
             /\ {row.ref : row \in TraceRecords(r)} = ToSet(RefsOf(plans[id].targets))
             /\ EnginesTouched(r) = {"northena_ledger", "targeta", "mtafiti", "service_1"}
  <1> PICK body, id, units, order, targets :
         /\ body = runs[r].body /\ id = PlanId(body) /\ units = body.units /\ order = Ranked(body)
         /\ targets = plans[id].targets
    OBVIOUS
  <1>1. body \in RunBodies /\ units \in Seq(UnitRows)
    BY RunIs
  <1>2. /\ runRows[r] = <<Admitted, GateRow(body), ConvergeRow(body, Len(units))>>
        /\ order # <<>> /\ id \in DOMAIN plans /\ \A k \in 1..Len(units) : units[k].ref \in RefsHeld
    BY DEF RunsInv, RunOK, RowsFit
  <1>3. /\ StatusByRun(r) = [stage |-> "converge", decision |-> "terminate_success", plan |-> id,
                             units |-> Len(units), rows |-> 3]
        /\ {runRows[r][i].plan : i \in DOMAIN runRows[r]} = {NoPlan, id}
        /\ \E i \in DOMAIN runRows[r] : runRows[r][i].decision = "terminate_success"
    BY <1>2, StatusOfConverged
  <1>4. RefsOf(targets) = RefsOf(order) /\ ToSet(targets) \subseteq ToSet(TargetsOf(units))
    <2>1. PICK other \in RunBodies : id = PlanId(other) /\ targets = TargetsOf(Ranked(other))
      BY <1>2 DEF RunsInv, PlansOK
    <2> QED
      BY <1>1, <2>1, OneIdOneOrder
  <1>5. TracePlans(r) = {id}
    BY <1>2, <1>3, NoPlanIsNotStored DEF TracePlans
  <1>6. DOMAIN targets = DOMAIN order /\ \A n \in DOMAIN order : targets[n].ref = order[n].ref
    <2>1. /\ DOMAIN RefsOf(targets) = DOMAIN targets /\ \A n \in DOMAIN targets : RefsOf(targets)[n] = targets[n].ref
          /\ DOMAIN RefsOf(order) = DOMAIN order /\ \A n \in DOMAIN order : RefsOf(order)[n] = order[n].ref
      BY DEF RefsOf
    <2> QED
      BY <1>4, <2>1
  <1>7. \A n \in DOMAIN targets : targets[n].ref \in RefsHeld
    <2> SUFFICES ASSUME NEW n \in DOMAIN targets PROVE targets[n].ref \in RefsHeld
      OBVIOUS
    <2>1. PICK i \in 1..Len(units) : order[n] = units[i]
      BY <1>1, <1>6, RankedIsFromUnits
    <2> QED
      BY <1>2, <1>6, <2>1
  <1>8. 1 \in DOMAIN targets
    <2>1. order \in Seq(UnitRows)
      BY <1>1, RankedIsFromUnits
    <2>2. DOMAIN order = 1..Len(order) /\ Len(order) \in Nat \ {0}
      BY <1>2, <2>1, LenProperties, EmptySeq
    <2> QED
      BY <1>6, <2>2
  <1>9. TraceRecords(r) = {row \in registry : \E n \in DOMAIN targets : targets[n].ref = row.ref}
    BY <1>5 DEF TraceRecords
  <1>10. {row.ref : row \in TraceRecords(r)} = {targets[n].ref : n \in DOMAIN targets}
    BY <1>7, <1>9 DEF RefsHeld
  <1>11. ToSet(RefsOf(targets)) = {targets[n].ref : n \in DOMAIN targets}
    BY DEF ToSet, RefsOf
  <1>12. TraceRecords(r) # {}
    <2>1. targets[1].ref \in {targets[n].ref : n \in DOMAIN targets}
      BY <1>8
    <2>2. targets[1].ref \in {row.ref : row \in TraceRecords(r)}
      BY <1>10, <2>1
    <2> QED
      BY <2>2
  <1>13. EnginesTouched(r) = {"northena_ledger", "targeta", "mtafiti", "service_1"}
    BY <1>3, <1>5, <1>12 DEF EnginesTouched
  <1> QED
    BY <1>3, <1>4, <1>10, <1>11, <1>13

LEMMA RunsInvGivesRecord == RunsInv /\ EstateTypeOK => RunsOnRecord
  <1> SUFFICES ASSUME RunsInv, EstateTypeOK PROVE RunsOnRecord
    OBVIOUS
  <1>1. ASSUME NEW r \in Runs, NEW i \in DOMAIN runRows[r], runRows[r][i].plan # NoPlan
        PROVE  runRows[r][i].plan \in DOMAIN plans
    <2> PICK entries, run : entries = runRows[r] /\ run = runs[r]
      OBVIOUS
    <2>1. RunOK(run, entries, DOMAIN plans, RefsHeld)
      BY DEF RunsInv
    <2>2. /\ Refused.plan = NoPlan /\ Admitted.plan = NoPlan
          /\ GateRow(run.body).plan = PlanId(run.body)
          /\ ConvergeRow(run.body, run.measured).plan = PlanId(run.body)
      BY DEF Refused, Admitted, GateRow, ConvergeRow, RunRow
    <2>3. CASE PlanId(run.body) \in DOMAIN plans
      BY <1>1, <2>1, <2>2, <2>3 DEF RunOK, RowsFit
    <2>4. CASE PlanId(run.body) \notin DOMAIN plans
      <3>1. entries = <<>> \/ entries = <<Refused>> \/ entries = <<Admitted>> \/ entries = <<Admitted, Refused>>
        BY <2>1, <2>4 DEF RunOK, RowsFit
      <3> QED
        BY <1>1, <2>2, <3>1
    <2> QED
      BY <2>3, <2>4
  <1>2. ASSUME NEW r \in Runs, runs[r].pc = "refused"
        PROVE  Last(runRows[r]) = Refused /\ TracePlans(r) = {}
    <2> PICK entries : entries = runRows[r]
      OBVIOUS
    <2>1. entries = <<Refused>> \/ entries = <<Admitted, Refused>>
      BY <1>2 DEF RunsInv, RunOK, RowsFit
    <2>2. Last(entries) = Refused
      <3> PICK refused, admitted : refused = Refused /\ admitted = Admitted
        OBVIOUS
      <3>1. CASE entries = <<refused>>
        <4>1. Len(entries) = 1 /\ entries[1] = refused
          BY <3>1
        <4> QED
          BY <4>1 DEF Last
      <3>2. CASE entries = <<admitted, refused>>
        <4>1. Len(entries) = 2 /\ entries[2] = refused
          BY <3>2
        <4> QED
          BY <4>1 DEF Last
      <3> QED
        BY <2>1, <3>1, <3>2
    <2>3. Refused.plan = NoPlan /\ Admitted.plan = NoPlan
      BY DEF Refused, Admitted, RunRow
    <2>4. \A i \in DOMAIN entries : entries[i].plan = NoPlan
      BY <2>1, <2>3
    <2> QED
      BY <2>2, <2>4, NoPlanIsNotStored DEF TracePlans
  <1>3. lens.pc = "told" => lens.listed = lens.admits \ lens.converged
    BY DEF RunsInv, LensOK
  <1> QED
    BY <1>1, <1>2, <1>3, ConvergedOnRecord DEF RunsOnRecord

LEMMA RunsInvStep == EstateInv /\ RunsInv /\ [EstateNext]_estateVars => RunsInv'
  <1> SUFFICES ASSUME EstateInv, RunsInv, [EstateNext]_estateVars PROVE RunsInv'
    OBVIOUS
  <1>1. EstateTypeOK
    BY DEF EstateInv
  <1>2. ASSUME NEW r \in Runs, NEW body \in RunBodies, RunRefuseBasis(r, body) \/ RunAdmit(r, body) PROVE RunsInv'
    BY <1>1, <1>2, RunStartsOnRecord
  <1>3. ASSUME NEW r \in Runs, RunMeasure(r) PROVE RunsInv'
    BY <1>1, <1>3, RunMeasureOnRecord
  <1>4. ASSUME NEW r \in Runs, RunRefuseFloor(r) \/ RunGate(r) \/ RunConverge(r) PROVE RunsInv'
    BY <1>1, <1>4, RunMovesOnRecord
  <1>5. ASSUME NEW r \in Runs, RunPlan(r) PROVE RunsInv'
    BY <1>1, <1>5, RunPlanOnRecord
  <1>6. CASE \/ \E ask \in Asks : Dispatch(ask)
             \/ PackageQualified \/ PackageComposed \/ SynthesiseKeyMissing \/ SynthesiseMechanical
             \/ \E draft \in Drafts : SynthesiseFluent(draft)
             \/ UNCHANGED estateVars
    BY <1>6, CallsLeaveRuns
  <1>7. CASE LensAdmits \/ LensTerminated
    BY <1>7, LensOnRecord
  <1>8. CASE EstateCrash
    BY <1>1, <1>8, RunsCrashOnRecord
  <1> QED
    BY <1>2, <1>3, <1>4, <1>5, <1>6, <1>7, <1>8 DEF EstateNext

\* run, status_by_run, resolve_trace, _open_runs: what the ledger says of a run is true of the
\* stores, although runs share plan identifiers, sources and the Registry, and crash anywhere.
THEOREM RunsOnRecordHolds == EstateSpec => []RunsOnRecord
  <1>1. EstateInit => EstateInv /\ RunsInv
    BY EstateInitInv, RunsInitInv
  <1>2. EstateInv /\ RunsInv /\ [EstateNext]_estateVars => EstateInv' /\ RunsInv'
    BY EstateStep, RunsInvStep
  <1>3. EstateInv /\ RunsInv => RunsOnRecord
    BY RunsInvGivesRecord DEF EstateInv
  <1> QED
    BY <1>1, <1>2, <1>3, PTL DEF EstateSpec

--------------------------------------------------------------------------------
(***************************************************************************)
(* The artifact store for any keys, calls and interleavings of their file  *)
(* operations.  The invariant is stated key by key: what happens at one    *)
(* key says nothing of another, and at a key where no two actors met there *)
(* is at most one call in progress and no sweep beside it.                 *)
(***************************************************************************)

Moving == {"write", "verify", "copy", "head", "receipt", "row", "gc", "plain", "undo_tmp", "undo_final"}
Copied == {"receipt", "row", "gc"}
Marking == {"verify", "copy", "head", "receipt", "row", "gc"}

RowAt(k) == \E q \in rows : KeyOf[q] = k

\* What a call in progress knows of its key: nothing lies there before the copy, its own bytes
\* after the head check, the tmp copy in between; and no row there but its own.
CallOK(p) ==
  /\ step[p] \in Moving
  /\ step[p] \in {"write", "verify", "plain"} => final[KeyOf[p]] = NoFile
  /\ step[p] = "plain" => p \in Plain
  /\ step[p] \in Copied => final[KeyOf[p]] = p
  /\ step[p] \in Marking => tmp[KeyOf[p]] # NoFile
  /\ step[p] \in {"row", "gc"} => p \in receipts
  /\ step[p] = "gc" => p \in rows
  /\ step[p] # "gc" => ~RowAt(KeyOf[p])
  /\ step[p] = "undo_tmp" => tmp[KeyOf[p]] # NoFile \/ final[KeyOf[p]] = NoFile

\* The sweep at a key: its marker is there, and what it will delete has no row.
SweepOK(k) ==
  /\ tmp[k] # NoFile
  /\ verdict = "final" => ~RowAt(k)
  /\ verdict = "tmp" => final[k] \in rows \cup {NoFile}

\* What may lie under a key with neither call, sweep nor marker.
Accounted(k) ==
  \/ final[k] \in rows \cup {NoFile} \/ Busy(k) \/ tmp[k] # NoFile
  \/ \E p \in Puts : KeyOf[p] = k /\
       \/ step[p] = "undo_final"
       \/ p \in Plain /\ (final[k] = p \/ (final[k] = Torn /\ step[p] = "plain"))

RowsOK(k) == \A p \in rows : KeyOf[p] = k => final[k] = p /\ p \in receipts

KeyOK(k) ==
  /\ \A p, q \in live : KeyOf[p] = k /\ KeyOf[q] = k => p = q
  /\ \A p \in live : KeyOf[p] = k => sweep # k /\ CallOK(p)
  /\ RowsOK(k)
  /\ sweep = k => SweepOK(k)
  /\ Accounted(k)

KeyInv(k) == k \notin disturbed => KeyOK(k)

StoreInv == TypeOK /\ \A k \in Keys : KeyInv(k)

--------------------------------------------------------------------------------
(* Types.                                                                       *)

LEMMA Moved ==
  ASSUME NEW S, NEW T, NEW f \in [S -> T], NEW x, NEW y \in T
  PROVE  [f EXCEPT ![x] = y] \in [S -> T]
  OBVIOUS

LEMMA FilesAre == NoFile \in Files /\ Torn \in Files /\ \A p \in Puts : p \in Files /\ KeyOf[p] \in Keys
  BY StoreAssumption DEF Files

LEMMA InitTyped == Init => TypeOK
  BY FilesAre DEF Init, TypeOK, Steps

LEMMA CutsTyped ==
  ASSUME TypeOK, NEW p \in Puts, tmp' \in TmpCut(p), final' \in FinalCut(p), aged' = AgedCut(p)
  PROVE  tmp' \in [Keys -> Files] /\ final' \in [Keys -> Files] /\ aged' \subseteq Keys
  <1>1. tmp \in [Keys -> Files] /\ final \in [Keys -> Files] /\ aged \subseteq Keys
    BY DEF TypeOK
  <1>2. [tmp EXCEPT ![KeyOf[p]] = Torn] \in [Keys -> Files]
    BY <1>1, FilesAre, Moved
  <1>3. [final EXCEPT ![KeyOf[p]] = Torn] \in [Keys -> Files]
    BY <1>1, FilesAre, Moved
  <1> QED
    BY <1>1, <1>2, <1>3 DEF TmpCut, FinalCut, AgedCut

LEMMA UnlinkTyped ==
  ASSUME NEW dir \in [Keys -> Files], NEW k
  PROVE  Unlink(dir, k) \in [Keys -> Files]
  BY FilesAre, Moved DEF Unlink

LEMMA PutTyped ==
  ASSUME TypeOK, NEW p \in live, Put(p)
  PROVE  TypeOK'
  <1>1. p \in Puts /\ p \in Files /\ KeyOf[p] \in Keys /\ step \in [Puts -> Steps]
        /\ tmp \in [Keys -> Files] /\ final \in [Keys -> Files] /\ tmp[KeyOf[p]] \in Files
    BY FilesAre DEF TypeOK
  <1>2. \A s \in Steps : [step EXCEPT ![p] = s] \in [Puts -> Steps]
    BY <1>1, Moved
  <1>3. CASE WriteTmp(p)
    <2>1. tmp' \in [Keys -> Files]
      BY <1>1, <1>3, Moved DEF WriteTmp
    <2> QED
      BY <1>1, <1>2, <1>3, <2>1 DEF WriteTmp, Goto, NoSweep, TypeOK, Steps, Trying
  <1>4. CASE VerifyTmp(p)
    BY <1>2, <1>4 DEF VerifyTmp, Goto, NoSweep, TypeOK, Steps, Trying
  <1>5. CASE Copy(p)
    <2>1. final' \in [Keys -> Files]
      BY <1>1, <1>5, Moved DEF Copy
    <2> QED
      BY <1>2, <1>5, <2>1 DEF Copy, Goto, NoSweep, TypeOK, Steps, Trying
  <1>6. CASE HeadVerify(p)
    BY <1>2, <1>6 DEF HeadVerify, Goto, NoSweep, TypeOK, Steps, Trying
  <1>7. CASE BuildReceipt(p)
    BY <1>1, <1>2, <1>7 DEF BuildReceipt, Goto, NoSweep, TypeOK, Steps, Trying
  <1>8. CASE EmitRow(p)
    BY <1>1, <1>2, <1>8 DEF EmitRow, Goto, NoSweep, TypeOK, Steps, Trying
  <1>9. CASE CollectTmp(p)
    <2>1. tmp' \in [Keys -> Files]
      BY <1>1, <1>9, UnlinkTyped DEF CollectTmp
    <2> QED
      BY <1>2, <1>9, <2>1 DEF CollectTmp, Return, NoSweep, TypeOK, Steps, Trying
  <1>10. CASE PutOnce(p)
    <2>1. final' \in [Keys -> Files]
      BY <1>1, <1>10, Moved DEF PutOnce
    <2> QED
      BY <1>2, <1>10, <2>1 DEF PutOnce, Return, NoSweep, TypeOK, Steps, Trying
  <1> QED
    BY <1>3, <1>4, <1>5, <1>6, <1>7, <1>8, <1>9, <1>10 DEF Put

LEMMA StopsTyped ==
  ASSUME TypeOK, NEW p \in live, Raise(p) \/ UndoTmp(p) \/ UndoFinal(p) \/ Die(p)
  PROVE  TypeOK'
  <1>1. p \in Puts /\ step \in [Puts -> Steps] /\ step[p] \in Steps
        /\ tmp \in [Keys -> Files] /\ final \in [Keys -> Files]
    BY DEF TypeOK
  <1>2. \A s \in Steps : [step EXCEPT ![p] = s] \in [Puts -> Steps]
    BY <1>1, Moved
  <1>3. \A s \in Steps : Goto(p, s) \/ Return(p, s) => step' \in [Puts -> Steps] /\ live' \subseteq Puts
    BY <1>2 DEF Goto, Return, TypeOK
  <1>4. CASE Raise(p)
    <2>1. step' \in [Puts -> Steps] /\ live' \subseteq Puts
      BY <1>1, <1>3, <1>4 DEF Raise, Steps
    <2>2. tmp' \in [Keys -> Files] /\ final' \in [Keys -> Files] /\ aged' \subseteq Keys
      BY <1>1, <1>4, CutsTyped DEF Raise
    <2> QED
      BY <1>4, <2>1, <2>2 DEF Raise, NoSweep, TypeOK
  <1>5. CASE UndoTmp(p)
    <2>1. step' \in [Puts -> Steps] /\ live' \subseteq Puts
      BY <1>3, <1>5 DEF UndoTmp, Steps
    <2>2. tmp' \in [Keys -> Files]
      BY <1>1, <1>5, UnlinkTyped DEF UndoTmp
    <2> QED
      BY <1>5, <2>1, <2>2 DEF UndoTmp, NoSweep, TypeOK
  <1>6. CASE UndoFinal(p)
    <2>1. step' \in [Puts -> Steps] /\ live' \subseteq Puts
      BY <1>3, <1>6 DEF UndoFinal, Steps
    <2>2. final' \in [Keys -> Files]
      BY <1>1, <1>6, UnlinkTyped DEF UndoFinal
    <2> QED
      BY <1>6, <2>1, <2>2 DEF UndoFinal, NoSweep, TypeOK
  <1>7. CASE Die(p)
    <2>1. step' \in [Puts -> Steps] /\ live' \subseteq Puts
      BY <1>1, <1>3, <1>7 DEF Die
    <2>2. tmp' \in [Keys -> Files] /\ final' \in [Keys -> Files] /\ aged' \subseteq Keys
      BY <1>1, <1>7, CutsTyped DEF Die
    <2> QED
      BY <1>7, <2>1, <2>2 DEF Die, NoSweep, TypeOK
  <1> QED
    BY <1>4, <1>5, <1>6, <1>7

LEMMA SweepTyped ==
  ASSUME TypeOK, NEW k \in Keys, Age(k) \/ SweepJudge(k) \/ SweepFinal \/ SweepTmp \/ SweepStop
  PROVE  TypeOK'
  <1>1. CASE Age(k)
    BY <1>1 DEF Age, NoSweep, TypeOK
  <1>2. CASE SweepJudge(k)
    BY <1>2 DEF SweepJudge, TypeOK
  <1>3. CASE SweepFinal
    BY <1>3, UnlinkTyped DEF SweepFinal, TypeOK
  <1>4. CASE SweepTmp
    BY <1>4, UnlinkTyped DEF SweepTmp, TypeOK
  <1>5. CASE SweepStop
    BY <1>5 DEF SweepStop, TypeOK
  <1> QED
    BY <1>1, <1>2, <1>3, <1>4, <1>5

LEMMA BeginTyped ==
  ASSUME TypeOK, NEW p \in Puts, Begin(p)
  PROVE  TypeOK'
  <1>1. step' \in [Puts -> Steps]
    <2>1. (IF p \in Plain THEN "plain" ELSE "write") \in Steps
      BY DEF Steps, Trying
    <2> QED
      BY <2>1, Moved DEF Begin, TypeOK
  <1> QED
    BY <1>1, FilesAre DEF Begin, TypeOK

--------------------------------------------------------------------------------
(* What one key shows of a step elsewhere, and of a step of its one call.       *)

Untouched(k) ==
  /\ tmp'[k] = tmp[k] /\ final'[k] = final[k]
  /\ receipts \subseteq receipts' /\ rows \subseteq rows' /\ disturbed \subseteq disturbed'
  /\ \A p \in Puts : KeyOf[p] = k =>
       /\ step'[p] = step[p]
       /\ (p \in live' <=> p \in live) /\ (p \in rows' <=> p \in rows)
  /\ sweep' = k <=> sweep = k
  /\ sweep = k => verdict' = verdict

LEMMA CallUntouched ==
  ASSUME NEW p \in Puts, Untouched(KeyOf[p]), rows \subseteq Puts, rows' \subseteq Puts, CallOK(p)
  PROVE  CallOK(p)'
  <1>1. RowAt(KeyOf[p])' <=> RowAt(KeyOf[p])
    BY DEF Untouched, RowAt
  <1>2. step'[p] = step[p] /\ final'[KeyOf[p]] = final[KeyOf[p]] /\ tmp'[KeyOf[p]] = tmp[KeyOf[p]]
        /\ receipts \subseteq receipts' /\ rows \subseteq rows'
    BY DEF Untouched
  <1> HIDE DEF RowAt
  <1> QED
    BY <1>1, <1>2 DEF CallOK

LEMMA AccountedUntouched ==
  ASSUME NEW k \in Keys, Untouched(k), TypeOK, Accounted(k)
  PROVE  Accounted(k)'
  <1>1. Busy(k) => Busy(k)'
    BY DEF Busy, Untouched, TypeOK
  <1>2. tmp'[k] = tmp[k] /\ final'[k] = final[k] /\ rows \subseteq rows'
        /\ \A p \in Puts : KeyOf[p] = k => step'[p] = step[p]
    BY DEF Untouched
  <1> QED
    BY <1>1, <1>2 DEF Accounted

LEMMA KeyUntouched ==
  ASSUME NEW k \in Keys, TypeOK, TypeOK', Untouched(k), KeyInv(k)
  PROVE  KeyInv(k)'
  <1> SUFFICES ASSUME k \notin disturbed' PROVE KeyOK(k)'
    BY DEF KeyInv
  <1>1. k \notin disturbed /\ KeyOK(k)
    BY DEF KeyInv, Untouched
  <1>2. live \subseteq Puts /\ live' \subseteq Puts /\ rows \subseteq Puts /\ rows' \subseteq Puts
    BY DEF TypeOK
  <1>3. \A p, q \in live' : KeyOf[p] = k /\ KeyOf[q] = k => p = q
    BY <1>1, <1>2 DEF KeyOK, Untouched
  <1>4. ASSUME NEW p \in live', KeyOf[p] = k PROVE sweep' # k /\ CallOK(p)'
    BY <1>1, <1>2, <1>4, CallUntouched DEF KeyOK, Untouched
  <1>5. RowsOK(k)'
    BY <1>1, <1>2 DEF KeyOK, RowsOK, Untouched
  <1>6. sweep' = k => SweepOK(k)'
    <2>1. RowAt(k)' <=> RowAt(k)
      BY <1>2 DEF Untouched, RowAt
    <2> QED
      BY <1>1, <2>1 DEF KeyOK, SweepOK, Untouched
  <1>7. Accounted(k)'
    BY <1>1, AccountedUntouched DEF KeyOK
  <1> QED
    BY <1>3, <1>4, <1>5, <1>6, <1>7 DEF KeyOK

\* A call's step leaves every other key untouched.
LEMMA ElsewhereUntouched ==
  ASSUME TypeOK, NEW p \in Puts, NEW k \in Keys, k # KeyOf[p], NEW s, step' = [step EXCEPT ![p] = s],
         live' \in {live, live \ {p}, live \cup {p}}, tmp'[k] = tmp[k], final'[k] = final[k],
         receipts' \in {receipts, receipts \cup {p}}, rows' \in {rows, rows \cup {p}},
         sweep' = sweep, verdict' = verdict, disturbed \subseteq disturbed'
  PROVE  Untouched(k)
  <1>1. \A q \in Puts : q # p => step'[q] = step[q]
    BY DEF TypeOK
  <1> QED
    BY <1>1 DEF Untouched

\* A step of the call at a key: it is the only one there.
LEMMA CallMoves ==
  ASSUME StoreInv, NEW p \in live, live' \in {live, live \ {p}}, sweep' = sweep, disturbed' = disturbed,
         KeyOf[p] \notin disturbed,
         p \in live' => CallOK(p)', RowsOK(KeyOf[p])', p \notin live' => Accounted(KeyOf[p])'
  PROVE  KeyInv(KeyOf[p])'
  <1> DEFINE k == KeyOf[p]
  <1>1. KeyOK(k)
    BY FilesAre DEF StoreInv, KeyInv, TypeOK
  <1>2. \A q \in live' : KeyOf[q] = k => q = p
    BY <1>1 DEF KeyOK
  <1>3. sweep' # k
    BY <1>1 DEF KeyOK
  <1>4. Accounted(k)'
    <2>1. p \in live' => Busy(k)'
      BY DEF Busy
    <2> QED
      BY <2>1 DEF Accounted
  <1> QED
    BY <1>2, <1>3, <1>4 DEF KeyInv, KeyOK

LEMMA CallStep ==
  ASSUME StoreInv, TypeOK', NEW p \in live, NEW s, step' = [step EXCEPT ![p] = s],
         live' \in {live, live \ {p}},
         \A k \in Keys : k # KeyOf[p] => tmp'[k] = tmp[k] /\ final'[k] = final[k],
         receipts' \in {receipts, receipts \cup {p}}, rows' \in {rows, rows \cup {p}},
         sweep' = sweep, verdict' = verdict, disturbed' = disturbed,
         KeyOf[p] \notin disturbed =>
           /\ p \in live' => CallOK(p)'
           /\ RowsOK(KeyOf[p])'
           /\ p \notin live' => Accounted(KeyOf[p])'
  PROVE  StoreInv'
  <1>1. p \in Puts /\ TypeOK
    BY DEF StoreInv, TypeOK
  <1>2. ASSUME NEW k \in Keys, k # KeyOf[p] PROVE KeyInv(k)'
    <2>1. Untouched(k)
      BY <1>1, <1>2, ElsewhereUntouched
    <2> QED
      BY <1>1, <2>1, KeyUntouched DEF StoreInv
  <1>3. KeyInv(KeyOf[p])'
    <2>1. CASE KeyOf[p] \in disturbed
      BY <2>1 DEF KeyInv
    <2>2. CASE KeyOf[p] \notin disturbed
      BY <2>2, CallMoves
    <2> QED
      BY <2>1, <2>2
  <1> QED
    BY <1>2, <1>3 DEF StoreInv

\* What the invariant says of a call in progress at a key where nobody met it.
LEMMA CallFacts ==
  ASSUME StoreInv, NEW p \in live, KeyOf[p] \notin disturbed
  PROVE  CallOK(p) /\ RowsOK(KeyOf[p]) /\ p \in Puts /\ p # NoFile
         /\ tmp[KeyOf[p]] \in Files /\ KeyOf[p] \in Keys
  <1>1. p \in Puts /\ KeyOf[p] \in Keys
    BY FilesAre DEF StoreInv, TypeOK
  <1>2. KeyOK(KeyOf[p])
    BY <1>1 DEF StoreInv, KeyInv
  <1> QED
    BY <1>1, <1>2, StoreAssumption DEF KeyOK, StoreInv, TypeOK

\* A step of a call that leaves both its files, the receipts and the rows as they are.
LEMMA RowsStay ==
  ASSUME NEW k, RowsOK(k), rows' = rows, receipts \subseteq receipts', final'[k] = final[k] \/ ~RowAt(k)
  PROVE  RowsOK(k)' /\ (RowAt(k)' <=> RowAt(k))
  BY DEF RowsOK, RowAt

LEMMA WriteTmpKeeps ==
  ASSUME StoreInv, NEW p \in live, WriteTmp(p)
  PROVE  StoreInv'
  <1>1. TypeOK' /\ TypeOK
    BY PutTyped DEF StoreInv, Put
  <1>2. /\ step[p] = "write" /\ step' = [step EXCEPT ![p] = "verify"] /\ live' = live
        /\ tmp' = [tmp EXCEPT ![KeyOf[p]] = p] /\ final' = final
        /\ receipts' = receipts /\ rows' = rows /\ disturbed' = disturbed
        /\ sweep' = sweep /\ verdict' = verdict
    BY DEF WriteTmp, Goto, NoSweep
  <1>3. \A k \in Keys : k # KeyOf[p] => tmp'[k] = tmp[k]
    BY <1>1, <1>2 DEF TypeOK
  <1>4. ASSUME KeyOf[p] \notin disturbed PROVE CallOK(p)' /\ RowsOK(KeyOf[p])'
    <2>1. CallOK(p) /\ RowsOK(KeyOf[p]) /\ p \in Puts /\ p # NoFile /\ KeyOf[p] \in Keys
      BY <1>4, CallFacts
    <2>2. RowsOK(KeyOf[p])' /\ (RowAt(KeyOf[p])' <=> RowAt(KeyOf[p]))
      BY <1>2, <2>1, RowsStay
    <2>3. step'[p] = "verify" /\ tmp'[KeyOf[p]] = p /\ final'[KeyOf[p]] = NoFile /\ ~RowAt(KeyOf[p])
      BY <1>1, <1>2, <2>1 DEF CallOK, TypeOK
    <2> HIDE DEF RowAt
    <2> QED
      BY <2>1, <2>2, <2>3 DEF CallOK, Moving, Copied, Marking
  <1> QED
    BY <1>1, <1>2, <1>3, <1>4, CallStep

LEMMA VerifyTmpKeeps ==
  ASSUME StoreInv, NEW p \in live, VerifyTmp(p)
  PROVE  StoreInv'
  <1>1. TypeOK' /\ TypeOK
    BY PutTyped DEF StoreInv, Put
  <1>2. /\ step[p] = "verify" /\ step' = [step EXCEPT ![p] = "copy"] /\ live' = live
        /\ tmp' = tmp /\ final' = final
        /\ receipts' = receipts /\ rows' = rows /\ disturbed' = disturbed
        /\ sweep' = sweep /\ verdict' = verdict
    BY DEF VerifyTmp, Goto, NoSweep
  <1>4. ASSUME KeyOf[p] \notin disturbed PROVE CallOK(p)' /\ RowsOK(KeyOf[p])'
    <2>1. CallOK(p) /\ RowsOK(KeyOf[p]) /\ p \in Puts
      BY <1>4, CallFacts
    <2>2. RowsOK(KeyOf[p])' /\ (RowAt(KeyOf[p])' <=> RowAt(KeyOf[p]))
      BY <1>2, <2>1, RowsStay
    <2>3. step'[p] = "copy" /\ tmp[KeyOf[p]] # NoFile /\ ~RowAt(KeyOf[p])
      BY <1>1, <1>2, <2>1 DEF CallOK, TypeOK, Marking
    <2> HIDE DEF RowAt
    <2> QED
      BY <1>2, <2>1, <2>2, <2>3 DEF CallOK, Moving, Copied, Marking
  <1> QED
    BY <1>1, <1>2, <1>4, CallStep

LEMMA CopyKeeps ==
  ASSUME StoreInv, NEW p \in live, Copy(p)
  PROVE  StoreInv'
  <1>1. TypeOK' /\ TypeOK
    BY PutTyped DEF StoreInv, Put
  <1>2. /\ step[p] = "copy" /\ step' = [step EXCEPT ![p] = "head"] /\ live' = live
        /\ tmp' = tmp /\ final' = [final EXCEPT ![KeyOf[p]] = tmp[KeyOf[p]]]
        /\ receipts' = receipts /\ rows' = rows /\ disturbed' = disturbed
        /\ sweep' = sweep /\ verdict' = verdict
    BY DEF Copy, Goto, NoSweep
  <1>3. \A k \in Keys : k # KeyOf[p] => final'[k] = final[k]
    BY <1>1, <1>2 DEF TypeOK
  <1>4. ASSUME KeyOf[p] \notin disturbed PROVE CallOK(p)' /\ RowsOK(KeyOf[p])'
    <2>1. CallOK(p) /\ RowsOK(KeyOf[p]) /\ p \in Puts
      BY <1>4, CallFacts
    <2>2. step'[p] = "head" /\ tmp[KeyOf[p]] # NoFile /\ ~RowAt(KeyOf[p])
      BY <1>1, <1>2, <2>1 DEF CallOK, TypeOK, Marking
    <2>3. RowsOK(KeyOf[p])' /\ (RowAt(KeyOf[p])' <=> RowAt(KeyOf[p]))
      BY <1>2, <2>1, <2>2, RowsStay
    <2> HIDE DEF RowAt
    <2> QED
      BY <1>2, <2>1, <2>2, <2>3 DEF CallOK, Moving, Copied, Marking
  <1> QED
    BY <1>1, <1>2, <1>3, <1>4, CallStep

LEMMA HeadVerifyKeeps ==
  ASSUME StoreInv, NEW p \in live, HeadVerify(p)
  PROVE  StoreInv'
  <1>1. TypeOK' /\ TypeOK
    BY PutTyped DEF StoreInv, Put
  <1>2. /\ step[p] = "head" /\ step' = [step EXCEPT ![p] = "receipt"] /\ live' = live
        /\ tmp' = tmp /\ final' = final /\ final[KeyOf[p]] = p
        /\ receipts' = receipts /\ rows' = rows /\ disturbed' = disturbed
        /\ sweep' = sweep /\ verdict' = verdict
    BY DEF HeadVerify, Goto, NoSweep
  <1>4. ASSUME KeyOf[p] \notin disturbed PROVE CallOK(p)' /\ RowsOK(KeyOf[p])'
    <2>1. CallOK(p) /\ RowsOK(KeyOf[p]) /\ p \in Puts
      BY <1>4, CallFacts
    <2>2. RowsOK(KeyOf[p])' /\ (RowAt(KeyOf[p])' <=> RowAt(KeyOf[p]))
      BY <1>2, <2>1, RowsStay
    <2>3. step'[p] = "receipt" /\ tmp[KeyOf[p]] # NoFile /\ ~RowAt(KeyOf[p])
      BY <1>1, <1>2, <2>1 DEF CallOK, TypeOK, Marking
    <2> HIDE DEF RowAt
    <2> QED
      BY <1>2, <2>1, <2>2, <2>3 DEF CallOK, Moving, Copied, Marking
  <1> QED
    BY <1>1, <1>2, <1>4, CallStep

LEMMA BuildReceiptKeeps ==
  ASSUME StoreInv, NEW p \in live, BuildReceipt(p)
  PROVE  StoreInv'
  <1>1. TypeOK' /\ TypeOK
    BY PutTyped DEF StoreInv, Put
  <1>2. /\ step[p] = "receipt" /\ step' = [step EXCEPT ![p] = "row"] /\ live' = live
        /\ tmp' = tmp /\ final' = final
        /\ receipts' = receipts \cup {p} /\ rows' = rows /\ disturbed' = disturbed
        /\ sweep' = sweep /\ verdict' = verdict
    BY DEF BuildReceipt, Goto, NoSweep
  <1>4. ASSUME KeyOf[p] \notin disturbed PROVE CallOK(p)' /\ RowsOK(KeyOf[p])'
    <2>1. CallOK(p) /\ RowsOK(KeyOf[p]) /\ p \in Puts
      BY <1>4, CallFacts
    <2>2. RowsOK(KeyOf[p])' /\ (RowAt(KeyOf[p])' <=> RowAt(KeyOf[p]))
      BY <1>2, <2>1, RowsStay
    <2>3. step'[p] = "row" /\ tmp[KeyOf[p]] # NoFile /\ ~RowAt(KeyOf[p]) /\ final[KeyOf[p]] = p
      BY <1>1, <1>2, <2>1 DEF CallOK, TypeOK, Marking, Copied
    <2> HIDE DEF RowAt
    <2> QED
      BY <1>2, <2>1, <2>2, <2>3 DEF CallOK, Moving, Copied, Marking
  <1> QED
    BY <1>1, <1>2, <1>4, CallStep

LEMMA EmitRowKeeps ==
  ASSUME StoreInv, NEW p \in live, EmitRow(p)
  PROVE  StoreInv'
  <1>1. TypeOK' /\ TypeOK
    BY PutTyped DEF StoreInv, Put
  <1>2. /\ step[p] = "row" /\ step' = [step EXCEPT ![p] = "gc"] /\ live' = live
        /\ tmp' = tmp /\ final' = final
        /\ receipts' = receipts /\ rows' = rows \cup {p} /\ disturbed' = disturbed
        /\ sweep' = sweep /\ verdict' = verdict
    BY DEF EmitRow, Goto, NoSweep
  <1>4. ASSUME KeyOf[p] \notin disturbed PROVE CallOK(p)' /\ RowsOK(KeyOf[p])'
    <2>1. CallOK(p) /\ RowsOK(KeyOf[p]) /\ p \in Puts
      BY <1>4, CallFacts
    <2>2. step'[p] = "gc" /\ tmp[KeyOf[p]] # NoFile /\ final[KeyOf[p]] = p /\ p \in receipts
      BY <1>1, <1>2, <2>1 DEF CallOK, TypeOK, Marking, Copied
    <2>3. RowsOK(KeyOf[p])'
      BY <1>2, <2>1, <2>2 DEF RowsOK
    <2> HIDE DEF RowAt
    <2> QED
      BY <1>2, <2>1, <2>2, <2>3 DEF CallOK, Moving, Copied, Marking
  <1> QED
    BY <1>1, <1>2, <1>4, CallStep

LEMMA CollectTmpKeeps ==
  ASSUME StoreInv, NEW p \in live, CollectTmp(p)
  PROVE  StoreInv'
  <1>1. TypeOK' /\ TypeOK
    BY PutTyped DEF StoreInv, Put
  <1>2. /\ step[p] = "gc" /\ step' = [step EXCEPT ![p] = "done"] /\ live' = live \ {p}
        /\ tmp' \in {tmp, Unlink(tmp, KeyOf[p])} /\ final' = final
        /\ receipts' = receipts /\ rows' = rows /\ disturbed' = disturbed
        /\ sweep' = sweep /\ verdict' = verdict
    BY DEF CollectTmp, Return, NoSweep
  <1>3. \A k \in Keys : k # KeyOf[p] => tmp'[k] = tmp[k]
    BY <1>1, <1>2 DEF TypeOK, Unlink
  <1>4. ASSUME KeyOf[p] \notin disturbed PROVE RowsOK(KeyOf[p])' /\ Accounted(KeyOf[p])'
    <2>1. CallOK(p) /\ RowsOK(KeyOf[p])
      BY <1>4, CallFacts
    <2>2. final[KeyOf[p]] = p /\ p \in rows
      BY <1>2, <2>1 DEF CallOK, Copied
    <2> QED
      BY <1>2, <2>1, <2>2, RowsStay DEF Accounted
  <1> QED
    BY <1>1, <1>2, <1>3, <1>4, CallStep

LEMMA PutOnceKeeps ==
  ASSUME StoreInv, NEW p \in live, PutOnce(p)
  PROVE  StoreInv'
  <1>1. TypeOK' /\ TypeOK
    BY PutTyped DEF StoreInv, Put
  <1>2. /\ step[p] = "plain" /\ step' = [step EXCEPT ![p] = "done"] /\ live' = live \ {p}
        /\ tmp' = tmp /\ final' = [final EXCEPT ![KeyOf[p]] = p]
        /\ receipts' = receipts /\ rows' = rows /\ disturbed' = disturbed
        /\ sweep' = sweep /\ verdict' = verdict
    BY DEF PutOnce, Return, NoSweep
  <1>3. \A k \in Keys : k # KeyOf[p] => final'[k] = final[k]
    BY <1>1, <1>2 DEF TypeOK
  <1>4. ASSUME KeyOf[p] \notin disturbed PROVE RowsOK(KeyOf[p])' /\ Accounted(KeyOf[p])'
    <2>1. CallOK(p) /\ RowsOK(KeyOf[p]) /\ p \in Puts /\ KeyOf[p] \in Keys
      BY <1>4, CallFacts
    <2>2. p \in Plain /\ ~RowAt(KeyOf[p]) /\ final'[KeyOf[p]] = p
      BY <1>1, <1>2, <2>1 DEF CallOK, TypeOK
    <2> QED
      BY <1>2, <2>1, <2>2, RowsStay DEF Accounted
  <1> QED
    BY <1>1, <1>2, <1>3, <1>4, CallStep

\* A file operation cut short touches its own key, and its own file there.
LEMMA CutsAt ==
  ASSUME TypeOK, NEW p \in Puts, tmp' \in TmpCut(p), final' \in FinalCut(p)
  PROVE  /\ \A k \in Keys : k # KeyOf[p] => tmp'[k] = tmp[k] /\ final'[k] = final[k]
         /\ step[p] # "write" => tmp' = tmp
         /\ step[p] \notin {"copy", "plain"} => final' = final
         /\ final'[KeyOf[p]] \in {final[KeyOf[p]], Torn}
  <1>1. KeyOf[p] \in Keys /\ tmp \in [Keys -> Files] /\ final \in [Keys -> Files]
    BY FilesAre DEF TypeOK
  <1> QED
    BY <1>1 DEF TmpCut, FinalCut

LEMMA RaiseKeeps ==
  ASSUME StoreInv, NEW p \in live, Raise(p)
  PROVE  StoreInv'
  <1>1. TypeOK' /\ TypeOK /\ p \in Puts
    BY StopsTyped DEF StoreInv, TypeOK
  <1>2. /\ step[p] \in Trying \cup {"plain", "row"}
        /\ tmp' \in TmpCut(p) /\ final' \in FinalCut(p)
        /\ receipts' = receipts /\ rows' = rows /\ disturbed' = disturbed
        /\ sweep' = sweep /\ verdict' = verdict
    BY DEF Raise, NoSweep
  <1>3. CASE RollsBack(p)
    <2>1. step' = [step EXCEPT ![p] = "undo_tmp"] /\ live' = live /\ step[p] \in Trying
      BY <1>3 DEF Raise, Goto, RollsBack
    <2>2. ASSUME KeyOf[p] \notin disturbed PROVE CallOK(p)' /\ RowsOK(KeyOf[p])'
      <3>1. CallOK(p) /\ RowsOK(KeyOf[p])
        BY <2>2, CallFacts
      <3>2. step'[p] = "undo_tmp" /\ ~RowAt(KeyOf[p])
        BY <1>1, <2>1, <3>1 DEF CallOK, TypeOK, Trying
      <3>3. RowsOK(KeyOf[p])' /\ (RowAt(KeyOf[p])' <=> RowAt(KeyOf[p]))
        BY <1>2, <3>1, <3>2, RowsStay
      <3>4. tmp'[KeyOf[p]] # NoFile \/ final'[KeyOf[p]] = NoFile
        <4>1. CASE step[p] = "write"
          BY <1>1, <1>2, <3>1, <4>1, CutsAt DEF CallOK
        <4>2. CASE step[p] # "write"
          BY <1>1, <1>2, <2>1, <3>1, <4>2, CutsAt DEF CallOK, Trying, Marking
        <4> QED
          BY <4>1, <4>2
      <3> HIDE DEF RowAt
      <3> QED
        BY <3>2, <3>3, <3>4 DEF CallOK, Moving, Copied, Marking
    <2> QED
      BY <1>1, <1>2, <2>1, <2>2, CutsAt, CallStep
  <1>4. CASE ~RollsBack(p)
    <2>1. step' = [step EXCEPT ![p] = step[p]] /\ live' = live \ {p} /\ step[p] \in {"plain", "row"}
      BY <1>2, <1>4 DEF Raise, Return, RollsBack
    <2>2. ASSUME KeyOf[p] \notin disturbed PROVE RowsOK(KeyOf[p])' /\ Accounted(KeyOf[p])'
      <3>1. CallOK(p) /\ RowsOK(KeyOf[p])
        BY <2>2, CallFacts
      <3>2. step'[p] = step[p] /\ ~RowAt(KeyOf[p])
        BY <1>1, <2>1, <3>1 DEF CallOK, TypeOK
      <3>3. RowsOK(KeyOf[p])'
        BY <1>2, <3>1, <3>2, RowsStay
      <3>4. CASE step[p] = "row"
        BY <1>1, <1>2, <3>1, <3>3, <3>4, CutsAt DEF CallOK, Marking, Accounted
      <3>5. CASE step[p] = "plain"
        BY <1>1, <1>2, <3>1, <3>2, <3>3, <3>5, CutsAt DEF CallOK, Accounted
      <3> QED
        BY <2>1, <3>4, <3>5
    <2> QED
      BY <1>1, <1>2, <2>1, <2>2, CutsAt, CallStep
  <1> QED
    BY <1>3, <1>4

LEMMA UndoTmpKeeps ==
  ASSUME StoreInv, NEW p \in live, UndoTmp(p)
  PROVE  StoreInv'
  <1>1. TypeOK' /\ TypeOK
    BY StopsTyped DEF StoreInv
  <1>2. /\ step[p] = "undo_tmp" /\ step' = [step EXCEPT ![p] = "undo_final"] /\ live' = live
        /\ tmp' \in {tmp, Unlink(tmp, KeyOf[p])} /\ final' = final
        /\ receipts' = receipts /\ rows' = rows /\ disturbed' = disturbed
        /\ sweep' = sweep /\ verdict' = verdict
    BY DEF UndoTmp, Goto, NoSweep
  <1>3. \A k \in Keys : k # KeyOf[p] => tmp'[k] = tmp[k]
    BY <1>1, <1>2 DEF TypeOK, Unlink
  <1>4. ASSUME KeyOf[p] \notin disturbed PROVE CallOK(p)' /\ RowsOK(KeyOf[p])'
    <2>1. CallOK(p) /\ RowsOK(KeyOf[p]) /\ p \in Puts
      BY <1>4, CallFacts
    <2>2. RowsOK(KeyOf[p])' /\ (RowAt(KeyOf[p])' <=> RowAt(KeyOf[p]))
      BY <1>2, <2>1, RowsStay
    <2>3. step'[p] = "undo_final" /\ ~RowAt(KeyOf[p])
      BY <1>1, <1>2, <2>1 DEF CallOK, TypeOK
    <2> HIDE DEF RowAt
    <2> QED
      BY <2>2, <2>3 DEF CallOK, Moving, Copied, Marking
  <1> QED
    BY <1>1, <1>2, <1>3, <1>4, CallStep

LEMMA UndoFinalKeeps ==
  ASSUME StoreInv, NEW p \in live, UndoFinal(p)
  PROVE  StoreInv'
  <1>1. TypeOK' /\ TypeOK /\ p \in Puts
    BY StopsTyped DEF StoreInv, TypeOK
  <1>2. PICK s \in {"aborted", "undo_final"} :
          /\ step' = [step EXCEPT ![p] = s] /\ live' = live \ {p}
          /\ s = "aborted" => final' = Unlink(final, KeyOf[p])
          /\ s = "undo_final" => final' = final
    BY DEF UndoFinal, Return
  <1>3. /\ step[p] = "undo_final" /\ tmp' = tmp /\ final' \in {final, Unlink(final, KeyOf[p])}
        /\ receipts' = receipts /\ rows' = rows /\ disturbed' = disturbed
        /\ sweep' = sweep /\ verdict' = verdict
    BY DEF UndoFinal, Return, NoSweep
  <1>4. \A k \in Keys : k # KeyOf[p] => final'[k] = final[k]
    BY <1>1, <1>3 DEF TypeOK, Unlink
  <1>5. ASSUME KeyOf[p] \notin disturbed PROVE RowsOK(KeyOf[p])' /\ Accounted(KeyOf[p])'
    <2>1. CallOK(p) /\ RowsOK(KeyOf[p]) /\ KeyOf[p] \in Keys
      BY <1>5, CallFacts
    <2>2. ~RowAt(KeyOf[p])
      BY <1>3, <2>1 DEF CallOK
    <2>3. RowsOK(KeyOf[p])'
      BY <1>3, <2>1, <2>2, RowsStay
    <2>4. CASE s = "aborted"
      <3>1. final'[KeyOf[p]] = NoFile
        BY <1>1, <1>2, <2>1, <2>4 DEF TypeOK, Unlink
      <3> QED
        BY <2>3, <3>1 DEF Accounted
    <2>5. CASE s = "undo_final"
      <3>1. step'[p] = "undo_final"
        BY <1>1, <1>2, <2>5 DEF TypeOK
      <3> QED
        BY <1>1, <2>3, <3>1 DEF Accounted
    <2> QED
      BY <2>4, <2>5
  <1> QED
    BY <1>1, <1>2, <1>3, <1>4, <1>5, CallStep

LEMMA DieKeeps ==
  ASSUME StoreInv, NEW p \in live, Die(p)
  PROVE  StoreInv'
  <1>1. TypeOK' /\ TypeOK /\ p \in Puts
    BY StopsTyped DEF StoreInv, TypeOK
  <1>2. /\ step' = [step EXCEPT ![p] = step[p]] /\ live' = live \ {p}
        /\ tmp' \in TmpCut(p) /\ final' \in FinalCut(p)
        /\ receipts' = receipts /\ rows' = rows /\ disturbed' = disturbed
        /\ sweep' = sweep /\ verdict' = verdict
    BY DEF Die, Return, NoSweep
  <1>3. ASSUME KeyOf[p] \notin disturbed PROVE RowsOK(KeyOf[p])' /\ Accounted(KeyOf[p])'
    <2>1. CallOK(p) /\ RowsOK(KeyOf[p])
      BY <1>3, CallFacts
    <2>2. step'[p] = step[p]
      BY <1>1, <1>2 DEF TypeOK
    <2>3. final' = final \/ ~RowAt(KeyOf[p])
      BY <1>1, <1>2, <2>1, CutsAt DEF CallOK
    <2>4. RowsOK(KeyOf[p])'
      BY <1>2, <2>1, <2>3, RowsStay
    <2>5. CASE step[p] = "write"
      BY <1>1, <1>2, <2>1, <2>4, <2>5, CutsAt DEF CallOK, Accounted
    <2>6. CASE step[p] = "plain"
      BY <1>1, <1>2, <2>1, <2>2, <2>4, <2>6, CutsAt DEF CallOK, Accounted
    <2>7. CASE step[p] = "undo_final"
      BY <1>1, <2>2, <2>4, <2>7 DEF Accounted
    <2>8. CASE step[p] \in Marking \cup {"undo_tmp"}
      BY <1>1, <1>2, <2>1, <2>4, <2>8, CutsAt DEF CallOK, Marking, Accounted
    <2> QED
      BY <2>1, <2>5, <2>6, <2>7, <2>8 DEF CallOK, Moving, Marking
  <1> QED
    BY <1>1, <1>2, <1>3, CutsAt, CallStep

--------------------------------------------------------------------------------
(* The steps where two actors may meet: a call begins, a marker ages, a sweep.  *)

LEMMA BeginPutKeeps ==
  ASSUME StoreInv, NEW p \in Puts, Begin(p)
  PROVE  StoreInv'
  <1> DEFINE k0 == KeyOf[p]
  <1>1. TypeOK' /\ TypeOK /\ k0 \in Keys
    BY BeginTyped, FilesAre DEF StoreInv
  <1>2. /\ final[k0] = NoFile /\ live' = live \cup {p} /\ disturbed \subseteq disturbed'
        /\ step' = [step EXCEPT ![p] = IF p \in Plain THEN "plain" ELSE "write"]
        /\ Busy(k0) => k0 \in disturbed'
        /\ tmp' = tmp /\ final' = final /\ receipts' = receipts /\ rows' = rows
        /\ sweep' = sweep /\ verdict' = verdict
    BY DEF Begin, Vacant
  <1>3. ASSUME NEW k \in Keys, k # k0 PROVE KeyInv(k)'
    <2>1. Untouched(k)
      BY <1>1, <1>2, <1>3, ElsewhereUntouched
    <2> QED
      BY <1>1, <2>1, KeyUntouched DEF StoreInv
  <1>4. ASSUME k0 \notin disturbed' PROVE KeyOK(k0)'
    <2>1. KeyOK(k0) /\ ~Busy(k0)
      BY <1>1, <1>2, <1>4 DEF StoreInv, KeyInv
    <2>2. sweep' # k0 /\ \A q \in live' : KeyOf[q] = k0 => q = p
      BY <1>2, <2>1 DEF Busy
    <2>3. ~RowAt(k0)
      BY <1>1, <1>2, <2>1, FilesAre, StoreAssumption DEF KeyOK, RowsOK, RowAt, TypeOK
    <2>4. RowsOK(k0)' /\ (RowAt(k0)' <=> RowAt(k0))
      BY <1>2, <2>1, RowsStay DEF KeyOK
    <2>5. step'[p] = (IF p \in Plain THEN "plain" ELSE "write")
      BY <1>1, <1>2 DEF TypeOK
    <2>6. CallOK(p)'
      <3> HIDE DEF RowAt
      <3> QED
        BY <1>2, <2>3, <2>4, <2>5 DEF CallOK, Moving, Copied, Marking
    <2>7. Accounted(k0)'
      BY <1>2 DEF Accounted
    <2> QED
      BY <2>2, <2>4, <2>6, <2>7 DEF KeyOK
  <1> QED
    BY <1>1, <1>3, <1>4 DEF StoreInv, KeyInv

LEMMA AgeKeeps ==
  ASSUME StoreInv, NEW k0 \in Keys, Age(k0)
  PROVE  StoreInv'
  <1>1. TypeOK' /\ TypeOK
    BY SweepTyped DEF StoreInv
  <1>2. \A k \in Keys : Untouched(k)
    BY DEF Age, NoSweep, Untouched
  <1> QED
    BY <1>1, <1>2, KeyUntouched DEF StoreInv

LEMMA SweepJudgeKeeps ==
  ASSUME StoreInv, NEW k0 \in Keys, SweepJudge(k0)
  PROVE  StoreInv'
  <1>1. TypeOK' /\ TypeOK
    BY SweepTyped DEF StoreInv
  <1>2. /\ sweep = NoFile /\ tmp[k0] # NoFile /\ sweep' = k0
        /\ verdict' = IF Complete(k0) THEN "tmp" ELSE "final"
        /\ disturbed \subseteq disturbed'
        /\ Busy(k0) => k0 \in disturbed'
        /\ tmp' = tmp /\ final' = final /\ receipts' = receipts /\ rows' = rows
        /\ step' = step /\ live' = live
    BY DEF SweepJudge
  <1>3. ASSUME NEW k \in Keys, k # k0 PROVE KeyInv(k)'
    <2>1. Untouched(k)
      BY <1>2, <1>3, StoreAssumption DEF Untouched
    <2> QED
      BY <1>1, <2>1, KeyUntouched DEF StoreInv
  <1>4. ASSUME k0 \notin disturbed' PROVE KeyOK(k0)'
    <2>1. KeyOK(k0) /\ ~Busy(k0)
      BY <1>2, <1>4 DEF StoreInv, KeyInv
    <2>2. \A q \in live' : KeyOf[q] # k0
      BY <1>2, <2>1 DEF Busy
    <2>3. RowsOK(k0)' /\ RowsOK(k0)
      BY <1>2, <2>1 DEF KeyOK, RowsOK
    <2>4. verdict' = "final" => ~RowAt(k0)'
      BY <1>2, <2>3 DEF Complete, RowAt, RowsOK
    <2>5. verdict' = "tmp" => final'[k0] \in rows' \cup {NoFile}
      BY <1>2, <2>3 DEF Complete, RowsOK
    <2>6. SweepOK(k0)'
      BY <1>2, <2>4, <2>5 DEF SweepOK
    <2>7. Accounted(k0)'
      BY <1>2 DEF Accounted
    <2> QED
      BY <2>2, <2>3, <2>6, <2>7 DEF KeyOK
  <1> QED
    BY <1>1, <1>3, <1>4 DEF StoreInv, KeyInv

LEMMA SweepFinalKeeps ==
  ASSUME StoreInv, SweepFinal
  PROVE  StoreInv'
  <1>1. TypeOK' /\ TypeOK
    BY SweepTyped, FilesAre DEF StoreInv, SweepFinal, TypeOK
  <1>2. /\ sweep \in Keys /\ verdict = "final" /\ final' = Unlink(final, sweep) /\ verdict' = "tmp"
        /\ tmp' = tmp /\ receipts' = receipts /\ rows' = rows /\ step' = step /\ live' = live
        /\ sweep' = sweep /\ disturbed' = disturbed
    BY <1>1 DEF SweepFinal, TypeOK
  <1>3. final'[sweep] = NoFile /\ \A k \in Keys : k # sweep => final'[k] = final[k]
    BY <1>1, <1>2 DEF TypeOK, Unlink
  <1>4. ASSUME NEW k \in Keys, k # sweep PROVE KeyInv(k)'
    <2>1. Untouched(k)
      BY <1>2, <1>3, <1>4 DEF Untouched
    <2> QED
      BY <1>1, <2>1, KeyUntouched DEF StoreInv
  <1>5. ASSUME sweep \notin disturbed PROVE KeyOK(sweep)'
    <2>1. KeyOK(sweep)
      BY <1>2, <1>5 DEF StoreInv, KeyInv
    <2>2. \A p \in live' : KeyOf[p] # sweep
      BY <1>2, <2>1 DEF KeyOK
    <2>3. tmp[sweep] # NoFile /\ ~RowAt(sweep)
      BY <1>2, <2>1 DEF KeyOK, SweepOK
    <2>4. RowsOK(sweep)'
      BY <1>2, <2>3 DEF RowsOK, RowAt
    <2>5. SweepOK(sweep)' /\ Accounted(sweep)'
      BY <1>2, <1>3, <2>3 DEF SweepOK, Accounted
    <2> QED
      BY <1>2, <2>2, <2>4, <2>5 DEF KeyOK
  <1> QED
    BY <1>1, <1>2, <1>4, <1>5 DEF StoreInv, KeyInv

\* The sweep leaves its key, its marker deleted or not.
LEMMA SweepLeaves ==
  ASSUME StoreInv, TypeOK', NEW k0 \in Keys, sweep = k0, sweep' = NoFile, verdict' = verdict,
         final' = final, receipts' = receipts, rows' = rows, step' = step, live' = live,
         disturbed' = disturbed,
         \A k \in Keys : k # k0 => tmp'[k] = tmp[k],
         tmp'[k0] = tmp[k0] \/ verdict = "tmp"
  PROVE  StoreInv'
  <1>1. TypeOK /\ NoFile \notin Keys
    BY StoreAssumption DEF StoreInv
  <1>2. ASSUME NEW k \in Keys, k # k0 PROVE KeyInv(k)'
    <2>1. Untouched(k)
      BY <1>1, <1>2 DEF Untouched
    <2> QED
      BY <1>1, <2>1, KeyUntouched DEF StoreInv
  <1>3. ASSUME k0 \notin disturbed PROVE KeyOK(k0)'
    <2>1. KeyOK(k0)
      BY <1>3 DEF StoreInv, KeyInv
    <2>2. \A p \in live' : KeyOf[p] # k0
      BY <2>1 DEF KeyOK
    <2>3. RowsOK(k0)'
      BY <2>1 DEF KeyOK, RowsOK
    <2>4. Accounted(k0)'
      BY <2>1 DEF KeyOK, SweepOK, Accounted
    <2> QED
      BY <1>1, <2>2, <2>3, <2>4 DEF KeyOK
  <1> QED
    BY <1>2, <1>3 DEF StoreInv, KeyInv

LEMMA SweepTmpKeeps ==
  ASSUME StoreInv, SweepTmp \/ SweepStop
  PROVE  StoreInv'
  <1>1. TypeOK /\ sweep \in Keys
    BY DEF StoreInv, SweepTmp, SweepStop, TypeOK
  <1>2. TypeOK'
    BY <1>1, SweepTyped
  <1>3. CASE SweepTmp
    <2>1. \A k \in Keys : k # sweep => tmp'[k] = tmp[k]
      BY <1>1, <1>3 DEF SweepTmp, Unlink, TypeOK
    <2> QED
      BY <1>1, <1>2, <1>3, <2>1, SweepLeaves DEF SweepTmp
  <1>4. CASE SweepStop
    BY <1>1, <1>2, <1>4, SweepLeaves DEF SweepStop
  <1> QED
    BY <1>3, <1>4

--------------------------------------------------------------------------------
(* The theorems.                                                                *)

LEMMA StoreInit == Init => StoreInv
  <1> SUFFICES ASSUME Init PROVE StoreInv
    OBVIOUS
  <1>1. ASSUME NEW k \in Keys PROVE KeyOK(k)
    BY <1>1, StoreAssumption DEF Init, KeyOK, RowsOK, Accounted
  <1> QED
    BY <1>1, InitTyped DEF StoreInv, KeyInv

LEMMA StoreStep == StoreInv /\ [Next]_vars => StoreInv'
  <1> SUFFICES ASSUME StoreInv, [Next]_vars PROVE StoreInv'
    OBVIOUS
  <1>1. CASE UNCHANGED vars
    <2>1. TypeOK' /\ TypeOK
      BY <1>1 DEF vars, StoreInv, TypeOK
    <2>2. \A k \in Keys : Untouched(k)
      BY <1>1 DEF vars, Untouched
    <2> QED
      BY <2>1, <2>2, KeyUntouched DEF StoreInv
  <1>2. ASSUME NEW p \in live, Put(p) PROVE StoreInv'
    BY <1>2, WriteTmpKeeps, VerifyTmpKeeps, CopyKeeps, HeadVerifyKeeps, BuildReceiptKeeps,
       EmitRowKeeps, CollectTmpKeeps, PutOnceKeeps DEF Put
  <1>3. ASSUME NEW p \in live, Raise(p) \/ UndoTmp(p) \/ UndoFinal(p) \/ Die(p) PROVE StoreInv'
    BY <1>3, RaiseKeeps, UndoTmpKeeps, UndoFinalKeeps, DieKeeps
  <1> QED
    BY <1>1, <1>2, <1>3, BeginPutKeeps, AgeKeeps, SweepJudgeKeeps, SweepFinalKeeps, SweepTmpKeeps DEF Next

\* Whatever the keys, the calls, their deaths and the sweeps: a call with a ledger row has its
\* receipt, and its own bytes under the key for good, unless somebody met it on that key.
THEOREM GovernedIsStoredHolds == Spec => []GovernedIsStored
  <1>1. StoreInv => GovernedIsStored
    BY FilesAre DEF StoreInv, KeyInv, KeyOK, RowsOK, TypeOK, GovernedIsStored
  <1> QED
    BY <1>1, StoreInit, StoreStep, PTL DEF Spec

\* And what the store holds without a row is being written, still has its marker, is put_once's,
\* or was left between the two deletes of a rollback: the sweep overlooks nothing else.
THEOREM LeftoverIsMarkedHolds == Spec => []LeftoverIsMarked
  <1>1. StoreInv => LeftoverIsMarked
    BY DEF StoreInv, KeyInv, KeyOK, Accounted, LeftoverIsMarked
  <1> QED
    BY <1>1, StoreInit, StoreStep, PTL DEF Spec
================================================================================
