---------------------- MODULE RequirementGovernanceProofs ----------------------
(***************************************************************************)
(* Theorems of RequirementGovernance, for any folders, subjects, drafts,   *)
(* amendments and bounds, and of the rules that transform documents.       *)
(***************************************************************************)
EXTENDS RequirementGovernance, DataLemmas, FiniteSetTheorems


(***************************************************************************)
(* The log of the store: snapshots whose ids are places of the log.        *)
(***************************************************************************)
Fields == {"id", "deal", "text", "ownerRole", "severity", "scope", "evidenceRefs",
           "createdBy", "status", "approvedBy"}

Statuses == {"proposed", "active", "rejected", "retired"}

IsSnapshot(r) ==
    /\ r = [f \in Fields |-> r[f]]
    /\ r.status \in Statuses

IsLog(versions) ==
    /\ \E S : versions \in Seq(S)
    /\ \A i \in 1..Len(versions) : IsSnapshot(versions[i])

LEMMA LogProperties ==
    ASSUME NEW versions, IsLog(versions)
    PROVE  /\ Len(versions) \in Nat
           /\ DOMAIN versions = 1..Len(versions)
BY LenProperties DEF IsLog

LEMMA Appended ==
    ASSUME NEW versions, IsLog(versions), NEW r, IsSnapshot(r)
    PROVE  LET longer == Append(versions, r) IN
           /\ IsLog(longer)
           /\ Len(longer) = Len(versions) + 1
           /\ \A i \in 1..Len(versions) : longer[i] = versions[i]
           /\ longer[Len(versions) + 1] = r
<1> DEFINE longer == Append(versions, r)
<1>1. PICK S : versions \in Seq(S)
  BY DEF IsLog
<1>2. versions \in Seq(S \cup {r}) /\ r \in S \cup {r}
  BY <1>1, SeqMonotonic
<1>3. longer \in Seq(S \cup {r})
  BY <1>2
<1>4. /\ Len(longer) = Len(versions) + 1
      /\ \A i \in 1..Len(versions) : longer[i] = versions[i]
      /\ longer[Len(versions) + 1] = r
  BY <1>2
<1>5. \A i \in 1..Len(longer) : IsSnapshot(longer[i])
  <2> HIDE DEF longer
  <2> QED
    BY <1>4, LogProperties DEF IsLog
<1> QED
  BY <1>3, <1>4, <1>5 DEF IsLog

(* What a call makes of the snapshot it was given is a snapshot.           *)
LEMMA TransitionIsSnapshot ==
    ASSUME NEW r, IsSnapshot(r), NEW status \in Statuses, NEW by
    PROVE  /\ IsSnapshot([r EXCEPT !.status = status])
           /\ [r EXCEPT !.status = status].id = r.id
           /\ [r EXCEPT !.status = status].status = status
           /\ [r EXCEPT !.status = status].approvedBy = r.approvedBy
           /\ IsSnapshot([r EXCEPT !.status = status, !.approvedBy = by])
           /\ [r EXCEPT !.status = status, !.approvedBy = by].id = r.id
           /\ [r EXCEPT !.status = status, !.approvedBy = by].status = status
           /\ [r EXCEPT !.status = status, !.approvedBy = by].approvedBy = by
BY DEF IsSnapshot, Fields

LEMMA AmendedIsSnapshot ==
    ASSUME NEW r, IsSnapshot(r), NEW changes \in Amendments
    PROVE  /\ IsSnapshot(Amended(r, changes))
           /\ Amended(r, changes).id = r.id
           /\ Amended(r, changes).status = r.status
           /\ Amended(r, changes).approvedBy = r.approvedBy
<1>1. /\ DOMAIN changes \subseteq RequirementAmendment
      /\ DOMAIN r = Fields
  BY GovernanceAssumptions DEF IsSnapshot
<1>2. Amended(r, changes) = [f \in Fields |-> IF f \in DOMAIN changes THEN changes[f] ELSE r[f]]
  BY <1>1 DEF Amended
<1>3. /\ Amended(r, changes).id = r.id
      /\ Amended(r, changes).status = r.status
      /\ Amended(r, changes).approvedBy = r.approvedBy
  BY <1>1, <1>2 DEF Fields, RequirementAmendment
<1> QED
  BY <1>2, <1>3 DEF IsSnapshot

LEMMA CreatedIsSnapshot ==
    ASSUME NEW draft, NEW id
    PROVE  /\ IsSnapshot(Created(draft, id))
           /\ Created(draft, id).id = id
           /\ Created(draft, id).status = "proposed"
           /\ Created(draft, id).approvedBy = NoApprover
BY DEF IsSnapshot, Created, Fields, Statuses

-----------------------------------------------------------------------------
(***************************************************************************)
(* The life of the requirements, read off a log.                           *)
(***************************************************************************)
Row(r) == [id |-> r.id, status |-> r.status, approver |-> r.approvedBy]

CurrentPlaces(versions) == {k \in DOMAIN versions : IsCurrent(versions, k)}

Rows(versions) == {Row(versions[i]) : i \in CurrentPlaces(versions)}

LEMMA LifeIsRows == Life = Rows(log)
BY DEF Life, Rows, CurrentPlaces, Row

(* Of two places that are current for one id, neither is after the other.  *)
LEMMA OneCurrentPlace ==
    ASSUME NEW versions, IsLog(versions),
           NEW i \in CurrentPlaces(versions), NEW j \in CurrentPlaces(versions),
           versions[i].id = versions[j].id
    PROVE  i = j
BY LogProperties DEF CurrentPlaces, IsCurrent

(* A new snapshot takes the place of those of its id, and of no other.     *)
LEMMA CurrentAfterAppend ==
    ASSUME NEW versions, IsLog(versions), NEW r, IsSnapshot(r)
    PROVE  CurrentPlaces(Append(versions, r))
             = {k \in CurrentPlaces(versions) : versions[k].id # r.id} \cup {Len(versions) + 1}
<1> DEFINE longer == Append(versions, r)
           n == Len(versions) + 1
<1>1. /\ Len(longer) = n
      /\ \A i \in 1..Len(versions) : longer[i] = versions[i]
      /\ longer[n] = r
      /\ IsLog(longer)
  BY Appended
<1>2. /\ Len(versions) \in Nat /\ DOMAIN versions = 1..Len(versions)
      /\ DOMAIN longer = 1..n
  BY <1>1, LogProperties
<1> HIDE DEF longer
<1>3. IsCurrent(longer, n)
  BY <1>1, <1>2 DEF IsCurrent
<1>4. ASSUME NEW k \in 1..Len(versions)
      PROVE  IsCurrent(longer, k) <=> IsCurrent(versions, k) /\ versions[k].id # r.id
  BY <1>1, <1>2 DEF IsCurrent
<1>5. DOMAIN longer = (1..Len(versions)) \cup {n}
  BY <1>2
<1>6. n \notin 1..Len(versions)
  BY <1>2
<1>7. CurrentPlaces(longer)
        = {k \in CurrentPlaces(versions) : versions[k].id # r.id} \cup {n}
  <2> HIDE DEF n
  <2> QED
    BY <1>2, <1>3, <1>4, <1>5, <1>6 DEF CurrentPlaces
<1> QED
  BY <1>7 DEF longer

LEMMA RowsAfterAppend ==
    ASSUME NEW versions, IsLog(versions), NEW r, IsSnapshot(r)
    PROVE  Rows(Append(versions, r))
             = {Row(versions[k]) : k \in {i \in CurrentPlaces(versions) : versions[i].id # r.id}}
               \cup {Row(r)}
<1> DEFINE longer == Append(versions, r)
           n == Len(versions) + 1
           kept == {k \in CurrentPlaces(versions) : versions[k].id # r.id}
<1>1. /\ \A i \in 1..Len(versions) : longer[i] = versions[i]
      /\ longer[n] = r
      /\ CurrentPlaces(longer) = kept \cup {n}
  BY Appended, CurrentAfterAppend
<1>2. \A k \in kept : longer[k] = versions[k]
  BY <1>1, LogProperties DEF CurrentPlaces
<1> HIDE DEF longer, n, kept
<1>3. Rows(longer) = {Row(versions[k]) : k \in kept} \cup {Row(r)}
  BY <1>1, <1>2 DEF Rows
<1> QED
  BY <1>3 DEF longer, kept

(* An id that is new adds its row to the life.                             *)
LEMMA RowsAfterCreation ==
    ASSUME NEW versions, IsLog(versions), NEW r, IsSnapshot(r),
           \A i \in DOMAIN versions : versions[i].id # r.id
    PROVE  Rows(Append(versions, r)) = Rows(versions) \cup {Row(r)}
<1> DEFINE kept == {i \in CurrentPlaces(versions) : versions[i].id # r.id}
<1>1. kept = CurrentPlaces(versions)
  BY DEF CurrentPlaces
<1>2. Rows(Append(versions, r)) = {Row(versions[k]) : k \in kept} \cup {Row(r)}
  BY RowsAfterAppend
<1> HIDE DEF kept
<1> QED
  BY <1>1, <1>2 DEF Rows

(* A new version of a current snapshot takes the place of its row.         *)
LEMMA RowsAfterUpdate ==
    ASSUME NEW versions, IsLog(versions), NEW r, IsSnapshot(r),
           NEW i \in CurrentPlaces(versions), r.id = versions[i].id
    PROVE  Rows(Append(versions, r)) = (Rows(versions) \ {Row(versions[i])}) \cup {Row(r)}
<1> DEFINE kept == {k \in CurrentPlaces(versions) : versions[k].id # r.id}
<1>1. \A k \in CurrentPlaces(versions) : k \in kept <=> Row(versions[k]) # Row(versions[i])
  <2>1. ASSUME NEW k \in CurrentPlaces(versions), k \in kept
        PROVE  Row(versions[k]) # Row(versions[i])
    BY <2>1 DEF Row
  <2>2. ASSUME NEW k \in CurrentPlaces(versions), k \notin kept
        PROVE  Row(versions[k]) = Row(versions[i])
    BY <2>2, OneCurrentPlace
  <2> QED
    BY <2>1, <2>2
<1>2. {Row(versions[k]) : k \in kept} = Rows(versions) \ {Row(versions[i])}
  <2> HIDE DEF kept
  <2>1. kept \subseteq CurrentPlaces(versions)
    BY DEF kept
  <2>2. ASSUME NEW x \in Rows(versions) \ {Row(versions[i])}
        PROVE  \E k \in kept : x = Row(versions[k])
    BY <1>1 DEF Rows
  <2> QED
    BY <1>1, <2>1, <2>2 DEF Rows
<1> QED
  BY <1>2, RowsAfterAppend

-----------------------------------------------------------------------------
(***************************************************************************)
(* What one call of the store makes of its log.                            *)
(***************************************************************************)
Creates(versions, after) ==
    \E r : /\ after = Append(versions, r)
           /\ IsSnapshot(r) /\ r.id = Len(versions) + 1
           /\ r.status = "proposed" /\ r.approvedBy = NoApprover
           /\ \A i \in DOMAIN versions : versions[i].id # r.id

(* The edges of the life cycle: what a new version may say of its status   *)
(* and its approver.                                                       *)
Edge(old, new) ==
    \/ new.status = old.status /\ new.approvedBy = old.approvedBy
    \/ old.status = "proposed" /\ new.status = "active" /\ new.approvedBy \in Approvers
    \/ old.status = "proposed" /\ new.status = "rejected" /\ new.approvedBy = old.approvedBy
    \/ old.status = "active" /\ new.status = "retired" /\ new.approvedBy = old.approvedBy

Updates(versions, after) ==
    \E i \in CurrentPlaces(versions) : \E r :
        /\ after = Append(versions, r)
        /\ IsSnapshot(r) /\ r.id = versions[i].id
        /\ Edge(versions[i], r)

LEMMA CreateCreates ==
    ASSUME NEW draft
    PROVE  Create(log, draft, NewId) = log \/ Creates(log, Create(log, draft, NewId))
<1> DEFINE r == Created(draft, NewId)
<1>1. /\ IsSnapshot(r) /\ r.id = Len(log) + 1
      /\ r.status = "proposed" /\ r.approvedBy = NoApprover
  BY CreatedIsSnapshot DEF NewId
<1>2. CASE \E i \in DOMAIN log : log[i].id = NewId
  BY <1>2 DEF Create
<1>3. CASE \A i \in DOMAIN log : log[i].id # NewId
  <2>1. Create(log, draft, NewId) \in {log, Append(log, r)}
    BY <1>3 DEF Create, AppendVersion
  <2>2. \A i \in DOMAIN log : log[i].id # r.id
    BY <1>1, <1>3 DEF NewId
  <2> HIDE DEF r
  <2> QED
    BY <1>1, <2>1, <2>2 DEF Creates
<1> QED
  BY <1>2, <1>3

LEMMA DecisionsUpdate ==
    ASSUME IsLog(log), NEW i \in DOMAIN log, IsCurrent(log, i)
    PROVE  /\ \A by \in Approvers : Approve(log, i, by) = log \/ Updates(log, Approve(log, i, by))
           /\ Reject(log, i) = log \/ Updates(log, Reject(log, i))
           /\ Retire(log, i) = log \/ Updates(log, Retire(log, i))
           /\ \A changes \in Amendments :
                 Amend(log, i, changes) = log \/ Updates(log, Amend(log, i, changes))
<1>1. i \in CurrentPlaces(log) /\ IsSnapshot(log[i])
  BY LogProperties DEF IsLog, CurrentPlaces
<1>2. ASSUME NEW r, IsSnapshot(r), r.id = log[i].id, Edge(log[i], r)
      PROVE  AppendVersion(log, r) = log \/ Updates(log, AppendVersion(log, r))
  <2>1. CASE Valid(r)
    <3>1. AppendVersion(log, r) = Append(log, r)
      BY <2>1 DEF AppendVersion
    <3>2. Updates(log, Append(log, r))
      BY <1>1, <1>2 DEF Updates
    <3> QED
      BY <3>1, <3>2
  <2>2. CASE ~Valid(r)
    BY <2>2 DEF AppendVersion
  <2> QED
    BY <2>1, <2>2
<1>3. ASSUME NEW by \in Approvers
      PROVE  Approve(log, i, by) = log \/ Updates(log, Approve(log, i, by))
  <2> DEFINE r == [log[i] EXCEPT !.status = "active", !.approvedBy = by]
  <2>1. /\ IsSnapshot(r) /\ r.id = log[i].id
        /\ r.status = "active" /\ r.approvedBy = by
    BY <1>1 DEF IsSnapshot, Fields, Statuses
  <2>2. CASE log[i].status = "proposed"
    <3>1. Approve(log, i, by) = AppendVersion(log, r)
      BY <2>2 DEF Approve
    <3> HIDE DEF r
    <3>2. Edge(log[i], r)
      BY <2>1, <2>2 DEF Edge
    <3> QED
      BY <1>2, <2>1, <3>1, <3>2
  <2>3. CASE log[i].status # "proposed"
    BY <2>3 DEF Approve
  <2> QED
    BY <2>2, <2>3
<1>4. Reject(log, i) = log \/ Updates(log, Reject(log, i))
  <2> DEFINE r == [log[i] EXCEPT !.status = "rejected"]
  <2>1. /\ IsSnapshot(r) /\ r.id = log[i].id
        /\ r.status = "rejected" /\ r.approvedBy = log[i].approvedBy
    BY <1>1, TransitionIsSnapshot DEF Statuses
  <2>2. CASE log[i].status = "proposed"
    <3>1. Reject(log, i) = AppendVersion(log, r)
      BY <2>2 DEF Reject
    <3> HIDE DEF r
    <3>2. Edge(log[i], r)
      BY <2>1, <2>2 DEF Edge
    <3> QED
      BY <1>2, <2>1, <3>1, <3>2
  <2>3. CASE log[i].status # "proposed"
    BY <2>3 DEF Reject
  <2> QED
    BY <2>2, <2>3
<1>5. Retire(log, i) = log \/ Updates(log, Retire(log, i))
  <2> DEFINE r == [log[i] EXCEPT !.status = "retired"]
  <2>1. /\ IsSnapshot(r) /\ r.id = log[i].id
        /\ r.status = "retired" /\ r.approvedBy = log[i].approvedBy
    BY <1>1, TransitionIsSnapshot DEF Statuses
  <2>2. CASE log[i].status = "active"
    <3>1. Retire(log, i) = AppendVersion(log, r)
      BY <2>2 DEF Retire
    <3> HIDE DEF r
    <3>2. Edge(log[i], r)
      BY <2>1, <2>2 DEF Edge
    <3> QED
      BY <1>2, <2>1, <3>1, <3>2
  <2>3. CASE log[i].status # "active"
    BY <2>3 DEF Retire
  <2> QED
    BY <2>2, <2>3
<1>6. ASSUME NEW changes \in Amendments
      PROVE  Amend(log, i, changes) = log \/ Updates(log, Amend(log, i, changes))
  <2> DEFINE r == Amended(log[i], changes)
  <2>1. /\ IsSnapshot(r) /\ r.id = log[i].id
        /\ r.status = log[i].status /\ r.approvedBy = log[i].approvedBy
    BY <1>1, AmendedIsSnapshot
  <2>2. Amend(log, i, changes) \in {log, AppendVersion(log, r)}
    BY DEF Amend
  <2> HIDE DEF r
  <2>3. Edge(log[i], r)
    BY <2>1 DEF Edge
  <2> QED
    BY <1>2, <2>1, <2>2, <2>3
<1> QED
  BY <1>3, <1>4, <1>5, <1>6

(* Every step leaves the log alone, or is one call of the store on it.     *)
LEMMA StepsOfTheLog ==
    ASSUME IsLog(log), [Next]_vars
    PROVE  \/ log' = log
           \/ Len(log) < MaxVersions /\ (Creates(log, log') \/ Updates(log, log'))
<1>1. CASE StageProposal
  BY <1>1, CreateCreates DEF StageProposal
<1>2. CASE CreateRequirement
  BY <1>2, CreateCreates DEF CreateRequirement, Store
<1>3. CASE Decide
  <2>1. PICK i \in DOMAIN log :
          IsCurrent(log, i) /\
              \/ \E by \in Approvers : Store(Approve(log, i, by))
              \/ Store(Reject(log, i))
              \/ Store(Retire(log, i))
              \/ \E changes \in Amendments : Store(Amend(log, i, changes))
    BY <1>3 DEF Decide
  <2> QED
    BY <2>1, DecisionsUpdate DEF Store
<1>4. CASE UNCHANGED vars
  BY <1>4 DEF vars
<1>5. CASE Propose \/ CorrectCase \/ StartFiling \/ CreateIssue \/ FilingDone
  BY <1>5 DEF Propose, CorrectCase, StartFiling, CreateIssue, FilingDone
<1>6. ASSUME NEW g \in 1..MaxReports, Report(g)
      PROVE  log' = log
  BY <1>6 DEF Report, StartReport, ReadLiveCases, Dedupe, OpenCase, AnswerReport
<1> QED
  BY <1>1, <1>2, <1>3, <1>4, <1>5, <1>6 DEF Next

LEMMA LogInitially ==
    ASSUME Init
    PROVE  IsLog(log)
<1>1. log \in Seq({})
  BY DEF Init
<1> QED
  BY <1>1 DEF Init, IsLog

LEMMA LogStays ==
    ASSUME IsLog(log), [Next]_vars
    PROVE  IsLog(log')
<1>1. CASE log' = log
  BY <1>1
<1>2. ASSUME NEW r, IsSnapshot(r), log' = Append(log, r)
      PROVE  IsLog(log')
  BY <1>2, Appended
<1> QED
  BY <1>1, <1>2, StepsOfTheLog DEF Creates, Updates

-----------------------------------------------------------------------------
(* A new snapshot that is created proposes a requirement nobody knew.      *)
LEMMA CreationProposes ==
    ASSUME IsLog(log), Len(log) < MaxVersions, Creates(log, log')
    PROVE  \E id \in 1..MaxVersions : Lifecycle!Propose(id)
<1>1. PICK r : /\ log' = Append(log, r)
               /\ IsSnapshot(r) /\ r.id = Len(log) + 1
               /\ r.status = "proposed" /\ r.approvedBy = NoApprover
               /\ \A i \in DOMAIN log : log[i].id # r.id
  BY DEF Creates
<1>2. Len(log) \in Nat /\ MaxVersions \in Nat
  BY LogProperties, GovernanceAssumptions
<1>3. r.id \in 1..MaxVersions
  BY <1>1, <1>2
<1>4. Life' = Life \cup {Row(r)}
  <2>1. Rows(log') = Rows(log) \cup {Row(r)}
    BY <1>1, RowsAfterCreation
  <2>2. Life' = Rows(log')
    BY DEF Life, Rows, CurrentPlaces, Row
  <2> QED
    BY <2>1, <2>2, LifeIsRows
<1>5. ~Lifecycle!Known(r.id)
  <2>1. \A x \in Rows(log) : x.id # r.id
    BY <1>1 DEF Rows, CurrentPlaces, Row
  <2> QED
    BY <2>1, LifeIsRows DEF Lifecycle!Known
<1>6. Row(r) = [id |-> r.id, status |-> "proposed", approver |-> NoApprover]
  BY <1>1 DEF Row
<1> QED
  BY <1>3, <1>4, <1>5, <1>6 DEF Lifecycle!Propose

(* A new version of a requirement is a step of its life, or none.          *)
LEMMA UpdateIsAStep ==
    ASSUME IsLog(log), Updates(log, log')
    PROVE  \/ Life' = Life
           \/ \E x \in Life : (\E by \in Approvers : Lifecycle!Approve(x, by))
                              \/ Lifecycle!Reject(x) \/ Lifecycle!Retire(x)
<1>a. PICK i \in CurrentPlaces(log) : \E r :
          /\ log' = Append(log, r)
          /\ IsSnapshot(r) /\ r.id = log[i].id
          /\ Edge(log[i], r)
  BY DEF Updates
<1>1. PICK r : /\ log' = Append(log, r)
               /\ IsSnapshot(r) /\ r.id = log[i].id
               /\ Edge(log[i], r)
  BY <1>a
<1> DEFINE old == Row(log[i])
           new == Row(r)
<1>2. old \in Life
  BY LifeIsRows DEF Rows
<1>3. Life' = (Life \ {old}) \cup {new}
  <2>1. Rows(log') = (Rows(log) \ {old}) \cup {new}
    BY <1>1, RowsAfterUpdate
  <2>2. Life' = Rows(log')
    BY DEF Life, Rows, CurrentPlaces, Row
  <2> QED
    BY <2>1, <2>2, LifeIsRows
<1>4. /\ old = [id |-> log[i].id, status |-> log[i].status, approver |-> log[i].approvedBy]
      /\ old.status = log[i].status /\ old.approver = log[i].approvedBy
  BY DEF Row
<1>5. new = [id |-> log[i].id, status |-> r.status, approver |-> r.approvedBy]
  BY <1>1 DEF Row
<1> HIDE DEF old, new
<1>b. new = [old EXCEPT !.status = r.status, !.approver = r.approvedBy]
  <2> DEFINE moved == [old EXCEPT !.status = r.status, !.approver = r.approvedBy]
  <2>1. moved = [f \in {"id", "status", "approver"} |-> moved[f]]
    BY <1>4
  <2>2. moved.id = log[i].id /\ moved.status = r.status /\ moved.approver = r.approvedBy
    BY <1>4
  <2> HIDE DEF moved
  <2>3. new = moved
    BY <1>5, <2>1, <2>2
  <2> QED
    BY <2>3 DEF moved
<1>6. CASE r.status = log[i].status /\ r.approvedBy = log[i].approvedBy
  <2>1. new = old
    BY <1>1, <1>6 DEF old, new, Row
  <2> QED
    BY <1>2, <1>3, <2>1
<1>7. CASE log[i].status = "proposed" /\ r.status = "active" /\ r.approvedBy \in Approvers
  <2>1. Lifecycle!Approve(old, r.approvedBy)
    BY <1>3, <1>4, <1>b, <1>7 DEF Lifecycle!Approve, Lifecycle!Step
  <2> QED
    BY <1>2, <1>7, <2>1
<1>8. CASE log[i].status = "proposed" /\ r.status = "rejected" /\ r.approvedBy = log[i].approvedBy
  <2>1. Lifecycle!Reject(old)
    BY <1>3, <1>4, <1>b, <1>8 DEF Lifecycle!Reject, Lifecycle!Step
  <2> QED
    BY <1>2, <2>1
<1>9. CASE log[i].status = "active" /\ r.status = "retired" /\ r.approvedBy = log[i].approvedBy
  <2>1. Lifecycle!Retire(old)
    BY <1>3, <1>4, <1>b, <1>9 DEF Lifecycle!Retire, Lifecycle!Step
  <2> QED
    BY <1>2, <2>1
<1> QED
  BY <1>1, <1>6, <1>7, <1>8, <1>9 DEF Edge

LEMMA StepsRefine ==
    ASSUME IsLog(log), [Next]_vars
    PROVE  [Lifecycle!Next]_Life
<1>1. CASE log' = log
  BY <1>1 DEF Life, IsCurrent
<1>2. CASE Len(log) < MaxVersions /\ Creates(log, log')
  BY <1>2, CreationProposes DEF Lifecycle!Next
<1>3. CASE Updates(log, log')
  BY <1>3, UpdateIsAStep DEF Lifecycle!Next
<1> QED
  BY <1>1, <1>2, <1>3, StepsOfTheLog

(* The store implements the life cycle: whatever is staged, entered,       *)
(* amended and decided, in whatever order, a requirement is proposed once, *)
(* decided once, and keeps the approver of that decision (RequirementStore *)
(* in packages/integrations/requirement-store).                            *)
THEOREM StoreRefinesLifecycle == Spec => RefinesLifecycle
<1>1. Init => Lifecycle!Init
  <2>1. ASSUME Init PROVE Life = {}
    BY <2>1 DEF Init, Life
  <2> QED
    BY <2>1 DEF Lifecycle!Init
<1>2. Init => IsLog(log)
  BY LogInitially
<1>3. IsLog(log) /\ [Next]_vars => IsLog(log)'
  BY LogStays DEF IsLog, IsSnapshot
<1>4. IsLog(log) /\ [Next]_vars => [Lifecycle!Next]_Life
  BY StepsRefine
<1> QED
  BY <1>1, <1>2, <1>3, <1>4, PTL DEF Spec, RefinesLifecycle, Lifecycle!Spec

-----------------------------------------------------------------------------
(***************************************************************************)
(* Reports and cases.  What a report must know while it runs: the cases it *)
(* has opened, and those that were there when it read their deal.          *)
(***************************************************************************)
ReportFields == {"pc", "seen", "requirements", "report", "todo", "index"}

CaseFields == {"id", "deal", "requirement", "missedRequirement", "evidenceIds", "category",
               "status", "run", "seen"}

IsReport(x) ==
    /\ x = [f \in ReportFields |-> x[f]]
    /\ x.pc \in {"idle", "grading", "failed", "answered"}

IsCase(c, i) ==
    /\ c = [f \in CaseFields |-> c[f]]
    /\ c.id = i
    /\ c.status \in {"open", "corrected"}

IsCases(cs) ==
    /\ \E S : cs \in Seq(S)
    /\ \A i \in 1..Len(cs) : IsCase(cs[i], i)

Indexed(x, c) == \E entry \in x.index : entry.deal = c.deal /\ entry.text = c.missedRequirement

KnowsItsCases(x, g, cs) ==
    /\ x.pc = "idle" => \A i \in 1..Len(cs) : cs[i].run # g
    /\ x.pc = "grading" =>
          /\ \A d \in DOMAIN x.seen : x.seen[d] \in 0..Len(cs)
          /\ \A i \in 1..Len(cs) :
                \/ cs[i].run = g
                \/ cs[i].deal \in DOMAIN x.seen /\ i <= x.seen[cs[i].deal]
                => Indexed(x, cs[i])

Overlapping(cs) ==
    \A i, j \in 1..Len(cs) :
        /\ i < j
        /\ cs[i].deal = cs[j].deal
        /\ cs[i].missedRequirement = cs[j].missedRequirement
        => cs[i].run # cs[j].run /\ cs[j].seen < i

Graders(gs) ==
    /\ gs = [g \in 1..MaxReports |-> gs[g]]
    /\ \A g \in 1..MaxReports : IsReport(gs[g])

(* The inductive invariant: without what reports know of the cases, nothing *)
(* keeps one that runs from opening a case that is there.                  *)
GovernanceInv ==
    /\ IsCases(cases)
    /\ Graders(grader)
    /\ \A g \in 1..MaxReports : KnowsItsCases(grader[g], g, cases)
    /\ Overlapping(cases)

LEMMA CasesProperties ==
    ASSUME NEW cs, IsCases(cs)
    PROVE  Len(cs) \in Nat /\ DOMAIN cs = 1..Len(cs)
BY LenProperties DEF IsCases

LEMMA CaseAppended ==
    ASSUME NEW cs, IsCases(cs), NEW c, IsCase(c, Len(cs) + 1)
    PROVE  LET longer == Append(cs, c) IN
           /\ IsCases(longer)
           /\ Len(longer) = Len(cs) + 1
           /\ \A i \in 1..Len(cs) : longer[i] = cs[i]
           /\ longer[Len(cs) + 1] = c
<1> DEFINE longer == Append(cs, c)
<1>1. PICK S : cs \in Seq(S)
  BY DEF IsCases
<1>2. cs \in Seq(S \cup {c}) /\ c \in S \cup {c}
  BY <1>1, SeqMonotonic
<1>3. longer \in Seq(S \cup {c})
  BY <1>2
<1>4. /\ Len(longer) = Len(cs) + 1
      /\ \A i \in 1..Len(cs) : longer[i] = cs[i]
      /\ longer[Len(cs) + 1] = c
  BY <1>2
<1>5. \A i \in 1..Len(longer) : IsCase(longer[i], i)
  <2> HIDE DEF longer
  <2> QED
    BY <1>4, CasesProperties DEF IsCases
<1> QED
  BY <1>3, <1>4, <1>5 DEF IsCases

(* The case that a report opens does not concern what another one knows.   *)
LEMMA OthersStillKnow ==
    ASSUME NEW cs, IsCases(cs), NEW c, IsCase(c, Len(cs) + 1),
           NEW x, NEW h, c.run # h, KnowsItsCases(x, h, cs)
    PROVE  KnowsItsCases(x, h, Append(cs, c))
<1> DEFINE longer == Append(cs, c)
<1>1. /\ Len(longer) = Len(cs) + 1
      /\ \A i \in 1..Len(cs) : longer[i] = cs[i]
      /\ longer[Len(cs) + 1] = c
      /\ Len(cs) \in Nat
  BY CaseAppended, CasesProperties
<1> HIDE DEF longer
<1>2. x.pc = "idle" => \A i \in 1..Len(longer) : longer[i].run # h
  BY <1>1 DEF KnowsItsCases
<1>3. ASSUME x.pc = "grading"
      PROVE  \A d \in DOMAIN x.seen : x.seen[d] \in 0..Len(longer)
  BY <1>1, <1>3 DEF KnowsItsCases
<1>4. ASSUME x.pc = "grading", NEW i \in 1..Len(longer),
             \/ longer[i].run = h
             \/ longer[i].deal \in DOMAIN x.seen /\ i <= x.seen[longer[i].deal]
      PROVE  Indexed(x, longer[i])
  <2>1. i \in 1..Len(cs)
    <3>1. CASE i = Len(cs) + 1
      <4>1. longer[i].run # h
        BY <1>1, <3>1
      <4>2. longer[i].deal \in DOMAIN x.seen /\ i <= x.seen[longer[i].deal]
        BY <1>4, <4>1
      <4>3. x.seen[longer[i].deal] \in 0..Len(cs)
        BY <1>4, <4>2 DEF KnowsItsCases
      <4> QED
        BY <1>1, <3>1, <4>2, <4>3
    <3> QED
      BY <1>1, <3>1
  <2> QED
    BY <1>1, <1>4, <2>1 DEF KnowsItsCases
<1>5. KnowsItsCases(x, h, longer)
  BY <1>2, <1>3, <1>4 DEF KnowsItsCases
<1> QED
  BY <1>5 DEF longer

(* The live cases of a deal that a report reads name the statement of      *)
(* every case of the deal: no status takes a case out of that list.        *)
LEMMA LiveCasesNameAll ==
    ASSUME IsCases(cases), NEW i \in 1..Len(cases)
    PROVE  \E entry \in LiveCases(cases[i].deal) :
              entry.deal = cases[i].deal /\ entry.text = cases[i].missedRequirement
<1> DEFINE deal == cases[i].deal
           Live(k) == cases[k].deal = deal /\ cases[k].status \in ActiveCaseStatuses
           T == {k \in 1..Len(cases) :
                    Live(k) /\ cases[k].missedRequirement = cases[i].missedRequirement}
<1>1. Len(cases) \in Nat /\ DOMAIN cases = 1..Len(cases)
  BY CasesProperties
<1>2. i \in T
  BY DEF IsCases, IsCase, ActiveCaseStatuses
<1>3. T \in SUBSET Nat
  BY <1>1
<1>4. PICK m \in T : \A n \in T : m <= n
  <2> HIDE DEF T
  <2> QED
    BY <1>2, <1>3, LeastElement
<1>5. m \in DOMAIN cases /\ Live(m) /\ cases[m].missedRequirement = cases[i].missedRequirement
  BY <1>1, <1>4
<1>6. ASSUME NEW j \in 1..(m - 1), Live(j)
      PROVE  cases[j].missedRequirement # cases[m].missedRequirement
  <2>1. j \in 1..Len(cases) /\ j < m
    BY <1>1, <1>5
  <2>2. j \notin T
    BY <1>1, <1>3, <1>4, <2>1
  <2> QED
    BY <1>5, <1>6, <2>1, <2>2
<1> DEFINE entry == [deal |-> deal, text |-> cases[m].missedRequirement, case |-> cases[m].id]
<1>7. entry \in LiveCases(deal)
  BY <1>5, <1>6 DEF LiveCases
<1> QED
  BY <1>5, <1>7

LEMMA NotGradingIsReport ==
    /\ IsReport(NotGrading)
    /\ IsReport([NotGrading EXCEPT !.pc = "failed"])
    /\ [NotGrading EXCEPT !.pc = "failed"].pc = "failed"
    /\ IsReport([NotGrading EXCEPT !.pc = "answered"])
    /\ [NotGrading EXCEPT !.pc = "answered"].pc = "answered"
BY DEF NotGrading, IsReport, ReportFields

LEMMA GovernanceInvInitially ==
    ASSUME Init
    PROVE  GovernanceInv
<1>1. /\ cases \in Seq({}) /\ cases = <<>> /\ Len(cases) = 0
      /\ grader = [g \in 1..MaxReports |-> NotGrading]
  BY DEF Init
<1>2. IsCases(cases) /\ Overlapping(cases)
  BY <1>1 DEF IsCases, Overlapping
<1>3. Graders(grader)
  BY <1>1, NotGradingIsReport DEF Graders
<1>4. \A g \in 1..MaxReports : KnowsItsCases(grader[g], g, cases)
  BY <1>1 DEF KnowsItsCases, NotGrading
<1> QED
  BY <1>2, <1>3, <1>4 DEF GovernanceInv

(* A step of a report that opens no case: what it knows afterwards is all  *)
(* there is to show.                                                       *)
LEMMA ReportMoves ==
    ASSUME GovernanceInv, NEW g \in 1..MaxReports, NEW x, IsReport(x),
           grader' = [grader EXCEPT ![g] = x], cases' = cases,
           KnowsItsCases(x, g, cases)
    PROVE  GovernanceInv'
<1>1. Graders(grader')
  BY DEF GovernanceInv, Graders
<1>2. ASSUME NEW h \in 1..MaxReports
      PROVE  KnowsItsCases(grader'[h], h, cases')
  <2>1. grader'[h] = IF h = g THEN x ELSE grader[h]
    BY DEF GovernanceInv, Graders
  <2> QED
    BY <2>1 DEF GovernanceInv
<1>3. IsCases(cases') /\ Overlapping(cases')
  BY DEF GovernanceInv
<1> QED
  BY <1>1, <1>2, <1>3 DEF GovernanceInv, Graders, KnowsItsCases, Overlapping, IsCases, Indexed, IsReport, IsCase

LEMMA StartReportKeeps ==
    ASSUME GovernanceInv, NEW g \in 1..MaxReports, StartReport(g)
    PROVE  GovernanceInv'
<1>1. PICK subject \in Subjects :
          LET findings == CaseOpeningFindings(Currents(log), subject) IN
          grader' = [grader EXCEPT ![g] =
                        [NotGrading EXCEPT !.pc = "grading", !.requirements = Currents(log),
                                           !.report = findings, !.todo = findings]]
  BY DEF StartReport
<1> DEFINE findings == CaseOpeningFindings(Currents(log), subject)
           x == [NotGrading EXCEPT !.pc = "grading", !.requirements = Currents(log),
                                   !.report = findings, !.todo = findings]
<1> HIDE DEF findings
<1>2. /\ IsReport(x)
      /\ x.pc = "grading" /\ DOMAIN x.seen = {}
  BY DEF NotGrading, IsReport, ReportFields
<1>3. grader' = [grader EXCEPT ![g] = x] /\ cases' = cases
  BY <1>1 DEF StartReport, findings
<1> HIDE DEF x
<1>4. KnowsItsCases(x, g, cases)
  <2>1. grader[g].pc = "idle"
    BY DEF StartReport
  <2>2. \A i \in 1..Len(cases) : cases[i].run # g
    BY <2>1 DEF GovernanceInv, KnowsItsCases
  <2> QED
    BY <1>2, <2>2 DEF KnowsItsCases
<1> QED
  BY <1>2, <1>3, <1>4, ReportMoves

LEMMA ReadLiveCasesKeeps ==
    ASSUME GovernanceInv, NEW g \in 1..MaxReports, ReadLiveCases(g)
    PROVE  GovernanceInv'
<1> DEFINE old == grader[g]
           deal == Concerned(g).deal
           seen == [d \in (DOMAIN old.seen) \cup {deal} |-> IF d = deal THEN Len(cases) ELSE old.seen[d]]
           index == old.index \cup LiveCases(deal)
           x == [old EXCEPT !.seen = seen, !.index = index]
<1>1. /\ old.pc = "grading" /\ cases' = cases
      /\ deal \notin DOMAIN old.seen
  BY DEF ReadLiveCases, Grading
<1>2. IsReport(old) /\ KnowsItsCases(old, g, cases)
  BY DEF GovernanceInv, Graders
<1>3. grader' = [grader EXCEPT ![g] = x]
  <2>1. grader' = [grader EXCEPT
                 ![g].seen = [d \in (DOMAIN @) \cup {deal} |-> IF d = deal THEN Len(cases) ELSE @[d]],
                 ![g].index = @ \cup LiveCases(deal)]
    BY DEF ReadLiveCases
  <2> QED
    BY <2>1 DEF GovernanceInv, Graders
<1>4. /\ IsReport(x)
      /\ x.pc = "grading" /\ x.seen = seen /\ x.index = index
  <2> HIDE DEF seen, index, old
  <2> QED
    BY <1>1, <1>2 DEF IsReport, ReportFields
<1> HIDE DEF x
<1>5. Len(cases) \in Nat
  BY CasesProperties DEF GovernanceInv
<1>6. \A d \in DOMAIN x.seen : x.seen[d] \in 0..Len(cases)
  BY <1>1, <1>2, <1>4, <1>5 DEF KnowsItsCases
<1>7. ASSUME NEW i \in 1..Len(cases),
             cases[i].run = g \/ (cases[i].deal \in DOMAIN x.seen /\ i <= x.seen[cases[i].deal])
      PROVE  Indexed(x, cases[i])
  <2>1. CASE cases[i].deal = deal
    <3>1. PICK entry \in LiveCases(cases[i].deal) :
              entry.deal = cases[i].deal /\ entry.text = cases[i].missedRequirement
      BY LiveCasesNameAll DEF GovernanceInv
    <3>2. entry \in x.index
      BY <1>4, <2>1, <3>1
    <3> QED
      BY <3>1, <3>2 DEF Indexed
  <2>2. CASE cases[i].deal # deal
    <3>1. cases[i].run = g \/ (cases[i].deal \in DOMAIN old.seen /\ i <= old.seen[cases[i].deal])
      BY <1>4, <1>7, <2>2
    <3>2. Indexed(old, cases[i])
      BY <1>1, <1>2, <3>1 DEF KnowsItsCases
    <3> QED
      BY <1>4, <3>2 DEF Indexed
  <2> QED
    BY <2>1, <2>2
<1>8. KnowsItsCases(x, g, cases)
  BY <1>4, <1>6, <1>7 DEF KnowsItsCases
<1> QED
  BY <1>1, <1>3, <1>4, <1>8, ReportMoves

LEMMA DedupeKeeps ==
    ASSUME GovernanceInv, NEW g \in 1..MaxReports, Dedupe(g)
    PROVE  GovernanceInv'
<1> DEFINE old == grader[g]
           x == [old EXCEPT !.todo = Tail(old.todo)]
<1>1. IsReport(old) /\ KnowsItsCases(old, g, cases)
  BY DEF GovernanceInv, Graders
<1>2. grader' = [grader EXCEPT ![g] = x] /\ cases' = cases
  BY DEF Dedupe, GovernanceInv, Graders
<1>3. /\ IsReport(x)
      /\ x.pc = old.pc /\ x.seen = old.seen /\ x.index = old.index
  <2> HIDE DEF old
  <2> QED
    BY <1>1 DEF IsReport, ReportFields
<1> HIDE DEF x
<1>4. KnowsItsCases(x, g, cases)
  BY <1>1, <1>3 DEF KnowsItsCases, Indexed
<1> QED
  BY <1>2, <1>3, <1>4, ReportMoves

LEMMA AnswerReportKeeps ==
    ASSUME GovernanceInv, NEW g \in 1..MaxReports, AnswerReport(g)
    PROVE  GovernanceInv'
<1> DEFINE x == [NotGrading EXCEPT !.pc = "answered"]
<1>1. IsReport(x) /\ x.pc = "answered"
  BY NotGradingIsReport
<1>2. grader' = [grader EXCEPT ![g] = x] /\ cases' = cases
  BY DEF AnswerReport
<1> HIDE DEF x
<1>3. KnowsItsCases(x, g, cases)
  BY <1>1 DEF KnowsItsCases
<1> QED
  BY <1>1, <1>2, <1>3, ReportMoves

(* The new case is no duplicate of one that its report knew of.            *)
LEMMA OpenCaseKeeps ==
    ASSUME GovernanceInv, NEW g \in 1..MaxReports, OpenCase(g)
    PROVE  GovernanceInv'
<1> DEFINE old == grader[g]
           r == Concerned(g)
           c == GovernanceCaseForFinding(g, r, Head(old.todo))
           n == Len(cases) + 1
           longer == Append(cases, c)
           failed == [NotGrading EXCEPT !.pc = "failed"]
           recorded == [old EXCEPT !.todo = Tail(old.todo), !.index = Recorded(g, r)]
<1>1. /\ old.pc = "grading" /\ r.deal \in DOMAIN old.seen
      /\ ~Known(g, r)
  BY DEF OpenCase, Grading
<1>2. /\ IsReport(old) /\ KnowsItsCases(old, g, cases)
      /\ IsCases(cases) /\ Len(cases) \in Nat
      /\ Overlapping(cases)
  BY CasesProperties DEF GovernanceInv, Graders
<1>3. \/ cases' = longer /\ grader' = [grader EXCEPT ![g] = recorded]
      \/ cases' \in {cases, longer} /\ grader' = [grader EXCEPT ![g] = failed]
  BY DEF OpenCase, GovernanceInv, Graders
<1>4. /\ IsCase(c, n)
      /\ c.run = g /\ c.deal = r.deal /\ c.missedRequirement = r.text
      /\ c.seen = old.seen[r.deal]
  BY DEF GovernanceCaseForFinding, IsCase, CaseFields
<1>5. /\ IsReport(recorded)
      /\ recorded.pc = "grading" /\ recorded.seen = old.seen
      /\ recorded.index = Recorded(g, r)
  <2> HIDE DEF old, r
  <2> QED
    BY <1>1, <1>2 DEF IsReport, ReportFields
<1>6. IsReport(failed) /\ failed.pc = "failed"
  BY NotGradingIsReport
<1> HIDE DEF c, recorded, failed
<1>7. /\ IsCases(longer)
      /\ Len(longer) = n
      /\ \A i \in 1..Len(cases) : longer[i] = cases[i]
      /\ longer[n] = c
  BY <1>2, <1>4, CaseAppended
<1> HIDE DEF longer
<1>8. Overlapping(longer)
  <2> SUFFICES ASSUME NEW i \in 1..n, NEW j \in 1..n, i < j,
                      longer[i].deal = longer[j].deal,
                      longer[i].missedRequirement = longer[j].missedRequirement
               PROVE  longer[i].run # longer[j].run /\ longer[j].seen < i
    BY <1>7 DEF Overlapping
  <2>1. i \in 1..Len(cases) /\ longer[i] = cases[i]
    BY <1>2, <1>7
  <2>2. CASE j = n
    <3>1. ~Indexed(old, cases[i])
      BY <1>1, <1>4, <1>7, <2>1, <2>2 DEF Known, Indexed
    <3>2. cases[i].deal = r.deal
      BY <1>4, <1>7, <2>1, <2>2
    <3>3. cases[i].run # g
      BY <1>1, <1>2, <2>1, <3>1 DEF KnowsItsCases
    <3>4. ~(i <= old.seen[r.deal])
      BY <1>1, <1>2, <2>1, <3>1, <3>2 DEF KnowsItsCases
    <3>5. old.seen[r.deal] \in Nat
      BY <1>1, <1>2 DEF KnowsItsCases
    <3> QED
      BY <1>4, <1>7, <2>1, <2>2, <3>3, <3>4, <3>5
  <2>3. CASE j # n
    <3>1. j \in 1..Len(cases) /\ longer[j] = cases[j]
      BY <1>2, <1>7, <2>3
    <3> QED
      BY <1>2, <2>1, <3>1 DEF Overlapping
  <2> QED
    BY <2>2, <2>3
<1>9. ASSUME NEW h \in 1..MaxReports, h # g
      PROVE  grader'[h] = grader[h] /\ KnowsItsCases(grader'[h], h, longer)
  <2>1. grader'[h] = grader[h]
    BY <1>3, <1>9 DEF GovernanceInv, Graders
  <2>2. KnowsItsCases(grader[h], h, cases)
    BY DEF GovernanceInv
  <2>3. KnowsItsCases(grader[h], h, longer)
    BY <1>2, <1>4, <1>9, <2>2, OthersStillKnow DEF longer
  <2> QED
    BY <2>1, <2>3
<1>10. KnowsItsCases(recorded, g, longer)
  <2>1. \A d \in DOMAIN recorded.seen : recorded.seen[d] \in 0..Len(longer)
    BY <1>1, <1>2, <1>5, <1>7 DEF KnowsItsCases
  <2>2. ASSUME NEW i \in 1..Len(longer),
               longer[i].run = g \/ (longer[i].deal \in DOMAIN recorded.seen
                                     /\ i <= recorded.seen[longer[i].deal])
        PROVE  Indexed(recorded, longer[i])
    <3>1. CASE i = n
      <4>1. [deal |-> r.deal, text |-> r.text, case |-> Len(cases) + 1] \in recorded.index
        BY <1>5 DEF Recorded
      <4> QED
        BY <1>4, <1>7, <3>1, <4>1 DEF Indexed
    <3>2. CASE i # n
      <4>1. i \in 1..Len(cases) /\ longer[i] = cases[i]
        BY <1>2, <1>7, <3>2
      <4>2. Indexed(old, cases[i])
        BY <1>1, <1>2, <1>5, <2>2, <4>1 DEF KnowsItsCases
      <4> QED
        BY <1>5, <4>1, <4>2 DEF Indexed, Recorded
    <3> QED
      BY <3>1, <3>2
  <2> QED
    BY <1>5, <2>1, <2>2 DEF KnowsItsCases
<1>11. Graders(grader')
  BY <1>3, <1>5, <1>6 DEF GovernanceInv, Graders
<1>12. CASE cases' = longer
  <2>1. ASSUME NEW h \in 1..MaxReports
        PROVE  KnowsItsCases(grader'[h], h, cases')
    <3>1. CASE h # g
      BY <1>9, <1>12, <3>1
    <3>2. CASE h = g /\ grader' = [grader EXCEPT ![g] = recorded]
      <4>1. grader'[h] = recorded
        BY <3>2 DEF GovernanceInv, Graders
      <4> QED
        BY <1>10, <1>12, <3>2, <4>1
    <3>3. CASE h = g /\ grader' = [grader EXCEPT ![g] = failed]
      <4>1. grader'[h] = failed
        BY <3>3 DEF GovernanceInv, Graders
      <4> QED
        BY <1>6, <4>1 DEF KnowsItsCases
    <3> QED
      BY <1>3, <3>1, <3>2, <3>3
  <2> QED
    BY <1>7, <1>8, <1>11, <1>12, <2>1
    DEF GovernanceInv, Graders, KnowsItsCases, Overlapping, IsCases, Indexed, IsReport, IsCase
<1>13. CASE cases' = cases /\ grader' = [grader EXCEPT ![g] = failed]
  <2>1. KnowsItsCases(failed, g, cases)
    BY <1>6 DEF KnowsItsCases
  <2> QED
    BY <1>6, <1>13, <2>1, ReportMoves
<1> QED
  BY <1>3, <1>12, <1>13

(* A correction changes the status of a case and nothing that counts here. *)
LEMMA CorrectCaseKeeps ==
    ASSUME GovernanceInv, CorrectCase
    PROVE  GovernanceInv'
<1>1. PICK i \in DOMAIN cases :
          cases[i].status = "open" /\ cases' = [cases EXCEPT ![i].status = "corrected"]
  BY DEF CorrectCase
<1> DEFINE corrected == [cases[i] EXCEPT !.status = "corrected"]
<1>2. /\ IsCases(cases) /\ Len(cases) \in Nat /\ DOMAIN cases = 1..Len(cases)
      /\ Overlapping(cases) /\ grader' = grader
  BY CasesProperties DEF GovernanceInv, CorrectCase
<1>3. IsCase(cases[i], i)
  BY <1>2 DEF IsCases
<1>4. /\ IsCase(corrected, i)
      /\ corrected.run = cases[i].run /\ corrected.deal = cases[i].deal
      /\ corrected.missedRequirement = cases[i].missedRequirement
      /\ corrected.seen = cases[i].seen
  BY <1>3 DEF IsCase, CaseFields
<1>5. cases' = [cases EXCEPT ![i] = corrected]
  BY <1>1
<1> HIDE DEF corrected
<1>6. PICK S : cases \in Seq(S)
  BY <1>2 DEF IsCases
<1>7. cases \in Seq(S \cup {corrected})
  BY <1>6, SeqMonotonic
<1>8. cases' \in Seq(S \cup {corrected}) /\ Len(cases') = Len(cases)
  BY <1>1, <1>5, <1>7, ExceptSeq
<1>9. \A k \in 1..Len(cases) : cases'[k] = IF k = i THEN corrected ELSE cases[k]
  BY <1>2, <1>5
<1>10. IsCases(cases')
  BY <1>2, <1>4, <1>8, <1>9 DEF IsCases
<1>11. \A k \in 1..Len(cases) :
          /\ cases'[k].run = cases[k].run /\ cases'[k].deal = cases[k].deal
          /\ cases'[k].missedRequirement = cases[k].missedRequirement
          /\ cases'[k].seen = cases[k].seen
  BY <1>4, <1>9
<1>12. Overlapping(cases')
  BY <1>2, <1>8, <1>11 DEF Overlapping
<1>13. ASSUME NEW h \in 1..MaxReports
       PROVE  KnowsItsCases(grader[h], h, cases')
  <2>1. KnowsItsCases(grader[h], h, cases)
    BY DEF GovernanceInv
  <2> QED
    BY <1>8, <1>11, <2>1 DEF KnowsItsCases, Indexed
<1> QED
  BY <1>2, <1>10, <1>12, <1>13
  DEF GovernanceInv, Graders, KnowsItsCases, Overlapping, IsCases, Indexed, IsReport, IsCase

LEMMA GovernanceInvStays ==
    ASSUME GovernanceInv, [Next]_vars
    PROVE  GovernanceInv'
<1>1. ASSUME NEW g \in 1..MaxReports, Report(g)
      PROVE  GovernanceInv'
  BY <1>1, StartReportKeeps, ReadLiveCasesKeeps, DedupeKeeps, OpenCaseKeeps, AnswerReportKeeps
  DEF Report
<1>2. CASE CorrectCase
  BY <1>2, CorrectCaseKeeps
<1>3. CASE UNCHANGED <<cases, grader>>
  BY <1>3 DEF GovernanceInv, Graders, KnowsItsCases, Overlapping, IsCases, Indexed, IsReport, IsCase
<1>4. CASE \/ Propose \/ StageProposal \/ CreateRequirement \/ Decide
           \/ StartFiling \/ CreateIssue \/ FilingDone \/ UNCHANGED vars
  <2>1. UNCHANGED <<cases, grader>>
    BY <1>4 DEF Propose, StageProposal, CreateRequirement, Decide, Store, StartFiling, CreateIssue,
                FilingDone, vars
  <2> QED
    BY <1>3, <2>1
<1> QED
  BY <1>1, <1>2, <1>4 DEF Next

(* A second live case for a statement comes only from a report that read   *)
(* the cases of the deal before the first was there: reports that do not   *)
(* overlap open none, whatever was amended, corrected, failed or retried   *)
(* in between (openCasesFromReport in packages/governance).                *)
THEOREM DuplicatesOverlap == Spec => []DuplicateCasesOverlap
<1>1. Init => GovernanceInv
  BY GovernanceInvInitially
<1>2. GovernanceInv /\ [Next]_vars => GovernanceInv'
  BY GovernanceInvStays
<1>3. GovernanceInv => DuplicateCasesOverlap
  <2>1. ASSUME GovernanceInv PROVE DOMAIN cases = 1..Len(cases)
    BY <2>1, CasesProperties DEF GovernanceInv
  <2> QED
    BY <2>1 DEF GovernanceInv, Overlapping, DuplicateCasesOverlap
<1> QED
  BY <1>1, <1>2, <1>3, PTL DEF Spec

-----------------------------------------------------------------------------
(***************************************************************************)
(* The tracker: an issue belongs to a filing that was requested.           *)
(***************************************************************************)
TrackerInv ==
    /\ failures \in 0..MaxFailures
    /\ \E S : filings \in Seq(S)
    /\ \E S : issues \in Seq(S)
    /\ \A n \in 1..Len(issues) : issues[n].filing \in 1..Len(filings)

LEMMA FilingsChange ==
    ASSUME NEW S, filings \in Seq(S), NEW y, NEW n \in 1..Len(filings),
           filings' = [filings EXCEPT ![n] = y]
    PROVE  (\E T : filings' \in Seq(T)) /\ Len(filings') = Len(filings)
<1>1. filings \in Seq(S \cup {y}) /\ y \in S \cup {y}
  BY SeqMonotonic
<1> QED
  BY <1>1, ExceptSeq

LEMMA TrackerInitially ==
    ASSUME Init
    PROVE  TrackerInv
<1>1. filings \in Seq({}) /\ issues \in Seq({}) /\ Len(issues) = 0
  BY DEF Init
<1>2. failures \in 0..MaxFailures
  BY GovernanceAssumptions DEF Init
<1> QED
  BY <1>1, <1>2 DEF TrackerInv

LEMMA TrackerStays ==
    ASSUME TrackerInv, [Next]_vars
    PROVE  TrackerInv'
<1>1. /\ MaxFailures \in Nat /\ failures \in 0..MaxFailures
      /\ \A n \in 1..Len(issues) : issues[n].filing \in 1..Len(filings)
  BY GovernanceAssumptions DEF TrackerInv
<1>2. PICK F : filings \in Seq(F)
  BY DEF TrackerInv
<1>3. PICK I : issues \in Seq(I)
  BY DEF TrackerInv
<1>4. Len(filings) \in Nat /\ Len(issues) \in Nat
  BY <1>2, <1>3, LenProperties
<1>5. failures' \in 0..MaxFailures
  <2>1. CASE failures' = failures \/ (failures < MaxFailures /\ failures' = failures + 1)
    BY <1>1, <2>1
  <2>2. CASE \/ Propose \/ StageProposal \/ CreateRequirement \/ Decide \/ CorrectCase
             \/ StartFiling \/ FilingDone \/ UNCHANGED vars
    BY <2>1, <2>2 DEF Propose, StageProposal, CreateRequirement, Decide, Store, CorrectCase,
                      StartFiling, FilingDone, vars
  <2>3. CASE CreateIssue
    BY <2>1, <2>3 DEF CreateIssue
  <2>4. ASSUME NEW g \in 1..MaxReports, Report(g)
        PROVE  failures' = failures \/ (failures < MaxFailures /\ failures' = failures + 1)
    <3>1. CASE OpenCase(g)
      BY <3>1 DEF OpenCase
    <3>2. CASE StartReport(g) \/ ReadLiveCases(g) \/ Dedupe(g) \/ AnswerReport(g)
      BY <3>2 DEF StartReport, ReadLiveCases, Dedupe, AnswerReport
    <3> QED
      BY <2>4, <3>1, <3>2 DEF Report
  <2> QED
    BY <2>1, <2>2, <2>3, <2>4 DEF Next
<1>6. CASE UNCHANGED <<filings, issues>>
  BY <1>1, <1>2, <1>3, <1>5, <1>6 DEF TrackerInv
<1>7. CASE StartFiling
  <2>1. PICK new : filings' = Append(filings, new) /\ issues' = issues
    BY <1>7 DEF StartFiling
  <2>2. filings \in Seq(F \cup {new}) /\ new \in F \cup {new}
    BY <1>2, SeqMonotonic
  <2>3. filings' \in Seq(F \cup {new}) /\ Len(filings') = Len(filings) + 1
    BY <2>1, <2>2
  <2> QED
    BY <1>1, <1>3, <1>4, <1>5, <2>1, <2>3 DEF TrackerInv
<1>8. ASSUME Len(filings) > 0, issues' = issues \/ issues' = Append(issues, NextIssue),
             \E y : filings' = [filings EXCEPT ![Len(filings)] = y]
      PROVE  TrackerInv'
  <2>1. (\E T : filings' \in Seq(T)) /\ Len(filings') = Len(filings)
    <3>1. PICK y : filings' = [filings EXCEPT ![Len(filings)] = y]
      BY <1>8
    <3>2. Len(filings) \in 1..Len(filings)
      BY <1>4, <1>8
    <3> QED
      BY <1>2, <3>1, <3>2, FilingsChange
  <2>2. CASE issues' = issues
    BY <1>1, <1>3, <1>5, <2>1, <2>2 DEF TrackerInv
  <2>3. CASE issues' = Append(issues, NextIssue)
    <3>1. issues \in Seq(I \cup {NextIssue}) /\ NextIssue \in I \cup {NextIssue}
      BY <1>3, SeqMonotonic
    <3>2. /\ issues' \in Seq(I \cup {NextIssue})
          /\ Len(issues') = Len(issues) + 1
          /\ \A n \in 1..Len(issues) : issues'[n] = issues[n]
          /\ issues'[Len(issues) + 1] = NextIssue
      BY <2>3, <3>1
    <3>3. NextIssue.filing \in 1..Len(filings)
      BY <1>4, <1>8 DEF NextIssue
    <3>4. \A n \in 1..Len(issues') : issues'[n].filing \in 1..Len(filings')
      BY <1>1, <1>4, <2>1, <3>2, <3>3
    <3> QED
      BY <1>5, <2>1, <3>2, <3>4 DEF TrackerInv
  <2> QED
    BY <1>8, <2>2, <2>3
<1>9. ASSUME IsFiling
      PROVE  Len(filings) > 0
  BY <1>2, <1>4, <1>9, EmptySeq DEF IsFiling
<1>10. CASE CreateIssue
  <2>1. IsFiling /\ (issues' = issues \/ issues' = Append(issues, NextIssue))
    BY <1>10 DEF CreateIssue, TrackerAfter
  <2>2. \/ filings' = [filings EXCEPT ![Len(filings)] = [Filing EXCEPT !.done = @ + 1]]
        \/ filings' = [filings EXCEPT ![Len(filings)] = [Filing EXCEPT !.pc = "failed"]]
    BY <1>10 DEF CreateIssue, Filing
  <2> QED
    BY <1>8, <1>9, <2>1, <2>2
<1>11. CASE FilingDone
  <2>1. IsFiling /\ issues' = issues
    BY <1>11 DEF FilingDone
  <2>2. filings' = [filings EXCEPT ![Len(filings)] = [Filing EXCEPT !.pc = "answered"]]
    BY <1>11 DEF FilingDone, Filing
  <2> QED
    BY <1>8, <1>9, <2>1, <2>2
<1>12. CASE Propose \/ StageProposal \/ CreateRequirement \/ Decide \/ CorrectCase \/ UNCHANGED vars
  <2>1. UNCHANGED <<filings, issues>>
    BY <1>12 DEF Propose, StageProposal, CreateRequirement, Decide, Store, CorrectCase, vars
  <2> QED
    BY <1>6, <2>1
<1>13. ASSUME NEW g \in 1..MaxReports, Report(g)
       PROVE  TrackerInv'
  <2>1. UNCHANGED <<filings, issues>>
    BY <1>13 DEF Report, StartReport, ReadLiveCases, Dedupe, OpenCase, AnswerReport
  <2> QED
    BY <1>6, <2>1
<1> QED
  BY <1>7, <1>10, <1>11, <1>12, <1>13 DEF Next

(* The state has its shape, whatever is asked and whatever fails.          *)
THEOREM TypeCorrect == Spec => []TypeOK
<1> DEFINE Inv == IsLog(log) /\ GovernanceInv /\ TrackerInv
<1>1. Init => Inv
  BY LogInitially, GovernanceInvInitially, TrackerInitially
<1>2. Inv /\ [Next]_vars => Inv'
  <2>1. ASSUME Inv, [Next]_vars
        PROVE  IsLog(log') /\ GovernanceInv' /\ TrackerInv'
    BY <2>1, LogStays, GovernanceInvStays, TrackerStays
  <2> QED
    BY <2>1 DEF IsLog, IsSnapshot
<1>3. Inv => TypeOK
  <2> SUFFICES ASSUME Inv PROVE TypeOK
    OBVIOUS
  <2>1. \A i \in DOMAIN log : log[i].status \in {"proposed", "active", "rejected", "retired"}
    BY LogProperties DEF IsLog, IsSnapshot, Statuses
  <2>2. \A i \in DOMAIN cases : cases[i].id = i /\ cases[i].status \in {"open", "corrected"}
    BY CasesProperties DEF GovernanceInv, IsCases, IsCase
  <2>3. /\ DOMAIN grader = 1..MaxReports
        /\ \A g \in DOMAIN grader : grader[g].pc \in {"idle", "grading", "failed", "answered"}
    BY DEF GovernanceInv, Graders, IsReport
  <2>4. /\ failures \in 0..MaxFailures
        /\ \A n \in DOMAIN issues : issues[n].filing \in DOMAIN filings
    BY LenProperties DEF TrackerInv
  <2> QED
    BY <2>1, <2>2, <2>3, <2>4 DEF TypeOK
<1> QED
  BY <1>1, <1>2, <1>3, PTL DEF Spec

-----------------------------------------------------------------------------
(***************************************************************************)
(* The current versions, and the findings about them.                      *)
(***************************************************************************)
IsFirst(versions, i) ==
    i \in 1..Len(versions) /\ \A j \in 1..(i - 1) : versions[j].id # versions[i].id

LEMMA CurrentPlaceExists ==
    ASSUME NEW versions, IsLog(versions), NEW k \in 1..Len(versions)
    PROVE  \E i \in DOMAIN versions : versions[i].id = versions[k].id /\ IsCurrent(versions, i)
<1> DEFINE T == {i \in 1..Len(versions) : versions[i].id = versions[k].id}
<1>1. Len(versions) \in Nat /\ DOMAIN versions = 1..Len(versions)
  BY LogProperties
<1>2. T \in SUBSET (0..Len(versions)) /\ k \in T
  BY <1>1
<1>3. PICK i \in T : \A j \in T : j <= i
  <2> HIDE DEF T
  <2> QED
    BY <1>1, <1>2, GreatestElement
<1> QED
  BY <1>1, <1>3 DEF IsCurrent

(* Every requirement is listed once, in a version of the log.              *)
AreVersions(rs, versions) ==
    /\ \E S : rs \in Seq(S)
    /\ \A k \in 1..Len(rs) : \E i \in 1..Len(versions) : rs[k] = versions[i]
    /\ \A j, k \in 1..Len(rs) : rs[j].id = rs[k].id => j = k

LEMMA CurrentsAreVersions ==
    ASSUME NEW versions, IsLog(versions)
    PROVE  AreVersions(Currents(versions), versions)
<1> DEFINE P == {k \in DOMAIN versions : \A j \in 1..(k - 1) : versions[j].id # versions[k].id}
           firsts == Selected(versions, P)
           Latest(id) == versions[CHOOSE i \in DOMAIN versions :
                                     versions[i].id = id /\ IsCurrent(versions, i)]
           N == Len(versions)
           M == Len(firsts)
<1>1. N \in Nat /\ DOMAIN versions = 1..N
  BY LogProperties
<1>2. PICK S : versions \in Seq(S)
  BY DEF IsLog
<1>3. firsts \in Seq(S) /\ M \in Nat /\ DOMAIN firsts = 1..M
  <2> HIDE DEF P
  <2> QED
    BY <1>2, SelectedElements
<1>4. PICK at : Chooses(at, firsts, versions, P, N)
  <2> HIDE DEF P
  <2> QED
    BY <1>2, SelectedPlaces
<1>5. Currents(versions) = [n \in 1..M |-> Latest(firsts[n].id)]
  BY <1>3 DEF Currents
<1> HIDE DEF firsts, P
<1>6. \A n \in 1..M : at[n] \in P \cap 1..N /\ firsts[n] = versions[at[n]]
  BY <1>4 DEF Chooses, Lists
<1>7. ASSUME NEW n \in 1..M
      PROVE  /\ \E i \in 1..N : Latest(firsts[n].id) = versions[i]
             /\ Latest(firsts[n].id).id = firsts[n].id
  <2>1. \E i \in DOMAIN versions : versions[i].id = firsts[n].id /\ IsCurrent(versions, i)
    BY <1>6, CurrentPlaceExists
  <2> QED
    BY <1>1, <2>1
<1>8. ASSUME NEW j \in 1..M, NEW k \in 1..M, firsts[j].id = firsts[k].id
      PROVE  j = k
  <2>1. /\ at[j] \in 1..N /\ at[k] \in 1..N
        /\ versions[at[j]].id = versions[at[k]].id
        /\ \A i \in 1..(at[j] - 1) : versions[i].id # versions[at[j]].id
        /\ \A i \in 1..(at[k] - 1) : versions[i].id # versions[at[k]].id
    BY <1>6, <1>8 DEF P
  <2>2. at[j] = at[k]
    BY <1>1, <2>1
  <2>3. (j < k => at[j] < at[k]) /\ (k < j => at[k] < at[j])
    BY <1>4 DEF Chooses, Lists
  <2> QED
    BY <1>3, <2>1, <2>2, <2>3
<1>9. Currents(versions) \in Seq({versions[i] : i \in 1..N}) /\ Len(Currents(versions)) = M
  <2> DEFINE V == {versions[i] : i \in 1..N}
  <2>1. \A n \in 1..M : Latest(firsts[n].id) \in V
    BY <1>7
  <2> HIDE DEF V, Latest
  <2>2. Currents(versions) \in [1..M -> V]
    BY <1>5, <2>1
  <2>3. Currents(versions) \in Seq(V) /\ Len(Currents(versions)) = M
    BY <1>3, <2>2
  <2> QED
    BY <2>3 DEF V
<1>10. \A n \in 1..M : Currents(versions)[n] = Latest(firsts[n].id)
  BY <1>5
<1>11. /\ \A n \in 1..M : \E i \in 1..N : Currents(versions)[n] = versions[i]
       /\ \A n \in 1..M : Currents(versions)[n].id = firsts[n].id
  <2> HIDE DEF Latest
  <2> QED
    BY <1>7, <1>10
<1> QED
  BY <1>8, <1>9, <1>11 DEF AreVersions

(* A case-opening finding is about a listed requirement that is active and *)
(* hard.                                                                   *)
IsViolation(f, rs) ==
    \E k \in 1..Len(rs) :
        f.requirementId = rs[k].id /\ rs[k].status = "active" /\ rs[k].severity = "hard"

LEMMA FindingsAreViolations ==
    ASSUME NEW S, NEW rs \in Seq(S), NEW subject
    PROVE  LET found == CaseOpeningFindings(rs, subject) IN
           /\ \E T : found \in Seq(T)
           /\ \A n \in 1..Len(found) : IsViolation(found[n], rs)
<1> DEFINE P == {k \in DOMAIN rs : Graded(rs[k], subject)}
           graded == Selected(rs, P)
           M == Len(graded)
           all == Findings(rs, subject)
           T == {Finding(r, subject) : r \in S}
           Q == {n \in DOMAIN all : all[n].caseOpening}
           found == CaseOpeningFindings(rs, subject)
<1>1. /\ graded \in Seq(S) /\ M \in Nat /\ DOMAIN graded = 1..M
      /\ \A n \in 1..M : \E k \in P \cap 1..Len(rs) : graded[n] = rs[k]
  <2> HIDE DEF P
  <2> QED
    BY SelectedElements
<1>2. all = [n \in 1..M |-> Finding(graded[n], subject)]
  BY <1>1 DEF Findings
<1>3. all \in Seq(T) /\ Len(all) = M /\ DOMAIN all = 1..M
  <2>1. \A n \in 1..M : graded[n] \in S
    BY <1>1
  <2>2. \A n \in 1..M : Finding(graded[n], subject) \in T
    BY <2>1
  <2> HIDE DEF T, graded, M
  <2>3. all \in [1..M -> T]
    BY <1>2, <2>2
  <2> QED
    BY <1>1, <2>3
<1>4. found = Selected(all, Q)
  BY DEF CaseOpeningFindings
<1> HIDE DEF all, found, T
<1>5. /\ found \in Seq(T)
      /\ \A n \in 1..Len(found) : \E k \in Q \cap 1..Len(all) : found[n] = all[k]
  <2>1. all \in Seq(T)
    BY <1>3
  <2> HIDE DEF Q
  <2> QED
    BY <2>1, <1>4, SelectedElements
<1>6. ASSUME NEW n \in 1..Len(found)
      PROVE  IsViolation(found[n], rs)
  <2>1. PICK k \in 1..M : found[n] = all[k] /\ all[k].caseOpening
    BY <1>3, <1>5
  <2>2. PICK i \in P \cap 1..Len(rs) : graded[k] = rs[i]
    BY <1>1
  <2>3. all[k] = Finding(rs[i], subject)
    BY <1>2, <2>2
  <2>4. rs[i].status = "active"
    BY <2>2 DEF Graded
  <2>5. found[n].requirementId = rs[i].id /\ rs[i].severity = "hard"
    <3>1. /\ Finding(rs[i], subject).requirementId = rs[i].id
          /\ Finding(rs[i], subject).caseOpening
                = (rs[i].severity = "hard" /\ Classify(rs[i], subject) # "satisfied")
      BY DEF Finding
    <3>2. found[n] = Finding(rs[i], subject) /\ found[n].caseOpening
      BY <2>1, <2>3
    <3> QED
      BY <3>1, <3>2, Zenon
  <2> QED
    BY <2>2, <2>4, <2>5 DEF IsViolation
<1> QED
  BY <1>5, <1>6 DEF found

-----------------------------------------------------------------------------
(***************************************************************************)
(* What a running report holds: versions of the log, each requirement      *)
(* once; violations of them, of which those that it is through with have a *)
(* case; and an index of cases that are there.                             *)
(***************************************************************************)
Recovered(f, rs, cs) ==
    \E k \in 1..Len(rs), i \in 1..Len(cs) :
        /\ rs[k].id = f.requirementId
        /\ cs[i].deal = rs[k].deal /\ cs[i].missedRequirement = rs[k].text

RecoversInOrder(x, cs) ==
    /\ \E S : x.report \in Seq(S)
    /\ \E S : x.todo \in Seq(S)
    /\ Len(x.todo) <= Len(x.report)
    /\ \A i \in 1..Len(x.todo) : x.todo[i] = x.report[Len(x.report) - Len(x.todo) + i]
    /\ \A n \in 1..(Len(x.report) - Len(x.todo)) : Recovered(x.report[n], x.requirements, cs)

ReportsOn(x, versions, cs) ==
    /\ AreVersions(x.requirements, versions)
    /\ \A n \in 1..Len(x.report) : IsViolation(x.report[n], x.requirements)
    /\ RecoversInOrder(x, cs)
    /\ \A entry \in x.index : \E i \in 1..Len(cs) :
          cs[i].deal = entry.deal /\ cs[i].missedRequirement = entry.text

(* Nothing that a report or a case refers to is lost.                      *)
Continues(versions, later) ==
    /\ Len(versions) \in Nat /\ Len(later) \in Nat /\ Len(versions) <= Len(later)
    /\ \A i \in 1..Len(versions) : later[i] = versions[i]

SameSubject(c, d) ==
    d.deal = c.deal /\ d.requirement = c.requirement /\ d.missedRequirement = c.missedRequirement

Extends(cs, later) ==
    /\ Len(cs) \in Nat /\ Len(later) \in Nat /\ Len(cs) <= Len(later)
    /\ \A i \in 1..Len(cs) : SameSubject(cs[i], later[i])

LEMMA RecoveredStays ==
    ASSUME NEW f, NEW rs, NEW cs, NEW later, Extends(cs, later), Recovered(f, rs, cs)
    PROVE  Recovered(f, rs, later)
<1>1. PICK k \in 1..Len(rs), i \in 1..Len(cs) :
          /\ rs[k].id = f.requirementId
          /\ cs[i].deal = rs[k].deal /\ cs[i].missedRequirement = rs[k].text
  BY DEF Recovered
<1>2. i \in 1..Len(later) /\ SameSubject(cs[i], later[i])
  BY DEF Extends
<1> QED
  BY <1>1, <1>2 DEF Recovered, SameSubject

LEMMA ReportsOnStays ==
    ASSUME NEW x, NEW versions, NEW newer, Continues(versions, newer),
           NEW cs, NEW later, Extends(cs, later), ReportsOn(x, versions, cs)
    PROVE  ReportsOn(x, newer, later)
<1>1. AreVersions(x.requirements, newer)
  <2>1. \A k \in 1..Len(x.requirements) : \E i \in 1..Len(versions) : x.requirements[k] = versions[i]
    BY DEF ReportsOn, AreVersions
  <2>2. \A i \in 1..Len(versions) : i \in 1..Len(newer) /\ newer[i] = versions[i]
    BY DEF Continues
  <2> QED
    BY <2>1, <2>2 DEF ReportsOn, AreVersions
<1>2. RecoversInOrder(x, later)
  BY RecoveredStays DEF ReportsOn, RecoversInOrder
<1>3. ASSUME NEW entry \in x.index
      PROVE  \E i \in 1..Len(later) :
                later[i].deal = entry.deal /\ later[i].missedRequirement = entry.text
  <2>1. PICK i \in 1..Len(cs) : cs[i].deal = entry.deal /\ cs[i].missedRequirement = entry.text
    BY DEF ReportsOn
  <2>2. i \in 1..Len(later) /\ SameSubject(cs[i], later[i])
    BY DEF Extends
  <2> QED
    BY <2>1, <2>2 DEF SameSubject
<1> QED
  BY <1>1, <1>2, <1>3 DEF ReportsOn

(* A report goes on to its next finding when this one has its case.        *)
LEMMA NextFinding ==
    ASSUME NEW x, NEW y, NEW cs, RecoversInOrder(x, cs), x.todo # <<>>,
           y.report = x.report, y.requirements = x.requirements, y.todo = Tail(x.todo),
           Recovered(Head(x.todo), x.requirements, cs)
    PROVE  RecoversInOrder(y, cs)
<1>1. PICK S : x.report \in Seq(S)
  BY DEF RecoversInOrder
<1>2. PICK T : x.todo \in Seq(T)
  BY DEF RecoversInOrder
<1> DEFINE R == x.report
           q == x.todo
           rest == Tail(q)
           N == Len(R)
           M == Len(q)
<1>3. /\ N \in Nat /\ M \in Nat /\ M > 0
      /\ R \in Seq(S) /\ Len(R) = N
      /\ rest \in Seq(T) /\ Len(rest) = M - 1
      /\ \A i \in 1..(M - 1) : rest[i] = q[i + 1]
      /\ Head(q) = q[1]
  BY <1>1, <1>2, EmptySeq
<1>4. /\ M <= N
      /\ \A i \in 1..M : q[i] = R[N - M + i]
      /\ \A n \in 1..(N - M) : Recovered(R[n], x.requirements, cs)
  BY DEF RecoversInOrder
<1>5. y.report = R /\ y.requirements = x.requirements /\ y.todo = rest
  OBVIOUS
<1>6. Recovered(Head(q), x.requirements, cs)
  OBVIOUS
<1> HIDE DEF R, q, rest, N, M
<1>7. \A i \in 1..(M - 1) : rest[i] = R[N - (M - 1) + i]
  <2> TAKE i \in 1..(M - 1)
  <2>1. i + 1 \in 1..M /\ N - M + (i + 1) = N - (M - 1) + i
    BY <1>3
  <2>2. rest[i] = q[i + 1] /\ q[i + 1] = R[N - M + (i + 1)]
    BY <1>3, <1>4, <2>1
  <2> QED
    BY <2>1, <2>2
<1>8. \A n \in 1..(N - (M - 1)) : Recovered(R[n], x.requirements, cs)
  <2> TAKE n \in 1..(N - (M - 1))
  <2>1. CASE n \in 1..(N - M)
    BY <1>4, <2>1
  <2>2. CASE n \notin 1..(N - M)
    <3>1. n = N - M + 1 /\ 1 \in 1..M
      BY <1>3, <1>4, <2>2
    <3>2. Head(q) = R[n]
      BY <1>3, <1>4, <3>1
    <3> QED
      BY <1>6, <3>2
  <2> QED
    BY <2>1, <2>2
<1>9. /\ y.report \in Seq(S) /\ y.todo \in Seq(T)
      /\ Len(y.report) = N /\ Len(y.todo) = M - 1
      /\ M - 1 <= N
  <2>1. y.report \in Seq(S) /\ Len(y.report) = N
    BY <1>3, <1>5, Zenon
  <2>2. y.todo \in Seq(T) /\ Len(y.todo) = M - 1
    BY <1>3, <1>5, Zenon
  <2>3. M - 1 <= N
    BY <1>3, <1>4
  <2> QED
    BY <2>1, <2>2, <2>3
<1> QED
  BY <1>5, <1>7, <1>8, <1>9 DEF RecoversInOrder

(* The requirement that the next finding of a report is about.             *)
LEMMA ConcernedRequirement ==
    ASSUME NEW g, NEW versions, NEW cs, ReportsOn(grader[g], versions, cs), grader[g].todo # <<>>
    PROVE  LET x == grader[g]
               r == Concerned(g)
           IN  /\ r.id = Head(x.todo).requirementId
               /\ r.status = "active" /\ r.severity = "hard"
               /\ \E k \in 1..Len(x.requirements) : r = x.requirements[k]
               /\ \E i \in 1..Len(versions) : r = versions[i]
<1> DEFINE x == grader[g]
           rs == x.requirements
           f == Head(x.todo)
<1>1. PICK T : x.todo \in Seq(T)
  BY DEF ReportsOn, RecoversInOrder
<1>2. /\ Len(x.todo) \in Nat /\ Len(x.todo) > 0 /\ f = x.todo[1]
      /\ Len(x.report) \in Nat /\ Len(x.todo) <= Len(x.report)
  BY <1>1, EmptySeq, LenProperties DEF ReportsOn, RecoversInOrder
<1>3. IsViolation(f, rs)
  <2> DEFINE M == Len(x.todo)
             N == Len(x.report)
  <2>1. 1 \in 1..M /\ N - M + 1 \in 1..N
    <3>1. M \in Nat /\ M > 0 /\ N \in Nat /\ M <= N
      BY <1>2
    <3> HIDE DEF M, N
    <3> QED
      BY <3>1
  <2>2. f = x.report[Len(x.report) - Len(x.todo) + 1]
    BY <1>2, <2>1 DEF ReportsOn, RecoversInOrder
  <2> QED
    BY <2>1, <2>2 DEF ReportsOn
<1>4. PICK k \in 1..Len(rs) :
          f.requirementId = rs[k].id /\ rs[k].status = "active" /\ rs[k].severity = "hard"
  BY <1>3 DEF IsViolation
<1>5. DOMAIN rs = 1..Len(rs)
  BY LenProperties DEF ReportsOn, AreVersions
<1>6. Concerned(g) = rs[k]
  <2>1. rs[k] \in Range(rs) /\ rs[k].id = f.requirementId
    BY <1>4, <1>5 DEF Range
  <2>2. Concerned(g) \in Range(rs) /\ Concerned(g).id = f.requirementId
    BY <2>1 DEF Concerned
  <2>3. PICK j \in 1..Len(rs) : Concerned(g) = rs[j]
    BY <1>5, <2>2 DEF Range
  <2>4. j = k
    BY <1>4, <2>2, <2>3 DEF ReportsOn, AreVersions
  <2> QED
    BY <2>3, <2>4
<1>7. \E i \in 1..Len(versions) : rs[k] = versions[i]
  BY DEF ReportsOn, AreVersions
<1> QED
  BY <1>4, <1>6, <1>7

-----------------------------------------------------------------------------
(***************************************************************************)
(* The inductive invariant: a case cites an active, hard version that some *)
(* operator approved.  It holds of the next case because the report that   *)
(* opens it holds versions of the log and findings about active ones.      *)
(***************************************************************************)
Approvals(versions) ==
    \A i \in 1..Len(versions) : versions[i].status = "active" => versions[i].approvedBy \in Approvers

Cites(c, versions) ==
    \E i \in 1..Len(versions) :
        /\ versions[i].id = c.requirement /\ versions[i].deal = c.deal
        /\ versions[i].text = c.missedRequirement
        /\ versions[i].status = "active" /\ versions[i].severity = "hard"
        /\ versions[i].approvedBy \in Approvers

ReportsHold(gs, versions, cs) ==
    \A g \in 1..MaxReports : gs[g].pc = "grading" => ReportsOn(gs[g], versions, cs)

CitationInv ==
    /\ Approvals(log)
    /\ \A i \in 1..Len(cases) : Cites(cases[i], log)
    /\ ReportsHold(grader, log, cases)

LEMMA LogContinues ==
    ASSUME IsLog(log), Approvals(log), [Next]_vars
    PROVE  Continues(log, log') /\ Approvals(log')
<1>1. Len(log) \in Nat
  BY LogProperties
<1>2. ASSUME NEW r, IsSnapshot(r), log' = Append(log, r),
             r.status = "active" => r.approvedBy \in Approvers
      PROVE  Continues(log, log') /\ Approvals(log')
  <2>1. /\ Len(log') = Len(log) + 1
        /\ \A i \in 1..Len(log) : log'[i] = log[i]
        /\ log'[Len(log) + 1] = r
    BY <1>2, Appended
  <2>2. \A i \in 1..Len(log') : i \in 1..Len(log) \/ i = Len(log) + 1
    BY <1>1, <2>1
  <2> QED
    BY <1>1, <1>2, <2>1, <2>2 DEF Continues, Approvals
<1>3. CASE log' = log
  BY <1>1, <1>3 DEF Continues, Approvals
<1>4. CASE Creates(log, log')
  BY <1>2, <1>4 DEF Creates
<1>5. CASE Updates(log, log')
  <2>1. PICK i \in CurrentPlaces(log) : \E r :
            log' = Append(log, r) /\ IsSnapshot(r) /\ Edge(log[i], r)
    BY <1>5 DEF Updates
  <2>2. PICK r : log' = Append(log, r) /\ IsSnapshot(r) /\ Edge(log[i], r)
    BY <2>1
  <2>3. log[i].status = "active" => log[i].approvedBy \in Approvers
    BY LogProperties DEF Approvals, CurrentPlaces
  <2>4. r.status = "active" => r.approvedBy \in Approvers
    BY <2>2, <2>3 DEF Edge
  <2> QED
    BY <1>2, <2>2, <2>4
<1> QED
  BY <1>3, <1>4, <1>5, StepsOfTheLog

LEMMA CitesStays ==
    ASSUME NEW versions, NEW newer, Continues(versions, newer),
           NEW c, NEW d, SameSubject(c, d), Cites(c, versions)
    PROVE  Cites(d, newer)
<1>1. \A i \in 1..Len(versions) : i \in 1..Len(newer) /\ newer[i] = versions[i]
  BY DEF Continues
<1> QED
  BY <1>1 DEF Cites, SameSubject

LEMMA CasesCited ==
    ASSUME NEW cs, NEW later, Extends(cs, later), Len(later) = Len(cs),
           NEW versions, NEW newer, Continues(versions, newer),
           \A i \in 1..Len(cs) : Cites(cs[i], versions)
    PROVE  \A i \in 1..Len(later) : Cites(later[i], newer)
BY CitesStays DEF Extends

LEMMA SubjectStays ==
    ASSUME IsCases(cases), cases' = cases
    PROVE  Extends(cases, cases')
BY CasesProperties DEF Extends, SameSubject

LEMMA CorrectedExtends ==
    ASSUME IsCases(cases), CorrectCase
    PROVE  Extends(cases, cases') /\ Len(cases') = Len(cases)
<1>1. PICK i \in DOMAIN cases : cases' = [cases EXCEPT ![i].status = "corrected"]
  BY DEF CorrectCase
<1> DEFINE corrected == [cases[i] EXCEPT !.status = "corrected"]
<1>2. Len(cases) \in Nat /\ DOMAIN cases = 1..Len(cases)
  BY CasesProperties
<1>3. SameSubject(cases[i], corrected)
  BY <1>2 DEF IsCases, IsCase, CaseFields, SameSubject
<1>4. cases' = [cases EXCEPT ![i] = corrected]
  BY <1>1
<1> HIDE DEF corrected
<1>5. PICK S : cases \in Seq(S)
  BY DEF IsCases
<1>6. cases \in Seq(S \cup {corrected}) /\ corrected \in S \cup {corrected}
  BY <1>5, SeqMonotonic
<1>7. Len(cases') = Len(cases)
  BY <1>2, <1>4, <1>6, ExceptSeq
<1>8. \A k \in 1..Len(cases) : cases'[k] = IF k = i THEN corrected ELSE cases[k]
  BY <1>2, <1>4
<1>9. \A k \in 1..Len(cases) : SameSubject(cases[k], cases'[k])
  BY <1>3, <1>8 DEF SameSubject
<1> QED
  BY <1>2, <1>7, <1>9 DEF Extends

(* When a report moves, the others still hold what they held.              *)
LEMMA ReportsStillHold ==
    ASSUME Graders(grader), ReportsHold(grader, log, cases),
           NEW newer, Continues(log, newer), NEW later, Extends(cases, later),
           NEW g \in 1..MaxReports, NEW x, x.pc = "grading" => ReportsOn(x, newer, later)
    PROVE  ReportsHold([grader EXCEPT ![g] = x], newer, later)
<1> DEFINE after == [grader EXCEPT ![g] = x]
<1>1. \A h \in 1..MaxReports : after[h] = IF h = g THEN x ELSE grader[h]
  BY DEF Graders
<1> HIDE DEF after
<1>2. ASSUME NEW h \in 1..MaxReports, after[h].pc = "grading"
      PROVE  ReportsOn(after[h], newer, later)
  <2>1. CASE h = g
    BY <1>1, <1>2, <2>1
  <2>2. CASE h # g
    <3>1. after[h] = grader[h] /\ ReportsOn(grader[h], log, cases)
      BY <1>1, <1>2, <2>2 DEF ReportsHold
    <3> QED
      BY <3>1, ReportsOnStays
  <2> QED
    BY <2>1, <2>2
<1>3. ReportsHold(after, newer, later)
  BY <1>2 DEF ReportsHold
<1> QED
  BY <1>3 DEF after

LEMMA StartedReportHolds ==
    ASSUME IsLog(log), Graders(grader), NEW g \in 1..MaxReports, StartReport(g)
    PROVE  \E x : grader' = [grader EXCEPT ![g] = x] /\ ReportsOn(x, log, cases)
<1> DEFINE rs == Currents(log)
<1>1. PICK subject \in Subjects :
          LET found == CaseOpeningFindings(rs, subject) IN
          grader' = [grader EXCEPT ![g] =
                        [NotGrading EXCEPT !.pc = "grading", !.requirements = rs,
                                           !.report = found, !.todo = found]]
  BY DEF StartReport
<1> DEFINE found == CaseOpeningFindings(rs, subject)
           x == [NotGrading EXCEPT !.pc = "grading", !.requirements = rs,
                                   !.report = found, !.todo = found]
<1> HIDE DEF rs, found
<1>2. AreVersions(rs, log)
  BY CurrentsAreVersions DEF rs
<1>3. (\E T : found \in Seq(T)) /\ \A n \in 1..Len(found) : IsViolation(found[n], rs)
  BY <1>2, FindingsAreViolations DEF AreVersions, found
<1>4. x.requirements = rs /\ x.report = found /\ x.todo = found /\ x.index = {}
  BY DEF NotGrading
<1>5. grader' = [grader EXCEPT ![g] = x]
  BY <1>1 DEF found
<1> HIDE DEF x
<1>6. RecoversInOrder(x, cases)
  <2> DEFINE N == Len(found)
  <2>1. N \in Nat
    BY <1>3, LenProperties
  <2> HIDE DEF N
  <2>2. N <= N /\ N - N = 0 /\ \A i \in 1..N : N - N + i = i
    BY <2>1
  <2>3. 1..0 = {}
    OBVIOUS
  <2> QED
    BY <1>3, <1>4, <2>2, <2>3 DEF RecoversInOrder, N
<1>7. ReportsOn(x, log, cases)
  BY <1>2, <1>3, <1>4, <1>6 DEF ReportsOn
<1> QED
  BY <1>5, <1>7

LEMMA LiveCasesAreCases ==
    ASSUME IsCases(cases), NEW deal, NEW entry \in LiveCases(deal)
    PROVE  \E i \in 1..Len(cases) :
              cases[i].deal = entry.deal /\ cases[i].missedRequirement = entry.text
<1>1. PICK i \in DOMAIN cases :
          /\ cases[i].deal = deal
          /\ entry = [deal |-> deal, text |-> cases[i].missedRequirement, case |-> cases[i].id]
  BY DEF LiveCases
<1>2. entry.deal = deal /\ entry.text = cases[i].missedRequirement
  BY <1>1
<1> QED
  BY <1>1, <1>2, CasesProperties

LEMMA ReadingReportHolds ==
    ASSUME IsCases(cases), Graders(grader), ReportsHold(grader, log, cases),
           NEW g \in 1..MaxReports, ReadLiveCases(g)
    PROVE  \E x : grader' = [grader EXCEPT ![g] = x] /\ ReportsOn(x, log, cases)
<1> DEFINE old == grader[g]
           deal == Concerned(g).deal
           seen == [d \in (DOMAIN old.seen) \cup {deal} |-> IF d = deal THEN Len(cases) ELSE old.seen[d]]
           index == old.index \cup LiveCases(deal)
           x == [old EXCEPT !.seen = seen, !.index = index]
<1>1. IsReport(old) /\ ReportsOn(old, log, cases)
  BY DEF Graders, ReportsHold, ReadLiveCases, Grading
<1>2. grader' = [grader EXCEPT ![g] = x]
  <2>1. grader' = [grader EXCEPT
                 ![g].seen = [d \in (DOMAIN @) \cup {deal} |-> IF d = deal THEN Len(cases) ELSE @[d]],
                 ![g].index = @ \cup LiveCases(deal)]
    BY DEF ReadLiveCases
  <2> QED
    BY <2>1 DEF Graders
<1>3. /\ x.requirements = old.requirements /\ x.report = old.report /\ x.todo = old.todo
      /\ x.index = index
  <2> HIDE DEF seen, index, old
  <2> QED
    BY <1>1 DEF IsReport, ReportFields
<1> HIDE DEF x
<1>4. \A entry \in x.index : \E i \in 1..Len(cases) :
         cases[i].deal = entry.deal /\ cases[i].missedRequirement = entry.text
  BY <1>1, <1>3, LiveCasesAreCases DEF ReportsOn
<1>5. RecoversInOrder(x, cases)
  BY <1>1, <1>3 DEF ReportsOn, RecoversInOrder
<1>6. ReportsOn(x, log, cases)
  BY <1>1, <1>3, <1>4, <1>5 DEF ReportsOn
<1> QED
  BY <1>2, <1>6

LEMMA DedupingReportHolds ==
    ASSUME Graders(grader), ReportsHold(grader, log, cases),
           NEW g \in 1..MaxReports, Dedupe(g)
    PROVE  \E x : grader' = [grader EXCEPT ![g] = x] /\ ReportsOn(x, log, cases)
<1> DEFINE old == grader[g]
           r == Concerned(g)
           x == [old EXCEPT !.todo = Tail(old.todo)]
<1>1. /\ IsReport(old) /\ ReportsOn(old, log, cases) /\ old.todo # <<>>
      /\ Known(g, r)
  BY DEF Graders, ReportsHold, Dedupe, Grading
<1>2. grader' = [grader EXCEPT ![g] = x]
  BY DEF Dedupe, Graders
<1>3. /\ x.requirements = old.requirements /\ x.report = old.report /\ x.index = old.index
      /\ x.todo = Tail(old.todo)
  <2> HIDE DEF old
  <2> QED
    BY <1>1 DEF IsReport, ReportFields
<1> HIDE DEF x
<1>4. Recovered(Head(old.todo), old.requirements, cases)
  <2>1. /\ r.id = Head(old.todo).requirementId
        /\ \E k \in 1..Len(old.requirements) : r = old.requirements[k]
    BY <1>1, ConcernedRequirement
  <2>2. PICK entry \in old.index : entry.deal = r.deal /\ entry.text = r.text
    BY <1>1 DEF Known
  <2>3. PICK i \in 1..Len(cases) :
            cases[i].deal = entry.deal /\ cases[i].missedRequirement = entry.text
    BY <1>1 DEF ReportsOn
  <2> QED
    BY <2>1, <2>2, <2>3 DEF Recovered
<1>5. RecoversInOrder(x, cases)
  <2>1. RecoversInOrder(old, cases)
    BY <1>1 DEF ReportsOn
  <2> QED
    BY <1>1, <1>3, <1>4, <2>1, NextFinding
<1>6. ReportsOn(x, log, cases)
  BY <1>1, <1>3, <1>5 DEF ReportsOn
<1> QED
  BY <1>2, <1>6

(* The case that a report opens cites the version that the report holds,   *)
(* and its finding has its case.                                           *)
LEMMA OpenCaseCites ==
    ASSUME IsLog(log), IsCases(cases), Graders(grader), CitationInv,
           NEW g \in 1..MaxReports, OpenCase(g)
    PROVE  /\ Extends(cases, cases')
           /\ \A i \in 1..Len(cases') : Cites(cases'[i], log)
           /\ \E x : /\ grader' = [grader EXCEPT ![g] = x]
                     /\ x.pc = "grading" => ReportsOn(x, log, cases')
<1> DEFINE old == grader[g]
           r == Concerned(g)
           c == GovernanceCaseForFinding(g, r, Head(old.todo))
           n == Len(cases) + 1
           longer == Append(cases, c)
           failed == [NotGrading EXCEPT !.pc = "failed"]
           recorded == [old EXCEPT !.todo = Tail(old.todo), !.index = Recorded(g, r)]
<1>1. /\ IsReport(old) /\ ReportsOn(old, log, cases) /\ old.todo # <<>>
      /\ Len(cases) \in Nat /\ Len(log) \in Nat
  BY CasesProperties, LogProperties DEF Graders, CitationInv, ReportsHold, OpenCase, Grading
<1>2. \/ cases' = longer /\ grader' = [grader EXCEPT ![g] = recorded]
      \/ cases' \in {cases, longer} /\ grader' = [grader EXCEPT ![g] = failed]
  BY DEF OpenCase, Graders
<1>3. /\ r.id = Head(old.todo).requirementId
      /\ r.status = "active" /\ r.severity = "hard"
      /\ \E k \in 1..Len(old.requirements) : r = old.requirements[k]
      /\ \E i \in 1..Len(log) : r = log[i]
  BY <1>1, ConcernedRequirement
<1>4. /\ IsCase(c, n)
      /\ c.requirement = r.id /\ c.deal = r.deal /\ c.missedRequirement = r.text
  BY DEF GovernanceCaseForFinding, IsCase, CaseFields
<1>5. /\ recorded.requirements = old.requirements /\ recorded.report = old.report
      /\ recorded.todo = Tail(old.todo) /\ recorded.index = Recorded(g, r)
  <2> HIDE DEF old, r
  <2> QED
    BY <1>1 DEF IsReport, ReportFields
<1>6. failed.pc = "failed"
  BY NotGradingIsReport
<1> HIDE DEF c, recorded, failed
<1>7. /\ Len(longer) = n
      /\ \A i \in 1..Len(cases) : longer[i] = cases[i]
      /\ longer[n] = c
  BY <1>4, CaseAppended
<1> HIDE DEF longer
<1>8. Extends(cases, longer)
  BY <1>1, <1>7 DEF Extends, SameSubject
<1>9. Cites(c, log)
  BY <1>3, <1>4 DEF CitationInv, Approvals, Cites
<1>10. \A i \in 1..Len(longer) : Cites(longer[i], log)
  <2>1. \A i \in 1..Len(longer) : i \in 1..Len(cases) \/ i = n
    BY <1>1, <1>7
  <2> QED
    BY <1>7, <1>9, <2>1 DEF CitationInv
<1>11. ReportsOn(recorded, log, longer)
  <2>1. Continues(log, log)
    BY <1>1 DEF Continues
  <2>2. ReportsOn(old, log, longer)
    BY <1>1, <1>8, <2>1, ReportsOnStays
  <2>3. n \in 1..Len(longer)
    BY <1>1, <1>7
  <2>4. Recovered(Head(old.todo), old.requirements, longer)
    BY <1>3, <1>4, <1>7, <2>3 DEF Recovered
  <2>5. RecoversInOrder(recorded, longer)
    <3>1. RecoversInOrder(old, longer)
      BY <2>2 DEF ReportsOn
    <3> QED
      BY <1>1, <1>5, <2>4, <3>1, NextFinding
  <2>6. \A entry \in recorded.index : \E i \in 1..Len(longer) :
            longer[i].deal = entry.deal /\ longer[i].missedRequirement = entry.text
    <3> TAKE entry \in recorded.index
    <3>1. CASE entry \in old.index
      BY <2>2, <3>1 DEF ReportsOn
    <3>2. CASE entry = [deal |-> r.deal, text |-> r.text, case |-> n]
      <4>1. entry.deal = r.deal /\ entry.text = r.text
        BY <3>2
      <4> QED
        BY <1>4, <1>7, <2>3, <4>1
    <3> QED
      BY <1>5, <3>1, <3>2 DEF Recorded
  <2> QED
    BY <1>5, <2>2, <2>5, <2>6 DEF ReportsOn
<1>12. Extends(cases, cases) /\ \A i \in 1..Len(cases) : Cites(cases[i], log)
  BY <1>1 DEF Extends, SameSubject, CitationInv
<1> QED
  BY <1>2, <1>6, <1>8, <1>10, <1>11, <1>12

LEMMA CitationInitially ==
    ASSUME Init
    PROVE  CitationInv
<1>1. Len(log) = 0 /\ Len(cases) = 0
  BY EmptySeq DEF Init
<1>2. ASSUME NEW g \in 1..MaxReports
      PROVE  grader[g].pc = "idle"
  BY DEF Init, NotGrading
<1> QED
  BY <1>1, <1>2 DEF CitationInv, Approvals, ReportsHold

LEMMA CitationStays ==
    ASSUME IsLog(log), GovernanceInv, CitationInv, [Next]_vars
    PROVE  CitationInv'
<1>1. IsCases(cases) /\ Graders(grader) /\ Len(log) \in Nat
  BY LogProperties DEF GovernanceInv
<1>2. Continues(log, log') /\ Approvals(log')
  BY LogContinues DEF CitationInv
<1>3. CASE UNCHANGED <<cases, grader>>
  <2>1. Extends(cases, cases) /\ Len(cases) = Len(cases)
    BY <1>1, CasesProperties DEF Extends, SameSubject
  <2>2. \A i \in 1..Len(cases) : Cites(cases[i], log')
    BY <1>2, <2>1, CasesCited DEF CitationInv
  <2>3. ReportsHold(grader, log', cases)
    BY <1>2, <2>1, ReportsOnStays DEF CitationInv, ReportsHold
  <2> QED
    BY <1>2, <1>3, <2>2, <2>3 DEF CitationInv
<1>4. CASE CorrectCase
  <2>1. Extends(cases, cases') /\ Len(cases') = Len(cases) /\ grader' = grader
    BY <1>1, <1>4, CorrectedExtends DEF CorrectCase
  <2>2. \A i \in 1..Len(cases') : Cites(cases'[i], log')
    BY <1>2, <2>1, CasesCited DEF CitationInv
  <2>3. ReportsHold(grader, log', cases')
    BY <1>2, <2>1, ReportsOnStays DEF CitationInv, ReportsHold
  <2> QED
    BY <1>2, <2>1, <2>2, <2>3 DEF CitationInv
<1>5. ASSUME NEW g \in 1..MaxReports, Report(g)
      PROVE  CitationInv'
  <2>1. log' = log
    BY <1>5 DEF Report, StartReport, ReadLiveCases, Dedupe, OpenCase, AnswerReport
  <2>2. SUFFICES /\ Extends(cases, cases')
                 /\ \A i \in 1..Len(cases') : Cites(cases'[i], log)
                 /\ \E x : /\ grader' = [grader EXCEPT ![g] = x]
                           /\ x.pc = "grading" => ReportsOn(x, log, cases')
    <3>1. PICK x : /\ grader' = [grader EXCEPT ![g] = x]
                   /\ x.pc = "grading" => ReportsOn(x, log, cases')
      BY <2>2
    <3>2. ReportsHold(grader', log, cases')
      BY <1>1, <1>2, <2>1, <2>2, <3>1, ReportsStillHold DEF CitationInv
    <3> QED
      BY <1>2, <2>1, <2>2, <3>2 DEF CitationInv
  <2>3. CASE OpenCase(g)
    BY <1>1, <2>3, OpenCaseCites
  <2>4. ASSUME cases' = cases,
               \E x : /\ grader' = [grader EXCEPT ![g] = x]
                      /\ x.pc = "grading" => ReportsOn(x, log, cases)
        PROVE  /\ Extends(cases, cases')
               /\ \A i \in 1..Len(cases') : Cites(cases'[i], log)
               /\ \E x : /\ grader' = [grader EXCEPT ![g] = x]
                         /\ x.pc = "grading" => ReportsOn(x, log, cases')
    BY <1>1, <2>4, SubjectStays DEF CitationInv
  <2>5. CASE StartReport(g)
    BY <1>1, <2>4, <2>5, StartedReportHolds DEF StartReport
  <2>6. CASE ReadLiveCases(g)
    BY <1>1, <2>4, <2>6, ReadingReportHolds DEF CitationInv, ReadLiveCases
  <2>7. CASE Dedupe(g)
    BY <1>1, <2>4, <2>7, DedupingReportHolds DEF CitationInv, Dedupe
  <2>8. CASE AnswerReport(g)
    <3>1. [NotGrading EXCEPT !.pc = "answered"].pc # "grading"
      BY NotGradingIsReport
    <3> QED
      BY <2>4, <2>8, <3>1 DEF AnswerReport
  <2> QED
    BY <1>5, <2>3, <2>5, <2>6, <2>7, <2>8 DEF Report
<1>6. CASE \/ Propose \/ StageProposal \/ CreateRequirement \/ Decide
           \/ StartFiling \/ CreateIssue \/ FilingDone \/ UNCHANGED vars
  <2>1. UNCHANGED <<cases, grader>>
    BY <1>6 DEF Propose, StageProposal, CreateRequirement, Decide, Store, StartFiling, CreateIssue,
                FilingDone, vars
  <2> QED
    BY <1>3, <2>1
<1> QED
  BY <1>4, <1>5, <1>6 DEF Next

LEMMA CitationsHold == Spec => [](IsLog(log) /\ GovernanceInv /\ CitationInv)
<1> DEFINE Inv == IsLog(log) /\ GovernanceInv /\ CitationInv
<1>1. Init => Inv
  BY LogInitially, GovernanceInvInitially, CitationInitially
<1>2. Inv /\ [Next]_vars => Inv'
  <2>1. ASSUME Inv, [Next]_vars
        PROVE  IsLog(log') /\ GovernanceInv' /\ CitationInv'
    BY <2>1, LogStays, GovernanceInvStays, CitationStays
  <2> QED
    BY <2>1 DEF IsLog, IsSnapshot
<1> QED
  BY <1>1, <1>2, PTL DEF Spec

(* Every case is about a requirement that some operator approved, in the   *)
(* words it had while it was active and hard, however old the list is that *)
(* the report was handed (gradeReportAgainstRequirements and               *)
(* openCasesFromReport in packages/governance).                            *)
THEOREM CitationsAreApproved == Spec => []CasesCiteAnActiveVersion
<1>1. IsLog(log) /\ GovernanceInv /\ CitationInv => CasesCiteAnActiveVersion
  <2> SUFFICES ASSUME IsLog(log), GovernanceInv, CitationInv
               PROVE  CasesCiteAnActiveVersion
    OBVIOUS
  <2>1. DOMAIN log = 1..Len(log) /\ DOMAIN cases = 1..Len(cases)
    BY LogProperties, CasesProperties DEF GovernanceInv
  <2> QED
    BY <2>1 DEF CitationInv, Cites, CasesCiteAnActiveVersion, Range
<1> QED
  BY <1>1, CitationsHold, PTL

(* A report that answers has a case for each of its case-opening findings, *)
(* with the words its requirement had when the report was graded: the      *)
(* findings that were dropped as known had one, and no case ever goes.     *)
THEOREM AnswersAreCovered == Spec => AnsweredReportsAreCovered
<1>1. ASSUME GovernanceInv, CitationInv, [Next]_vars, NEW g \in 1..MaxReports,
             grader[g].pc = "grading", grader'[g].pc = "answered",
             NEW n \in DOMAIN grader[g].report
      PROVE  Covered(g, grader[g].report[n])
  <2> DEFINE x == grader[g]
  <2>1. ReportsOn(x, log, cases)
    BY <1>1 DEF CitationInv, ReportsHold
  <2>2. x.todo = <<>>
    <3>1. ASSUME NEW h \in 1..MaxReports, Report(h)
          PROVE  x.todo = <<>>
      <4>1. CASE h # g
        <5>1. grader'[g] = grader[g]
          BY <1>1, <3>1, <4>1
          DEF GovernanceInv, Graders, Report, StartReport, ReadLiveCases, Dedupe, OpenCase, AnswerReport
        <5> QED
          BY <1>1, <5>1
      <4>2. CASE h = g
        <5>1. CASE AnswerReport(g)
          BY <5>1 DEF AnswerReport
        <5>2. CASE ~AnswerReport(g)
          <6>1. IsReport(x) /\ x.pc = "grading" /\ DOMAIN grader = 1..MaxReports
            BY <1>1 DEF GovernanceInv, Graders
          <6>2. ASSUME NEW y, grader' = [grader EXCEPT ![g] = y]
                PROVE  grader'[g] = y
            BY <6>1, <6>2
          <6>3. ~StartReport(g)
            BY <6>1 DEF StartReport
          <6>4. CASE ReadLiveCases(g)
            <7> DEFINE deal == Concerned(g).deal
                       seen == [d \in (DOMAIN x.seen) \cup {deal} |->
                                  IF d = deal THEN Len(cases) ELSE x.seen[d]]
                       index == x.index \cup LiveCases(deal)
                       y == [x EXCEPT !.seen = seen, !.index = index]
            <7>1. grader' = [grader EXCEPT ![g] = y]
              <8>1. grader' = [grader EXCEPT
                       ![g].seen = [d \in (DOMAIN @) \cup {deal} |-> IF d = deal THEN Len(cases) ELSE @[d]],
                       ![g].index = @ \cup LiveCases(deal)]
                BY <6>4 DEF ReadLiveCases
              <8> QED
                BY <8>1, <6>1
            <7>2. y.pc = "grading"
              <8> HIDE DEF seen, index, x
              <8> QED
                BY <6>1 DEF IsReport, ReportFields
            <7> HIDE DEF y
            <7> QED
              BY <1>1, <6>2, <7>1, <7>2
          <6>5. CASE Dedupe(g)
            <7> DEFINE y == [x EXCEPT !.todo = Tail(x.todo)]
            <7>1. grader' = [grader EXCEPT ![g] = y]
              BY <6>1, <6>5 DEF Dedupe
            <7>2. y.pc = "grading"
              <8> HIDE DEF x
              <8> QED
                BY <6>1 DEF IsReport, ReportFields
            <7> HIDE DEF y
            <7> QED
              BY <1>1, <6>2, <7>1, <7>2
          <6>6. CASE OpenCase(g)
            <7> DEFINE y == [x EXCEPT !.todo = Tail(x.todo), !.index = Recorded(g, Concerned(g))]
                       z == [NotGrading EXCEPT !.pc = "failed"]
            <7>1. grader' = [grader EXCEPT ![g] = y] \/ grader' = [grader EXCEPT ![g] = z]
              BY <6>1, <6>6 DEF OpenCase
            <7>2. y.pc = "grading" /\ z.pc = "failed"
              <8> HIDE DEF x
              <8> QED
                BY <6>1 DEF IsReport, ReportFields, NotGrading
            <7> HIDE DEF y, z
            <7> QED
              BY <1>1, <6>2, <7>1, <7>2
          <6> QED
            BY <3>1, <4>2, <5>2, <6>3, <6>4, <6>5, <6>6 DEF Report
        <5> QED
          BY <5>1, <5>2
      <4> QED
        BY <4>1, <4>2
    <3>2. CASE grader' = grader
      BY <1>1, <3>2
    <3> QED
      BY <1>1, <3>1, <3>2
      DEF Next, Propose, StageProposal, CreateRequirement, Decide, Store, CorrectCase, StartFiling,
          CreateIssue, FilingDone, vars
  <2>3. n \in 1..(Len(x.report) - Len(x.todo))
    <3>1. PICK S : x.report \in Seq(S)
      BY <2>1 DEF ReportsOn, RecoversInOrder
    <3>2. Len(x.report) \in Nat /\ DOMAIN x.report = 1..Len(x.report) /\ Len(x.todo) = 0
      BY <2>2, <3>1, LenProperties, EmptySeq
    <3> QED
      BY <1>1, <3>2
  <2>4. Recovered(x.report[n], x.requirements, cases)
    BY <2>1, <2>3 DEF ReportsOn, RecoversInOrder
  <2>5. DOMAIN x.requirements = 1..Len(x.requirements) /\ DOMAIN cases = 1..Len(cases)
    BY <1>1, <2>1, LenProperties, CasesProperties DEF ReportsOn, AreVersions, GovernanceInv
  <2> QED
    BY <2>4, <2>5 DEF Recovered, Covered, Range
<1>2. GovernanceInv /\ CitationInv /\ [Next]_vars =>
        [\A g \in 1..MaxReports :
            grader[g].pc = "grading" /\ grader'[g].pc = "answered" =>
                \A n \in DOMAIN grader[g].report : Covered(g, grader[g].report[n])]_vars
  BY <1>1
<1> QED
  BY <1>2, CitationsHold, PTL DEF Spec, AnsweredReportsAreCovered

-----------------------------------------------------------------------------
(***************************************************************************)
(* The filings: what each one has left in the tracker.                     *)
(***************************************************************************)
FilingFields == {"pc", "mode", "case", "requirement", "owners", "done"}

\* The list names every owner once, and the accountable one among them.
NamesOnce(owners, accountable) ==
    /\ \E S : owners \in Seq(S)
    /\ \A a, b \in 1..Len(owners) : owners[a] = owners[b] => a = b
    /\ \E n \in 1..Len(owners) : owners[n] = accountable

FiledIn(all, f) == Selected(all, {n \in DOMAIN all : all[n].filing = f})

\* What a filing x that left the issues q has done so far.
LeftBehind(x, q) ==
    /\ x = [field \in FilingFields |-> x[field]]
    /\ NamesOnce(x.owners, x.requirement.ownerRole)
    /\ x.mode \in {"dry-run", "live"}
    /\ x.done \in 0..Len(x.owners)
    /\ Len(q) \in 0..Len(x.owners)
    /\ \A n \in 1..Len(q) : q[n].owner = x.owners[n]
    /\ x.mode = "dry-run" => Len(q) = 0
    /\ x.mode = "live" =>
          /\ Len(q) \in {x.done, x.done + 1}
          /\ x.pc = "filing" => Len(q) = x.done
          /\ x.pc = "answered" => Len(q) = x.done /\ x.done = Len(x.owners)

FilingInv == \A f \in 1..Len(filings) : LeftBehind(filings[f], FiledIn(issues, f))

(* A role that stands twice in a list is kept where it stands first.       *)
LEMMA RolesNamedOnce ==
    ASSUME NEW S, NEW roles \in Seq(S), NEW m \in 1..Len(roles)
    PROVE  NamesOnce(DedupeRoles(roles), roles[m])
<1> DEFINE P == {k \in DOMAIN roles : \A j \in 1..(k - 1) : roles[j] # roles[k]}
           q == Selected(roles, P)
<1>1. q \in Seq(S) /\ DedupeRoles(roles) = q
  BY SelectedElements DEF DedupeRoles
<1>2. PICK at : Chooses(at, q, roles, P, Len(roles))
  BY SelectedPlaces
<1>3. DOMAIN roles = 1..Len(roles) /\ Len(roles) \in Nat
  BY LenProperties
<1> HIDE DEF q
<1>4. /\ at \in [1..Len(q) -> P \cap 1..Len(roles)]
      /\ \A i, j \in 1..Len(q) : i < j => at[i] < at[j]
      /\ \A k \in P \cap 1..Len(roles) : \E i \in 1..Len(q) : at[i] = k
      /\ \A i \in 1..Len(q) : q[i] = roles[at[i]]
  BY <1>2 DEF Chooses, Lists
<1>5. ASSUME NEW a \in 1..Len(q), NEW b \in 1..Len(q), q[a] = q[b]
      PROVE  ~(a < b)
  <2> SUFFICES ASSUME a < b PROVE FALSE
    OBVIOUS
  <2>1. at[a] \in 1..Len(roles) /\ at[b] \in P /\ at[b] \in 1..Len(roles) /\ at[a] < at[b]
    BY <1>4
  <2>2. at[a] \in 1..(at[b] - 1)
    BY <1>3, <2>1
  <2>3. roles[at[a]] # roles[at[b]]
    BY <2>1, <2>2
  <2> QED
    BY <1>4, <1>5, <2>3
<1>6. \A a, b \in 1..Len(q) : q[a] = q[b] => a = b
  BY <1>5
<1>7. \E n \in 1..Len(q) : q[n] = roles[m]
  <2> DEFINE T == {k \in 1..Len(roles) : roles[k] = roles[m]}
  <2>1. PICK k \in T : \A j \in T : k <= j
    <3>1. T \in SUBSET Nat /\ T # {}
      BY <1>3
    <3> HIDE DEF T
    <3> QED
      BY <3>1, LeastElement
  <2>2. k \in P
    <3>1. ASSUME NEW j \in 1..(k - 1)
          PROVE  roles[j] # roles[k]
      <4>1. j \in 1..Len(roles) /\ ~(k <= j)
        BY <1>3
      <4> QED
        BY <2>1, <4>1
    <3> QED
      BY <1>3, <3>1
  <2> QED
    BY <1>4, <2>1, <2>2
<1> QED
  BY <1>1, <1>6, <1>7 DEF NamesOnce

(* A filing starts with the accountable owner in its list.                 *)
LEMMA OwnersNamedOnce ==
    ASSUME NEW panel \in OwnerPanels, NEW role
    PROVE  NamesOnce(DedupeRoles(panel \o <<role>>), role)
<1> DEFINE S == Range(panel) \cup {role}
           roles == panel \o <<role>>
<1>1. panel \in Seq(S)
  <2>1. panel \in Seq(Range(panel)) /\ Range(panel) \subseteq S
    BY GovernanceAssumptions
  <2> QED
    BY <2>1, SeqMonotonic
<1>2. role \in S
  OBVIOUS
<1> HIDE DEF S
<1>3. roles \in Seq(S) /\ Len(panel) + 1 \in 1..Len(roles) /\ roles[Len(panel) + 1] = role
  BY <1>1, <1>2
<1> HIDE DEF roles
<1>4. NamesOnce(DedupeRoles(roles), roles[Len(panel) + 1])
  BY <1>3, RolesNamedOnce
<1> QED
  BY <1>3, <1>4 DEF roles

LEMMA Modes == AdapterModes \subseteq {"dry-run", "live"}
BY DEF AdapterModes, AdapterFromEnv

(* An issue of a filing comes after those it left, and after no others.    *)
LEMMA IssueFiled ==
    ASSUME NEW S, NEW all \in Seq(S), NEW x, NEW f
    PROVE  /\ FiledIn(all, f) \in Seq(S)
           /\ FiledIn(Append(all, x), f)
                = IF x.filing = f THEN Append(FiledIn(all, f), x) ELSE FiledIn(all, f)
<1> DEFINE P == {n \in DOMAIN all : all[n].filing = f}
           longer == Append(all, x)
           Q == {n \in DOMAIN longer : longer[n].filing = f}
<1>1. all \in Seq(S \cup {x}) /\ x \in S \cup {x}
  BY SeqMonotonic
<1>2. /\ Len(all) \in Nat
      /\ DOMAIN all = 1..Len(all)
      /\ DOMAIN longer = 1..(Len(all) + 1)
      /\ \A i \in 1..Len(all) : longer[i] = all[i]
      /\ longer[Len(all) + 1] = x
  BY <1>1
<1>3. /\ \A i \in 1..Len(all) : i \in P <=> i \in Q
      /\ Len(all) + 1 \in Q <=> x.filing = f
  <2> HIDE DEF longer
  <2> QED
    BY <1>2
<1>4. FiledIn(all, f) = Selected(all, P) /\ FiledIn(longer, f) = Selected(longer, Q)
  BY DEF FiledIn
<1> HIDE DEF P, Q
<1>5. Selected(Append(all, x), Q)
        = IF Len(all) + 1 \in Q THEN Append(Selected(all, P), x) ELSE Selected(all, P)
  BY <1>1, <1>3, SelectedAppend
<1> QED
  BY <1>3, <1>4, <1>5, SelectedElements

LEMMA NothingFiled ==
    ASSUME NEW S, NEW all \in Seq(S), NEW f,
           \A n \in 1..Len(all) : all[n].filing # f
    PROVE  Len(FiledIn(all, f)) = 0
<1> DEFINE P == {n \in DOMAIN all : all[n].filing = f}
<1>1. FiledIn(all, f) = Selected(all, P)
  BY DEF FiledIn
<1>2. P \cap 1..Len(all) = {}
  OBVIOUS
<1> HIDE DEF P
<1> DEFINE m == Len(Selected(all, P))
<1>3. /\ m \in Nat
      /\ \A i \in 1..m : \E k \in P \cap 1..Len(all) : TRUE
  BY SelectedElements
<1>4. Len(FiledIn(all, f)) = m
  BY <1>1
<1> HIDE DEF m
<1>5. 1 \notin 1..m
  BY <1>2, <1>3
<1> QED
  BY <1>3, <1>4, <1>5

(* What a call of the tracker makes of the running filing.                 *)
LEMMA CallLeaves ==
    ASSUME NEW x, NEW S, NEW q \in Seq(S), LeftBehind(x, q), x.pc = "filing",
           NEW issue, x.done < Len(x.owners), issue.owner = x.owners[x.done + 1]
    PROVE  /\ x.mode = "dry-run" => LeftBehind([x EXCEPT !.done = @ + 1], q)
           /\ x.mode # "dry-run" =>
                 /\ LeftBehind([x EXCEPT !.done = @ + 1], Append(q, issue))
                 /\ LeftBehind([x EXCEPT !.pc = "failed"], q)
                 /\ LeftBehind([x EXCEPT !.pc = "failed"], Append(q, issue))
<1> DEFINE y == [x EXCEPT !.done = @ + 1]
           z == [x EXCEPT !.pc = "failed"]
           t == Append(q, issue)
           N == Len(x.owners)
           m == Len(q)
<1>1. /\ x = [field \in FilingFields |-> x[field]]
      /\ NamesOnce(x.owners, x.requirement.ownerRole)
      /\ x.mode \in {"dry-run", "live"}
      /\ x.done \in 0..N
      /\ \A n \in 1..m : q[n].owner = x.owners[n]
      /\ x.mode = "dry-run" => m = 0
      /\ x.mode = "live" => m = x.done
      /\ x.done < N
  BY DEF LeftBehind
<1>2. N \in Nat /\ m \in Nat
  BY <1>1, LenProperties DEF NamesOnce
<1>3. /\ y = [field \in FilingFields |-> y[field]]
      /\ y.owners = x.owners /\ y.requirement = x.requirement /\ y.mode = x.mode
      /\ y.pc = "filing" /\ y.done = x.done + 1
  BY <1>1 DEF FilingFields
<1>4. /\ z = [field \in FilingFields |-> z[field]]
      /\ z.owners = x.owners /\ z.requirement = x.requirement /\ z.mode = x.mode
      /\ z.pc = "failed" /\ z.done = x.done
  BY <1>1 DEF FilingFields
<1>5. /\ Len(t) = m + 1
      /\ \A n \in 1..m : t[n] = q[n]
      /\ t[m + 1] = issue
  <2>1. q \in Seq(S \cup {issue}) /\ issue \in S \cup {issue}
    BY SeqMonotonic
  <2> QED
    BY <2>1
<1>6. ASSUME x.mode = "live"
      PROVE  \A n \in 1..Len(t) : t[n].owner = x.owners[n]
  BY <1>1, <1>2, <1>5, <1>6
<1> HIDE DEF y, z, t
<1>7. ASSUME x.mode = "dry-run"
      PROVE  LeftBehind(y, q)
  <2>1. m = 0 /\ y.done \in 0..N
    BY <1>1, <1>2, <1>3, <1>7
  <2> QED
    BY <1>1, <1>2, <1>3, <1>7, <2>1 DEF LeftBehind
<1>8. ASSUME x.mode = "live"
      PROVE  LeftBehind(y, t) /\ LeftBehind(z, q) /\ LeftBehind(z, t)
  <2>1. /\ m = x.done /\ m \in 0..N /\ m + 1 \in 0..N
        /\ y.done = m + 1
    BY <1>1, <1>2, <1>3, <1>8
  <2>2. LeftBehind(y, t)
    BY <1>1, <1>3, <1>5, <1>6, <1>8, <2>1 DEF LeftBehind
  <2>3. LeftBehind(z, q)
    BY <1>1, <1>4, <1>8, <2>1 DEF LeftBehind
  <2>4. LeftBehind(z, t)
    BY <1>1, <1>4, <1>5, <1>6, <1>8, <2>1 DEF LeftBehind
  <2> QED
    BY <2>2, <2>3, <2>4
<1> QED
  BY <1>1, <1>7, <1>8 DEF y, z, t

LEMMA AnswerLeaves ==
    ASSUME NEW x, NEW q, LeftBehind(x, q), x.pc = "filing", x.done = Len(x.owners)
    PROVE  LeftBehind([x EXCEPT !.pc = "answered"], q)
<1> DEFINE z == [x EXCEPT !.pc = "answered"]
<1>1. x = [field \in FilingFields |-> x[field]]
  BY DEF LeftBehind
<1>2. /\ z = [field \in FilingFields |-> z[field]]
      /\ z.owners = x.owners /\ z.requirement = x.requirement /\ z.mode = x.mode
      /\ z.pc = "answered" /\ z.done = x.done
  BY <1>1 DEF FilingFields
<1> HIDE DEF z
<1>3. LeftBehind(z, q)
  BY <1>2 DEF LeftBehind
<1> QED
  BY <1>3 DEF z

LEMMA FilingInitially ==
    ASSUME Init
    PROVE  FilingInv
<1>1. Len(filings) = 0
  BY EmptySeq DEF Init
<1> QED
  BY <1>1 DEF FilingInv

(* A filing starts with nothing in the tracker.                            *)
LEMMA StartedFilingLeaves ==
    ASSUME TrackerInv, FilingInv, StartFiling
    PROVE  FilingInv'
<1>1. PICK case \in Range(cases), r \in Range(Currents(log)), panel \in OwnerPanels,
           mode \in AdapterModes :
           filings' = Append(filings, [pc |-> "filing", mode |-> mode, case |-> case.id,
                                       requirement |-> r,
                                       owners |-> DedupeRoles(panel \o <<r.ownerRole>>),
                                       done |-> 0])
  BY DEF StartFiling
<1> DEFINE new == [pc |-> "filing", mode |-> mode, case |-> case.id, requirement |-> r,
                   owners |-> DedupeRoles(panel \o <<r.ownerRole>>), done |-> 0]
           f == Len(filings) + 1
           q == FiledIn(issues, f)
<1>2. PICK F : filings \in Seq(F)
  BY DEF TrackerInv
<1>3. PICK I : issues \in Seq(I)
  BY DEF TrackerInv
<1>4. Len(filings) \in Nat
  BY <1>2, LenProperties
<1>5. issues' = issues
  BY DEF StartFiling
<1>6. Len(q) = 0
  <2>1. \A n \in 1..Len(issues) : issues[n].filing # f
    BY <1>4 DEF TrackerInv
  <2> HIDE DEF f
  <2> QED
    BY <1>3, <2>1, NothingFiled
<1>7. NamesOnce(new.owners, new.requirement.ownerRole) /\ new.mode \in {"dry-run", "live"}
  BY OwnersNamedOnce, Modes
<1>8. /\ new = [field \in FilingFields |-> new[field]]
      /\ new.pc = "filing" /\ new.done = 0
  BY DEF FilingFields
<1>9. /\ Len(filings') = f
      /\ \A g \in 1..Len(filings) : filings'[g] = filings[g]
      /\ filings'[f] = new
  <2>1. filings \in Seq(F \cup {new}) /\ new \in F \cup {new}
    BY <1>2, SeqMonotonic
  <2>2. filings' = Append(filings, new)
    BY <1>1
  <2> HIDE DEF new
  <2> QED
    BY <2>1, <2>2
<1> HIDE DEF new, q
<1>10. LeftBehind(new, q)
  <2>1. Len(new.owners) \in Nat
    BY <1>7, LenProperties DEF NamesOnce
  <2> QED
    BY <1>6, <1>7, <1>8, <2>1 DEF LeftBehind
<1>11. ASSUME NEW g \in 1..f
       PROVE  LeftBehind(filings'[g], FiledIn(issues, g))
  <2>1. CASE g \in 1..Len(filings)
    BY <1>9, <2>1 DEF FilingInv
  <2>2. CASE g = f
    BY <1>9, <1>10, <2>2 DEF q
  <2> QED
    BY <1>4, <2>1, <2>2
<1> QED
  BY <1>5, <1>9, <1>11 DEF FilingInv

(* A step that changes the last filing, and perhaps adds an issue of it.   *)
LEMMA LastFilingLeaves ==
    ASSUME TrackerInv, FilingInv, filings # <<>>, NEW y,
           filings' = [filings EXCEPT ![Len(filings)] = y],
           \/ issues' = issues /\ LeftBehind(y, FiledIn(issues, Len(filings)))
           \/ /\ issues' = Append(issues, NextIssue)
              /\ LeftBehind(y, Append(FiledIn(issues, Len(filings)), NextIssue))
    PROVE  FilingInv'
<1> DEFINE f == Len(filings)
<1>1. PICK F : filings \in Seq(F)
  BY DEF TrackerInv
<1>2. PICK I : issues \in Seq(I)
  BY DEF TrackerInv
<1>3. f \in Nat /\ f \in 1..f /\ DOMAIN filings = 1..f
  BY <1>1, EmptySeq
<1>4. Len(filings') = f
  BY <1>1, <1>3, FilingsChange
<1>5. filings'[f] = y /\ \A g \in 1..f : g # f => filings'[g] = filings[g]
  BY <1>3
<1>6. NextIssue.filing = f
  BY DEF NextIssue
<1> HIDE DEF f
<1>7. ASSUME NEW g \in 1..f
      PROVE  LeftBehind(filings'[g], FiledIn(issues', g))
  <2>1. FiledIn(Append(issues, NextIssue), g)
          = IF f = g THEN Append(FiledIn(issues, g), NextIssue) ELSE FiledIn(issues, g)
    BY <1>2, <1>6, IssueFiled
  <2>2. CASE g = f
    BY <1>5, <2>1, <2>2 DEF f
  <2>3. CASE g # f
    <3>1. LeftBehind(filings[g], FiledIn(issues, g))
      BY DEF FilingInv, f
    <3>2. FiledIn(issues', g) = FiledIn(issues, g)
      BY <2>1, <2>3
    <3> QED
      BY <1>5, <2>3, <3>1, <3>2
  <2> QED
    BY <2>2, <2>3
<1> QED
  BY <1>4, <1>7 DEF FilingInv

LEMMA FilingStays ==
    ASSUME TrackerInv, FilingInv, [Next]_vars
    PROVE  FilingInv'
<1> DEFINE f == Len(filings)
           x == filings[f]
           q == FiledIn(issues, f)
<1>1. PICK F : filings \in Seq(F)
  BY DEF TrackerInv
<1>2. PICK I : issues \in Seq(I)
  BY DEF TrackerInv
<1>3. q \in Seq(I)
  BY <1>2, IssueFiled
<1>4. ASSUME IsFiling
      PROVE  filings # <<>> /\ x.pc = "filing" /\ LeftBehind(x, q)
  <2>1. filings # <<>> /\ x.pc = "filing"
    BY <1>4 DEF IsFiling, Filing
  <2>2. f \in 1..f
    BY <1>1, <2>1, EmptySeq
  <2> QED
    BY <2>1, <2>2 DEF FilingInv
<1>5. CASE UNCHANGED <<filings, issues>>
  BY <1>5 DEF FilingInv
<1>6. CASE CreateIssue
  <2>1. IsFiling /\ x.done < Len(x.owners) /\ NextIssue.owner = x.owners[x.done + 1]
    BY <1>6 DEF CreateIssue, Filing, NextIssue
  <2>2. \/ /\ x.mode = "dry-run"
           /\ filings' = [filings EXCEPT ![f] = [x EXCEPT !.done = @ + 1]]
           /\ issues' = issues
        \/ /\ x.mode # "dry-run"
           /\ filings' = [filings EXCEPT ![f] = [x EXCEPT !.done = @ + 1]]
           /\ issues' = Append(issues, NextIssue)
        \/ /\ x.mode # "dry-run"
           /\ filings' = [filings EXCEPT ![f] = [x EXCEPT !.pc = "failed"]]
           /\ issues' = issues \/ issues' = Append(issues, NextIssue)
    BY <1>6 DEF CreateIssue, Filing, TrackerAfter
  <2> HIDE DEF q
  <2>3. /\ x.mode = "dry-run" => LeftBehind([x EXCEPT !.done = @ + 1], q)
        /\ x.mode # "dry-run" =>
                 /\ LeftBehind([x EXCEPT !.done = @ + 1], Append(q, NextIssue))
                 /\ LeftBehind([x EXCEPT !.pc = "failed"], q)
                 /\ LeftBehind([x EXCEPT !.pc = "failed"], Append(q, NextIssue))
    <3> HIDE DEF x
    <3> QED
      BY <1>3, <1>4, <2>1, CallLeaves
  <2> DEFINE y == [x EXCEPT !.done = @ + 1]
             z == [x EXCEPT !.pc = "failed"]
  <2> HIDE DEF y, z
  <2>4. ASSUME NEW w, filings' = [filings EXCEPT ![f] = w],
               \/ issues' = issues /\ LeftBehind(w, q)
               \/ issues' = Append(issues, NextIssue) /\ LeftBehind(w, Append(q, NextIssue))
        PROVE  FilingInv'
    BY <1>4, <2>1, <2>4, LastFilingLeaves DEF q
  <2> QED
    BY <2>2, <2>3, <2>4
<1>7. CASE FilingDone
  <2> DEFINE y == [x EXCEPT !.pc = "answered"]
  <2>1. IsFiling /\ x.done = Len(x.owners) /\ issues' = issues
    BY <1>7 DEF FilingDone, Filing
  <2>2. filings' = [filings EXCEPT ![f] = y]
    BY <1>7 DEF FilingDone
  <2>3. LeftBehind(y, q)
    <3> HIDE DEF x, q
    <3> QED
      BY <1>4, <2>1, AnswerLeaves
  <2> HIDE DEF y
  <2> QED
    BY <1>4, <2>1, <2>2, <2>3, LastFilingLeaves
<1>8. CASE StartFiling
  BY <1>8, StartedFilingLeaves
<1>9. CASE Propose \/ StageProposal \/ CreateRequirement \/ Decide \/ CorrectCase \/ UNCHANGED vars
  <2>1. UNCHANGED <<filings, issues>>
    BY <1>9 DEF Propose, StageProposal, CreateRequirement, Decide, Store, CorrectCase, vars
  <2> QED
    BY <1>5, <2>1
<1>10. ASSUME NEW g \in 1..MaxReports, Report(g)
       PROVE  FilingInv'
  <2>1. UNCHANGED <<filings, issues>>
    BY <1>10 DEF Report, StartReport, ReadLiveCases, Dedupe, OpenCase, AnswerReport
  <2> QED
    BY <1>5, <2>1
<1> QED
  BY <1>6, <1>7, <1>8, <1>9, <1>10 DEF Next

LeftAPrefix(x, q) ==
    LET filed == [n \in DOMAIN q |-> q[n].owner]
    IN  /\ filed = SubSeq(x.owners, 1, Len(filed))
        /\ Cardinality(Range(x.owners)) = Len(x.owners)
        /\ Cardinality({n \in DOMAIN x.owners : x.owners[n] = x.requirement.ownerRole}) = 1
        /\ x.mode = "dry-run" => filed = <<>>
        /\ x.mode = "live" => Len(filed) \in x.done..(x.done + 1)
        /\ x.mode = "live" /\ x.pc = "answered" => Len(filed) = Len(x.owners)

(* What the invariant says of one filing is what the property asks of it.  *)
LEMMA LeftBehindIsAPrefix ==
    ASSUME NEW x, NEW S, NEW q \in Seq(S), LeftBehind(x, q)
    PROVE  LeftAPrefix(x, q)
<1> DEFINE filed == [n \in DOMAIN q |-> q[n].owner]
           owners == x.owners
           N == Len(owners)
           m == Len(q)
           accountable == x.requirement.ownerRole
<1>1. PICK O : owners \in Seq(O)
  BY DEF LeftBehind, NamesOnce
<1>2. /\ N \in Nat /\ m \in Nat /\ DOMAIN owners = 1..N /\ DOMAIN q = 1..m
      /\ owners \in [1..N -> O]
  BY <1>1, LenProperties
<1>3. /\ m <= N
      /\ \A n \in 1..m : q[n].owner = owners[n]
      /\ x.mode = "dry-run" => m = 0
      /\ x.mode = "live" => m \in {x.done, x.done + 1}
      /\ x.mode = "live" /\ x.pc = "answered" => m = N
      /\ x.done \in 0..N
  <2>1. /\ m \in 0..N
        /\ \A n \in 1..m : q[n].owner = owners[n]
        /\ x.mode = "dry-run" => m = 0
        /\ x.mode = "live" => m \in {x.done, x.done + 1}
        /\ x.mode = "live" /\ x.pc = "answered" => m = x.done /\ x.done = N
        /\ x.done \in 0..N
    BY DEF LeftBehind
  <2> HIDE DEF N, m
  <2> QED
    BY <1>2, <2>1
<1>4. /\ \A a, b \in 1..N : owners[a] = owners[b] => a = b
      /\ \E n \in 1..N : owners[n] = accountable
  BY DEF LeftBehind, NamesOnce
<1> HIDE DEF owners, N, m, accountable
<1>5. filed \in Seq(O) /\ Len(filed) = m
  <2>1. \A n \in 1..m : n \in 1..N
    BY <1>2, <1>3
  <2>2. filed \in [1..m -> O]
    BY <1>2, <1>3, <2>1
  <2> HIDE DEF filed
  <2> QED
    BY <1>2, <2>2, IsASeq, LenProperties
<1>6. filed = SubSeq(owners, 1, m)
  <2>1. SubSeq(owners, 1, m) = [n \in 1..m |-> owners[n]]
    <3>1. /\ SubSeq(owners, 1, m) \in Seq(O)
          /\ Len(SubSeq(owners, 1, m)) = m
          /\ \A n \in 1..m : SubSeq(owners, 1, m)[n] = owners[n]
      <4>1. \A i \in 1..m : owners[i] \in O
        BY <1>2, <1>3
      <4>2. 1 \in Int /\ m \in Int /\ m - 1 + 1 = m /\ (1 <= m \/ m = 0)
        BY <1>2
      <4>3. /\ SubSeq(owners, 1, m) \in Seq(O)
            /\ Len(SubSeq(owners, 1, m)) = IF 1 <= m THEN m - 1 + 1 ELSE 0
            /\ \A i \in 1..(m - 1 + 1) : SubSeq(owners, 1, m)[i] = owners[1 + i - 1]
        BY <4>1, <4>2, SubSeqProperties
      <4>4. \A i \in 1..m : 1 + i - 1 = i
        BY <1>2
      <4> QED
        BY <4>2, <4>3, <4>4
    <3> QED
      BY <3>1, LenProperties
  <2>2. filed = [n \in 1..m |-> q[n].owner]
    BY <1>2
  <2> QED
    BY <1>3, <2>1, <2>2
<1>7. Cardinality(Range(owners)) = N
  <2>1. owners \in Bijection(1..N, Range(owners))
    BY <1>2, <1>4 DEF Bijection, Injection, Surjection, IsInjective, Range
  <2>2. ExistsBijection(1..N, Range(owners))
    BY <2>1 DEF ExistsBijection
  <2>3. IsFiniteSet(1..N) /\ Cardinality(1..N) = N
    BY <1>2, FS_Interval
  <2> QED
    BY <2>2, <2>3, FS_Bijection
<1>8. Cardinality({n \in DOMAIN owners : owners[n] = accountable}) = 1
  <2>1. PICK n \in 1..N : owners[n] = accountable
    BY <1>4
  <2>2. {k \in DOMAIN owners : owners[k] = accountable} = {n}
    BY <1>2, <1>4, <2>1
  <2> QED
    BY <2>2, FS_Singleton
<1>9. m = 0 => filed = <<>>
  BY <1>5, EmptySeq
<1>10. x.mode = "live" => m \in x.done..(x.done + 1)
  BY <1>2, <1>3
<1> HIDE DEF filed
<1> QED
  BY <1>3, <1>5, <1>6, <1>7, <1>8, <1>9, <1>10 DEF filed, owners, N, accountable, LeftAPrefix

(* A filing, however it ended and whatever ran beside it, left the issues  *)
(* of the first owners of its list in the tracker, one for each, all of    *)
(* them when it answered in live mode and none in dry-run mode             *)
(* (runRemediation and the Linear adapter in packages/governance).         *)
THEOREM FilingsLeavePrefixes == Spec => []FilingsArePrefixes
<1> DEFINE Inv == TrackerInv /\ FilingInv
<1>1. Init => Inv
  BY TrackerInitially, FilingInitially
<1>2. Inv /\ [Next]_vars => Inv'
  BY TrackerStays, FilingStays
<1>3. Inv => FilingsArePrefixes
  <2> SUFFICES ASSUME Inv PROVE FilingsArePrefixes
    OBVIOUS
  <2>1. PICK I : issues \in Seq(I)
    BY DEF TrackerInv
  <2>2. DOMAIN filings = 1..Len(filings)
    BY LenProperties DEF TrackerInv
  <2>3. ASSUME NEW f \in 1..Len(filings)
        PROVE  Filed(f) = FiledIn(issues, f) /\ Filed(f) \in Seq(I) /\ LeftBehind(filings[f], Filed(f))
    <3>1. Filed(f) = FiledIn(issues, f)
      BY DEF Filed, FiledIn
    <3> QED
      BY <2>1, <3>1, IssueFiled DEF FilingInv
  <2> QED
    <3>1. \A f \in 1..Len(filings) : LeftAPrefix(filings[f], Filed(f))
      BY <2>3, LeftBehindIsAPrefix
    <3> QED
      BY <2>2, <3>1 DEF LeftAPrefix, FilingsArePrefixes
<1> QED
  BY <1>1, <1>2, <1>3, PTL DEF Spec

-----------------------------------------------------------------------------
(***************************************************************************)
(* The evidence: what a loader reads, and what a draft quotes of it.       *)
(***************************************************************************)
IsList(s) == \E S : s \in Seq(S)

LEMMA ListProperties ==
    ASSUME NEW s, IsList(s)
    PROVE  Len(s) \in Nat /\ DOMAIN s = 1..Len(s)
BY LenProperties DEF IsList

LEMMA FilteredIsList ==
    ASSUME NEW n \in Nat, NEW s, s = [i \in 1..n |-> s[i]], NEW P
    PROVE  IsList(Selected(s, P))
<1> DEFINE S == {s[i] : i \in 1..n}
<1>1. s \in [1..n -> S]
  <2>1. \A i \in 1..n : s[i] \in S
    OBVIOUS
  <2> HIDE DEF S
  <2> QED
    BY <2>1
<1> HIDE DEF S
<1>2. s \in Seq(S)
  BY <1>1
<1> QED
  BY <1>2, SelectedElements DEF IsList

(* The places of a set are listed in the file's order.                     *)
LEMMA PlacesListed ==
    ASSUME NEW items, IsList(items), NEW at
    PROVE  /\ IsList(Places(items, at))
           /\ \A n \in DOMAIN Places(items, at) :
                 Places(items, at)[n] \in at /\ Places(items, at)[n] \in DOMAIN items
<1> DEFINE s == [k \in DOMAIN items |-> k]
           N == Len(items)
<1>1. N \in Nat /\ DOMAIN items = 1..N
  BY ListProperties
<1>2. Places(items, at) = Selected(s, at)
  BY DEF Places
<1>3. s \in Seq(Nat) /\ Len(s) = N /\ \A k \in 1..N : s[k] = k
  <2>1. s \in [1..N -> Nat] /\ \A k \in 1..N : s[k] = k
    BY <1>1
  <2> HIDE DEF s
  <2>2. s \in Seq(Nat)
    BY <1>1, <2>1
  <2>3. DOMAIN s = 1..Len(s) /\ Len(s) \in Nat
    BY <2>2, LenProperties
  <2> QED
    BY <1>1, <2>1, <2>2, <2>3
<1> HIDE DEF s, N
<1>4. /\ Selected(s, at) \in Seq(Nat)
      /\ DOMAIN Selected(s, at) = 1..Len(Selected(s, at))
      /\ \A i \in 1..Len(Selected(s, at)) : \E k \in at \cap 1..Len(s) : Selected(s, at)[i] = s[k]
  BY <1>3, SelectedElements
<1> QED
  BY <1>1, <1>2, <1>3, <1>4 DEF IsList

LEMMA ItemwiseIsList ==
    ASSUME NEW raw, IsList(raw.items), NEW kind
    PROVE  IsList(Itemwise(raw, kind))
<1> DEFINE items == raw.items
           starts == Places(items, OfKind(items, kind))
           texts == [n \in DOMAIN starts |-> UNION {items[k].words : k \in {starts[n]}}]
           kept == {n \in DOMAIN texts : texts[n] # {}}
<1>1. Itemwise(raw, kind) = Selected(texts, kept)
  BY DEF Itemwise, Texts
<1>2. IsList(starts)
  BY PlacesListed
<1> HIDE DEF starts
<1>3. Len(starts) \in Nat /\ DOMAIN starts = 1..Len(starts)
  BY <1>2, ListProperties
<1>4. texts = [i \in 1..Len(starts) |-> texts[i]]
  BY <1>3
<1> HIDE DEF texts, kept
<1> QED
  BY <1>1, <1>3, <1>4, FilteredIsList

LEMMA ByHeadingsIsList ==
    ASSUME NEW items, IsList(items)
    PROVE  IsList(ChunkByHeadings(items))
<1> DEFINE Heading(k) == items[k].kind = "heading"
           starts == Places(items, OfKind(items, "heading"))
           texts == [n \in DOMAIN starts |->
                        UNION {items[k].words : k \in Until(items, starts[n] + 1, Heading)}]
           kept == {n \in DOMAIN texts : texts[n] # {}}
<1>1. ChunkByHeadings(items) = Selected(texts, kept)
  BY DEF ChunkByHeadings, Texts
<1>2. IsList(starts)
  BY PlacesListed
<1> HIDE DEF starts
<1>3. Len(starts) \in Nat /\ DOMAIN starts = 1..Len(starts)
  BY <1>2, ListProperties
<1>4. texts = [i \in 1..Len(starts) |-> texts[i]]
  BY <1>3
<1> HIDE DEF texts, kept
<1> QED
  BY <1>1, <1>3, <1>4, FilteredIsList

LEMMA ByParagraphsIsList ==
    ASSUME NEW items, IsList(items)
    PROVE  IsList(ChunkByParagraphs(items))
<1> DEFINE Blank(k) == items[k].words = {}
           Starts(k) == ~Blank(k) /\ (k = 1 \/ Blank(k - 1))
           starts == Places(items, {k \in DOMAIN items : Starts(k)})
           texts == [n \in DOMAIN starts |->
                        UNION {items[k].words : k \in Until(items, starts[n], Blank)}]
           kept == {n \in DOMAIN texts : texts[n] # {}}
<1>1. ChunkByParagraphs(items) = Selected(texts, kept)
  BY DEF ChunkByParagraphs, Texts
<1>2. IsList(starts)
  BY PlacesListed
<1> HIDE DEF starts
<1>3. Len(starts) \in Nat /\ DOMAIN starts = 1..Len(starts)
  BY <1>2, ListProperties
<1>4. texts = [i \in 1..Len(starts) |-> texts[i]]
  BY <1>3
<1> HIDE DEF texts, kept
<1> QED
  BY <1>1, <1>3, <1>4, FilteredIsList

LEMMA EmailIsList ==
    ASSUME NEW raw, IsList(raw.items)
    PROVE  IsList(LoadEmail(raw))
<1> DEFINE items == raw.items
           Separator(k) == items[k].kind = "separator"
           Starts(k) == k = 1 \/ Separator(k)
           starts == Places(items, {k \in DOMAIN items : Starts(k)})
           texts == [n \in DOMAIN starts |->
                        UNION {items[k].words :
                                 k \in {starts[n]} \cup Until(items, starts[n] + 1, Separator)}]
           kept == {n \in DOMAIN texts : texts[n] # {}}
<1>1. LoadEmail(raw) = Selected(texts, kept)
  BY DEF LoadEmail, Texts
<1>2. IsList(starts)
  BY PlacesListed
<1> HIDE DEF starts
<1>3. Len(starts) \in Nat /\ DOMAIN starts = 1..Len(starts)
  BY <1>2, ListProperties
<1>4. texts = [i \in 1..Len(starts) |-> texts[i]]
  BY <1>3
<1> HIDE DEF texts, kept
<1> QED
  BY <1>1, <1>3, <1>4, FilteredIsList

(* Whatever a file is taken for, what is loaded of it is a list of texts.  *)
LEMMA LoadIsList ==
    ASSUME NEW file, IsList(file.raw.items)
    PROVE  IsList(Load(file))
<1> DEFINE raw == file.raw
<1>1. IsList(<<>>)
  <2>1. <<>> \in Seq({})
    OBVIOUS
  <2> QED
    BY <2>1 DEF IsList
<1>2. \A kind : IsList(Itemwise(raw, kind))
  BY ItemwiseIsList
<1>3. IsList(LoadTranscript(raw))
  BY <1>2 DEF LoadTranscript
<1>4. IsList(LoadEmail(raw))
  BY EmailIsList
<1>5. IsList(LoadSlack(raw)) /\ IsList(LoadLinear(raw)) /\ IsList(LoadAgentOutput(raw))
  BY <1>1, <1>2 DEF LoadSlack, LoadLinear, LoadAgentOutput
<1>6. IsList(WholeDocument(raw.items))
  <2> DEFINE whole == UNION {raw.items[k].words : k \in DOMAIN raw.items}
  <2>1. <<whole>> \in Seq({whole})
    OBVIOUS
  <2> QED
    BY <2>1 DEF IsList, WholeDocument
<1>7. IsList(ChunkByHeadings(raw.items)) /\ IsList(ChunkByParagraphs(raw.items))
  BY ByHeadingsIsList, ByParagraphsIsList
<1>8. IsList(LoadDocument(raw))
  BY <1>1, <1>6, <1>7 DEF LoadDocument
<1> DEFINE type == RouteSourceType(file)
<1>9. Load(file) \in {LoadTranscript(raw), LoadDocument(raw), LoadEmail(raw), LoadSlack(raw),
                      LoadLinear(raw), LoadAgentOutput(raw), <<>>}
  BY DEF Load
<1> QED
  BY <1>1, <1>3, <1>4, <1>5, <1>8, <1>9

(* A flat list holds what its parts hold.                                  *)
FlattensTo(f, seqs, n) ==
    f = [k \in 0..n |-> IF k = 0 THEN <<>> ELSE f[k - 1] \o seqs[k]]

LEMMA FlatteningExists ==
    ASSUME NEW S, NEW n \in Nat, NEW seqs, \A k \in 1..n : seqs[k] \in Seq(S)
    PROVE  \E f : FlattensTo(f, seqs, n)
<1> DEFINE next == [k \in 1..n |-> [q \in Seq(S) |-> q \o seqs[k]]]
<1>1. <<>> \in Seq(S)
  OBVIOUS
<1>2. \A k \in 1..n : \A q \in Seq(S) : q \o seqs[k] \in Seq(S)
  BY ConcatProperties
<1>3. \A k \in 1..n : next[k] \in [Seq(S) -> Seq(S)]
  BY <1>2
<1>4. \A k \in 1..n : \A q \in Seq(S) : next[k][q] = q \o seqs[k]
  OBVIOUS
<1> HIDE DEF next
<1>5. PICK f \in [0..n -> Seq(S)] : Iterates(f, <<>>, next, n)
  <2> DEFINE T == Seq(S)
  <2> HIDE DEF T
  <2>1. <<>> \in T /\ \A k \in 1..n : next[k] \in [T -> T]
    BY <1>1, <1>3 DEF T
  <2>2. \E f \in [0..n -> T] : Iterates(f, <<>>, next, n)
    BY <2>1, IterationExists
  <2> QED
    BY <2>2 DEF T
<1>6. f = [k \in 0..n |-> f[k]]
  OBVIOUS
<1>7. ASSUME NEW k \in 0..n
      PROVE  f[k] = IF k = 0 THEN <<>> ELSE f[k - 1] \o seqs[k]
  <2>1. f[k] = IF k = 0 THEN <<>> ELSE next[k][f[k - 1]]
    BY <1>5 DEF Iterates
  <2>2. k = 0 \/ (k \in 1..n /\ k - 1 \in 0..n)
    OBVIOUS
  <2> QED
    BY <1>4, <2>1, <2>2
<1> QED
  BY <1>6, <1>7 DEF FlattensTo

HeldBy(q, seqs, n) ==
    \A j \in 1..Len(q) : \E k \in 1..n : \E i \in 1..Len(seqs[k]) : q[j] = seqs[k][i]

LEMMA FlattenedElements ==
    ASSUME NEW S, NEW seqs, Len(seqs) \in Nat, \A k \in 1..Len(seqs) : seqs[k] \in Seq(S)
    PROVE  /\ Flatten(seqs) \in Seq(S)
           /\ HeldBy(Flatten(seqs), seqs, Len(seqs))
<1> DEFINE N == Len(seqs)
           upTo == CHOOSE f : FlattensTo(f, seqs, N)
           G == {n \in 0..N : upTo[n] \in Seq(S) /\ HeldBy(upTo[n], seqs, N)}
<1>1. Flatten(seqs) = upTo[N]
  BY DEF Flatten, FlattensTo
<1>2. N \in Nat
  OBVIOUS
<1>3. FlattensTo(upTo, seqs, N)
  <2>1. \E f : FlattensTo(f, seqs, N)
    BY FlatteningExists
  <2> QED
    BY <2>1
<1>4. \A k \in 1..N : seqs[k] \in Seq(S)
  OBVIOUS
<1> HIDE DEF upTo, N
<1>5. \A k \in 0..N : upTo[k] = IF k = 0 THEN <<>> ELSE upTo[k - 1] \o seqs[k]
  BY <1>3 DEF FlattensTo
<1>6. 0 \in G
  <2>1. upTo[0] = <<>> /\ 0 \in 0..N
    BY <1>2, <1>5
  <2>2. <<>> \in Seq(S) /\ Len(<<>>) = 0
    OBVIOUS
  <2> QED
    <3>1. HeldBy(<<>>, seqs, N)
      BY <2>2 DEF HeldBy
    <3> QED
      BY <2>1, <2>2, <3>1
<1>7. ASSUME NEW n \in 1..N, n - 1 \in G
      PROVE  n \in G
  <2> DEFINE q == upTo[n - 1]
             t == seqs[n]
             a == Len(q)
             b == Len(t)
  <2>1. n \in 0..N /\ n # 0
    BY <1>2
  <2>2. upTo[n] = q \o t
    BY <1>5, <2>1
  <2>3. q \in Seq(S) /\ t \in Seq(S) /\ HeldBy(q, seqs, N)
    BY <1>4, <1>7
  <2>4. a \in Nat /\ b \in Nat
    BY <2>3, LenProperties
  <2> HIDE DEF q, t, a, b
  <2>5. /\ q \o t \in Seq(S) /\ Len(q \o t) = a + b
        /\ \A j \in 1..(a + b) : (q \o t)[j] = IF j <= a THEN q[j] ELSE t[j - a]
    BY <2>3, ConcatProperties DEF a, b
  <2>6. ASSUME NEW j \in 1..(a + b)
        PROVE  \E k \in 1..N : \E i \in 1..Len(seqs[k]) : (q \o t)[j] = seqs[k][i]
    <3>1. CASE j <= a
      <4>1. j \in 1..Len(q) /\ (q \o t)[j] = q[j]
        BY <2>4, <2>5, <3>1 DEF a
      <4> QED
        BY <2>3, <4>1 DEF HeldBy
    <3>2. CASE ~(j <= a)
      <4>1. j - a \in 1..b /\ (q \o t)[j] = t[j - a]
        BY <2>4, <2>5, <3>2
      <4> QED
        BY <4>1 DEF b, t
    <3> QED
      BY <3>1, <3>2
  <2>7. HeldBy(q \o t, seqs, N)
    BY <2>5, <2>6 DEF HeldBy
  <2> QED
    BY <2>1, <2>2, <2>5, <2>7
<1> HIDE DEF G
<1>8. 0..N \subseteq G
  BY <1>2, <1>6, <1>7, UpToInduction
<1>9. upTo[N] \in Seq(S) /\ HeldBy(upTo[N], seqs, N)
  BY <1>2, <1>8 DEF G
<1> QED
  BY <1>1, <1>9 DEF N

(* The files that are loaded are files of the folder.                      *)
LEMMA LoadedFiles ==
    ASSUME NEW folder \in Folders
    PROVE  /\ Loaded(folder.files) \in Seq(Range(folder.files))
           /\ \A i \in 1..Len(Loaded(folder.files)) :
                 Loaded(folder.files)[i] \in Range(folder.files)
<1> DEFINE files == folder.files
           S == Range(files)
           P == {i \in Candidates(files) : Load(files[i]) # <<>>}
<1>1. files \in Seq(S)
  BY GovernanceAssumptions
<1>2. Loaded(files) = Selected(files, P)
  BY DEF Loaded
<1> HIDE DEF files, P, S
<1>3. Loaded(files) \in Seq(S)
  BY <1>1, <1>2, SelectedElements
<1>4. \A i \in 1..Len(Loaded(files)) : Loaded(files)[i] \in S
  BY <1>3
<1> QED
  BY <1>3, <1>4 DEF files, S

(* Every chunk of a bundle quotes a file of its folder, or is pinned.      *)
IsPinned(c) == c \in Range(FixtureBundle.chunks)

IsRead(c) ==
    \E folder \in Folders : \E f \in Range(folder.files) :
        c.sourceId = f.path /\ c.hash \in Range(Load(f))

LEMMA ChunksRead ==
    ASSUME NEW folder \in Folders, NEW opts \in IngestOptions,
           NEW b, b = IngestFolder(folder, opts), b # None
    PROVE  IsList(b.chunks) /\ \A k \in DOMAIN b.chunks : IsPinned(b.chunks[k]) \/ IsRead(b.chunks[k])
<1> DEFINE loaded == Loaded(folder.files)
           N == Len(loaded)
           parts == ChunksOf(loaded)
<1>1. \/ b = FixtureBundle
      \/ b.chunks = Flatten(parts)
  BY DEF IngestFolder
<1>2. CASE b = FixtureBundle
  <2> DEFINE pinned == FixtureBundle.chunks
  <2>1. pinned \in Seq(Range(pinned))
    BY GovernanceAssumptions
  <2>2. \A k \in DOMAIN pinned : pinned[k] \in Range(pinned)
    BY DEF Range
  <2> QED
    BY <1>2, <2>1, <2>2 DEF IsList, IsPinned
<1>3. CASE b.chunks = Flatten(parts)
  <2>1. /\ loaded \in Seq(Range(folder.files))
        /\ \A i \in 1..N : loaded[i] \in Range(folder.files)
    BY LoadedFiles
  <2>2. N \in Nat /\ DOMAIN loaded = 1..N
    BY <2>1, LenProperties
  <2> DEFINE part(i) == [n \in DOMAIN Load(loaded[i]) |->
                            [sourceId |-> loaded[i].path, hash |-> Load(loaded[i])[n]]]
             S == UNION {{part(i)[n] : n \in DOMAIN Load(loaded[i])} : i \in 1..N}
  <2>3. parts = [i \in 1..N |-> part(i)]
    BY <2>2 DEF ChunksOf
  <2> HIDE DEF loaded, N
  <2>4. ASSUME NEW i \in 1..N
        PROVE  /\ IsList(Load(loaded[i]))
               /\ part(i) \in Seq(S)
               /\ Len(part(i)) = Len(Load(loaded[i]))
    <3>1. IsList(Load(loaded[i]))
      <4>1. loaded[i].raw.items \in Seq(Range(loaded[i].raw.items))
        BY <2>1, GovernanceAssumptions
      <4>2. IsList(loaded[i].raw.items)
        BY <4>1 DEF IsList
      <4> QED
        BY <4>2, LoadIsList
    <3> DEFINE m == Len(Load(loaded[i]))
    <3>2. m \in Nat /\ DOMAIN Load(loaded[i]) = 1..m
      BY <3>1, ListProperties
    <3>3. \A n \in 1..m : part(i)[n] \in S
      <4> DEFINE X(k) == {part(k)[n] : n \in DOMAIN Load(loaded[k])}
      <4> HIDE DEF part
      <4>1. \A n \in 1..m : part(i)[n] \in X(i)
        BY <3>2
      <4> HIDE DEF X
      <4>2. X(i) \subseteq UNION {X(k) : k \in 1..N}
        OBVIOUS
      <4> QED
        BY <4>1, <4>2 DEF X
    <3>4. part(i) = [n \in 1..m |-> part(i)[n]]
      BY <3>2
    <3> HIDE DEF part, S, m
    <3>5. part(i) \in [1..m -> S]
      BY <3>3, <3>4
    <3>6. part(i) \in Seq(S) /\ DOMAIN part(i) = 1..m
      BY <3>2, <3>5
    <3>7. Len(part(i)) = m
      BY <3>2, <3>6, LenProperties
    <3> QED
      BY <3>1, <3>6, <3>7 DEF m
  <2>5. parts \in Seq(Seq(S)) /\ Len(parts) = N /\ \A i \in 1..N : parts[i] = part(i)
    <3> HIDE DEF part, S, parts
    <3>1. parts \in [1..N -> Seq(S)]
      BY <2>3, <2>4
    <3>2. parts \in Seq(Seq(S)) /\ DOMAIN parts = 1..N
      BY <2>2, <3>1
    <3>3. Len(parts) = N
      BY <2>2, <3>2, LenProperties
    <3> QED
      BY <2>3, <3>2, <3>3
  <2>6. \A i \in 1..Len(parts) : parts[i] \in Seq(S)
    <3> HIDE DEF part, S, parts
    <3> QED
      BY <2>4, <2>5
  <2>7. /\ Flatten(parts) \in Seq(S)
        /\ HeldBy(Flatten(parts), parts, Len(parts))
    <3> HIDE DEF part, S, parts
    <3> QED
      BY <2>2, <2>5, <2>6, FlattenedElements
  <2>8. ASSUME NEW j \in 1..Len(Flatten(parts))
        PROVE  IsRead(Flatten(parts)[j])
    <3>1. PICK i \in 1..N : \E n \in 1..Len(part(i)) : Flatten(parts)[j] = part(i)[n]
      <4> HIDE DEF part, S, parts
      <4> QED
        <5>1. PICK i \in 1..Len(parts) : \E n \in 1..Len(parts[i]) : Flatten(parts)[j] = parts[i][n]
          BY <2>7 DEF HeldBy
        <5>2. parts[i] = part(i) /\ i \in 1..N
          BY <2>5, <5>1
        <5> QED
          BY <5>1, <5>2
    <3> PICK n \in 1..Len(part(i)) : Flatten(parts)[j] = part(i)[n]
      BY <3>1
    <3>2. n \in DOMAIN Load(loaded[i])
      <4> HIDE DEF part
      <4> QED
        BY <2>4, <3>1, ListProperties
    <3>3. part(i)[n].sourceId = loaded[i].path /\ part(i)[n].hash = Load(loaded[i])[n]
      BY <3>2
    <3>4. Load(loaded[i])[n] \in Range(Load(loaded[i]))
      BY <3>2 DEF Range
    <3> HIDE DEF part, parts
    <3> QED
      BY <2>1, <3>1, <3>3, <3>4 DEF IsRead
  <2>9. IsList(b.chunks) /\ DOMAIN b.chunks = 1..Len(Flatten(parts))
    <3> HIDE DEF parts, S
    <3>1. IsList(b.chunks)
      BY <1>3, <2>7 DEF IsList
    <3> QED
      BY <1>3, <3>1, ListProperties
  <2> HIDE DEF parts
  <2> QED
    BY <1>3, <2>8, <2>9
<1> QED
  BY <1>1, <1>2, <1>3

(* What a requirement drafted from evidence says, its source says.         *)
Quotes(r) ==
    \/ \E folder \in Folders : \E f \in Range(folder.files) :
          /\ r.evidenceRefs = {f.path} /\ r.text \in Range(Load(f))
          /\ r.text \cap (HardModals \cup SoftModals) # {}
    \/ \E c \in Range(FixtureBundle.chunks) : r.evidenceRefs = {c.sourceId} /\ r.text = c.hash

LEMMA SeverityNeedsAModal ==
    ASSUME NEW words, Severity(words) # None
    PROVE  words \cap (HardModals \cup SoftModals) # {}
<1>1. words \cap HardModals # {} \/ words \cap SoftModals # {}
  BY DEF Severity
<1> DEFINE H == HardModals
           F == SoftModals
<1> HIDE DEF H, F
<1>2. words \cap H # {} \/ words \cap F # {}
  BY <1>1 DEF H, F
<1>3. words \cap (H \cup F) # {}
  BY <1>2
<1> QED
  BY <1>3 DEF H, F

FreshPlaces(b, resolve) ==
    LET grounded == {k \in DOMAIN b.chunks : Grounded(b.chunks[k], resolve[k])}
    IN  Places(b.chunks, {k \in grounded : \A j \in grounded : j < k => resolve[j] # resolve[k]})

DraftOf(b, resolve, k) ==
    LET quote == resolve[k]
    IN  [deal |-> b.deal, text |-> quote, ownerRole |-> OwnerRole(quote),
         severity |-> Severity(quote), scope |-> Scope(quote),
         evidenceRefs |-> {b.chunks[k].sourceId}, createdBy |-> "proposal"]

LEMMA ProposalsAreDrafts ==
    ASSUME NEW b, NEW resolve
    PROVE  Proposals(b, resolve)
             = [n \in DOMAIN FreshPlaces(b, resolve) |-> DraftOf(b, resolve, FreshPlaces(b, resolve)[n])]
BY Zenon DEF Proposals, FreshPlaces, DraftOf

LEMMA FreshAreGrounded ==
    ASSUME NEW b, IsList(b.chunks), NEW resolve
    PROVE  /\ IsList(FreshPlaces(b, resolve))
           /\ \A n \in DOMAIN FreshPlaces(b, resolve) :
                 LET k == FreshPlaces(b, resolve)[n]
                 IN  k \in DOMAIN b.chunks /\ Grounded(b.chunks[k], resolve[k])
<1> DEFINE grounded == {k \in DOMAIN b.chunks : Grounded(b.chunks[k], resolve[k])}
           firsts == {k \in grounded : \A j \in grounded : j < k => resolve[j] # resolve[k]}
<1>1. FreshPlaces(b, resolve) = Places(b.chunks, firsts)
  BY Zenon DEF FreshPlaces
<1>2. \A k \in firsts : k \in DOMAIN b.chunks /\ Grounded(b.chunks[k], resolve[k])
  OBVIOUS
<1> HIDE DEF firsts
<1> QED
  BY <1>1, <1>2, PlacesListed

(* A draft is of a chunk whose quote still hashes to it.                   *)
LEMMA DraftsQuote ==
    ASSUME NEW p \in Drafted
    PROVE  IsList(p) /\ \A n \in DOMAIN p : Quotes(p[n])
<1> DEFINE bundles == {IngestFolder(folder, opts) : folder \in Folders, opts \in IngestOptions} \ {None}
<1>1. PICK b \in bundles : p \in {Proposals(b, Resolved(b, answers)) : answers \in Resolutions(b)}
  BY DEF Drafted
<1>2. PICK answers \in Resolutions(b) : p = Proposals(b, Resolved(b, answers))
  BY <1>1
<1>3. IsList(b.chunks) /\ \A k \in DOMAIN b.chunks : IsPinned(b.chunks[k]) \/ IsRead(b.chunks[k])
  BY <1>1, ChunksRead
<1> DEFINE resolve == Resolved(b, answers)
           chunks == b.chunks
           fresh == FreshPlaces(b, resolve)
           Draft(n) == DraftOf(b, resolve, fresh[n])
<1>4. p = [n \in DOMAIN fresh |-> Draft(n)]
  BY <1>2, ProposalsAreDrafts
<1>5. /\ IsList(fresh)
      /\ \A n \in DOMAIN fresh :
            fresh[n] \in DOMAIN chunks /\ Grounded(chunks[fresh[n]], resolve[fresh[n]])
  BY <1>3, FreshAreGrounded
<1> HIDE DEF fresh, resolve
<1>6. ASSUME NEW n \in DOMAIN fresh
      PROVE  Quotes(Draft(n))
  <2> DEFINE k == fresh[n]
             d == Draft(n)
  <2>1. k \in DOMAIN chunks /\ Grounded(chunks[k], resolve[k])
    BY <1>5
  <2>2. d.text = resolve[k] /\ d.evidenceRefs = {chunks[k].sourceId}
    BY DEF DraftOf
  <2> HIDE DEF d, k, chunks
  <2>3. d.text = chunks[k].hash /\ d.text \cap (HardModals \cup SoftModals) # {}
    BY <2>1, <2>2, SeverityNeedsAModal DEF Grounded
  <2>4. IsPinned(chunks[k]) \/ IsRead(chunks[k])
    BY <1>3, <2>1 DEF chunks
  <2>5. Quotes(d)
    <3> HIDE DEF HardModals, SoftModals
    <3> QED
      BY <2>2, <2>3, <2>4 DEF IsPinned, IsRead, Quotes
  <2> QED
    BY <2>5 DEF d
<1>7. IsList(p) /\ DOMAIN p = DOMAIN fresh
  <2>1. DOMAIN fresh = 1..Len(fresh) /\ Len(fresh) \in Nat
    BY <1>5, ListProperties
  <2> DEFINE N == Len(fresh)
             S == {Draft(n) : n \in 1..N}
  <2>2. p = [n \in 1..N |-> Draft(n)]
    BY <1>4, <2>1
  <2> HIDE DEF N, Draft
  <2>3. p \in [1..N -> S]
    BY <2>2
  <2> HIDE DEF S
  <2>4. N \in Nat
    BY <2>1 DEF N
  <2>5. p \in Seq(S)
    BY <2>3, <2>4
  <2> QED
    BY <2>1, <2>2, <2>5 DEF IsList, N
<1>8. \A n \in DOMAIN p : p[n] = Draft(n)
  <2> HIDE DEF Draft
  <2> QED
    BY <1>4
<1> HIDE DEF Draft
<1> QED
  BY <1>6, <1>7, <1>8

-----------------------------------------------------------------------------
(***************************************************************************)
(* The proposals: what waits to be stored, and what was stored first.      *)
(***************************************************************************)
FirstsQuote(versions) ==
    \A i \in 1..Len(versions) :
        versions[i].createdBy = "proposal" /\ IsFirst(versions, i) => Quotes(versions[i])

QuoteInv ==
    /\ IsList(staging)
    /\ \A n \in 1..Len(staging) : Quotes(staging[n])
    /\ FirstsQuote(log)

LEMMA AppendedFirstsQuote ==
    ASSUME IsLog(log), FirstsQuote(log), NEW r, IsSnapshot(r), log' = Append(log, r),
           \/ \E i \in 1..Len(log) : log[i].id = r.id
           \/ r.createdBy = "proposal" => Quotes(r)
    PROVE  FirstsQuote(log')
<1> DEFINE N == Len(log)
<1>1. N \in Nat
  BY LogProperties
<1>2. /\ Len(log') = N + 1
      /\ \A i \in 1..N : log'[i] = log[i]
      /\ log'[N + 1] = r
  BY Appended
<1> HIDE DEF N
<1>3. \A i \in 1..(N + 1) : i \in 1..N \/ i = N + 1
  BY <1>1
<1>4. ASSUME NEW i \in 1..(N + 1), log'[i].createdBy = "proposal", IsFirst(log', i)
      PROVE  Quotes(log'[i])
  <2>1. CASE i \in 1..N
    <3>1. \A j \in 1..(i - 1) : j \in 1..N /\ j \in 1..(N + 1)
      BY <1>1
    <3>2. IsFirst(log, i)
      BY <1>2, <1>4, <2>1, <3>1 DEF IsFirst, N
    <3> QED
      BY <1>2, <1>4, <2>1, <3>2 DEF FirstsQuote, N
  <2>2. CASE i = N + 1
    <3>1. \A j \in 1..N : log[j].id # r.id
      <4>1. \A j \in 1..N : j \in 1..(i - 1)
        BY <1>1, <2>2
      <4> QED
        BY <1>2, <1>4, <2>2, <4>1 DEF IsFirst
    <3> QED
      BY <1>2, <1>4, <2>2, <3>1 DEF N
  <2> QED
    BY <1>3, <2>1, <2>2
<1> QED
  BY <1>2, <1>4 DEF FirstsQuote

LEMMA CreatedFirstsQuote ==
    ASSUME IsLog(log), FirstsQuote(log), NEW draft, log' = Create(log, draft, NewId),
           draft.createdBy = "proposal" => Quotes(draft)
    PROVE  FirstsQuote(log')
<1> DEFINE r == Created(draft, NewId)
<1>1. log' = log \/ log' = Append(log, r)
  BY DEF Create, AppendVersion
<1>2. IsSnapshot(r)
  BY CreatedIsSnapshot
<1>3. r.text = draft.text /\ r.evidenceRefs = draft.evidenceRefs /\ r.createdBy = draft.createdBy
  BY DEF Created
<1> HIDE DEF r
<1>4. r.createdBy = "proposal" => Quotes(r)
  <2> HIDE DEF HardModals, SoftModals
  <2> QED
    BY <1>3 DEF Quotes
<1> QED
  BY <1>1, <1>2, <1>4, AppendedFirstsQuote

LEMMA QuoteInitially ==
    ASSUME Init
    PROVE  QuoteInv
<1>1. log = <<>> /\ staging = <<>> /\ Len(<<>>) = 0 /\ <<>> \in Seq({})
  BY DEF Init
<1> QED
  BY <1>1 DEF QuoteInv, FirstsQuote, IsList

LEMMA QuoteStays ==
    ASSUME IsLog(log), QuoteInv, [Next]_vars
    PROVE  QuoteInv'
<1>1. PICK S : staging \in Seq(S)
  BY DEF QuoteInv, IsList
<1>2. CASE Propose
  <2>1. staging' \in Drafted /\ log' = log
    BY <1>2 DEF Propose
  <2>2. IsList(staging') /\ \A n \in DOMAIN staging' : Quotes(staging'[n])
    BY <2>1, DraftsQuote
  <2>3. DOMAIN staging' = 1..Len(staging')
    BY <2>2, ListProperties
  <2> QED
    BY <2>1, <2>2, <2>3 DEF QuoteInv
<1>3. CASE StageProposal
  <2>1. staging # <<>> /\ staging' = Tail(staging)
    BY <1>3 DEF StageProposal
  <2>2. /\ Len(staging) \in Nat /\ Len(staging) # 0 /\ Head(staging) = staging[1]
        /\ staging' \in Seq(S) /\ Len(staging') = Len(staging) - 1
        /\ \A n \in 1..Len(staging') : staging'[n] = staging[n + 1]
    BY <1>1, <2>1, EmptySeq
  <2>3. \A n \in 1..Len(staging') : Quotes(staging'[n])
    BY <2>2 DEF QuoteInv
  <2>4. Quotes(Head(staging))
    BY <2>2 DEF QuoteInv
  <2>5. FirstsQuote(log')
    BY <1>3, <2>4, CreatedFirstsQuote DEF StageProposal, QuoteInv
  <2> QED
    BY <2>2, <2>3, <2>5 DEF QuoteInv, IsList
<1>4. CASE CreateRequirement
  <2>1. PICK draft \in OperatorDrafts : log' = Create(log, draft, NewId) /\ staging' = staging
    BY <1>4 DEF CreateRequirement, Store
  <2>2. draft.createdBy # "proposal"
    BY GovernanceAssumptions
  <2> QED
    BY <2>1, <2>2, CreatedFirstsQuote DEF QuoteInv
<1>5. CASE Decide
  <2>1. staging' = staging
    BY <1>5 DEF Decide, Store
  <2>2. log' = log \/ Updates(log, log')
    <3>1. PICK i \in DOMAIN log :
            IsCurrent(log, i) /\
                \/ \E by \in Approvers : Store(Approve(log, i, by))
                \/ Store(Reject(log, i))
                \/ Store(Retire(log, i))
                \/ \E changes \in Amendments : Store(Amend(log, i, changes))
      BY <1>5 DEF Decide
    <3> QED
      BY <3>1, DecisionsUpdate DEF Store
  <2>3. CASE Updates(log, log')
    <3>1. PICK i \in CurrentPlaces(log) : \E r :
              log' = Append(log, r) /\ IsSnapshot(r) /\ r.id = log[i].id
      BY <2>3 DEF Updates
    <3>2. i \in 1..Len(log)
      BY LogProperties DEF CurrentPlaces
    <3>3. FirstsQuote(log')
      BY <3>1, <3>2, AppendedFirstsQuote DEF QuoteInv
    <3> QED
      BY <2>1, <3>3 DEF QuoteInv
  <2> QED
    BY <2>1, <2>2, <2>3 DEF QuoteInv
<1>6. CASE UNCHANGED <<staging, log>>
  BY <1>6 DEF QuoteInv
<1>7. CASE CorrectCase \/ StartFiling \/ CreateIssue \/ FilingDone \/ UNCHANGED vars
  <2>1. UNCHANGED <<staging, log>>
    BY <1>7 DEF CorrectCase, StartFiling, CreateIssue, FilingDone, vars
  <2> QED
    BY <1>6, <2>1
<1>8. ASSUME NEW g \in 1..MaxReports, Report(g)
      PROVE  QuoteInv'
  <2>1. UNCHANGED <<staging, log>>
    BY <1>8 DEF Report, StartReport, ReadLiveCases, Dedupe, OpenCase, AnswerReport
  <2> QED
    BY <1>6, <2>1
<1> QED
  BY <1>2, <1>3, <1>4, <1>5, <1>7, <1>8 DEF Next

(* A requirement that was drafted from evidence starts with the exact text *)
(* of a passage of the file it cites, whatever the resolver of quotes made *)
(* of the others (proposeRequirements in packages/governance).             *)
THEOREM ProposalsAreQuotes == Spec => []ProposalsQuoteTheirSource
<1> DEFINE Inv == IsLog(log) /\ QuoteInv
<1>1. Init => Inv
  BY LogInitially, QuoteInitially
<1>2. Inv /\ [Next]_vars => Inv'
  <2>1. ASSUME Inv, [Next]_vars
        PROVE  IsLog(log') /\ QuoteInv'
    BY <2>1, LogStays, QuoteStays
  <2> QED
    BY <2>1 DEF IsLog, IsSnapshot
<1>3. Inv => ProposalsQuoteTheirSource
  <2> SUFFICES ASSUME Inv PROVE ProposalsQuoteTheirSource
    OBVIOUS
  <2>1. DOMAIN log = 1..Len(log)
    BY LogProperties
  <2> QED
    BY <2>1 DEF QuoteInv, FirstsQuote, IsFirst, Quotes, ProposalsQuoteTheirSource
<1> QED
  BY <1>1, <1>2, <1>3, PTL DEF Spec

-----------------------------------------------------------------------------
(***************************************************************************)
(* The documents that transform rules rewrite (SignalHarness, whose constants*)
(* these are).                                                             *)
(***************************************************************************)
CONSTANTS
    Rank, EmptyString, IsPattern(_), Replace(_, _, _), Match(_, _), Normal(_), Render(_, _),
    Mentions(_, _)
Harness == INSTANCE SignalHarness

Below(path, q) == SubSeq(q, Len(path) + 1, Len(q))

Begins(path, q) == Len(path) <= Len(q) /\ \A n \in 1..Len(path) : path[n] = q[n]

LEMMA PrefixBegins ==
    ASSUME NEW K, NEW p \in Seq(K), NEW q \in Seq(K)
    PROVE  Harness!IsPrefix(p, q) <=> Begins(p, q)
<1> DEFINE m == Len(p)
<1>1. m \in Nat /\ Len(q) \in Nat
  OBVIOUS
<1>2. CASE m <= Len(q)
  <2>1. /\ SubSeq(p, 1, m) \in Seq(K) /\ Len(SubSeq(p, 1, m)) = m
        /\ \A n \in 1..m : SubSeq(p, 1, m)[n] = p[n]
    BY <1>1
  <2>2. /\ SubSeq(q, 1, m) \in Seq(K) /\ Len(SubSeq(q, 1, m)) = m
        /\ \A n \in 1..m : SubSeq(q, 1, m)[n] = q[n]
    BY <1>1, <1>2
  <2>3. SubSeq(p, 1, m) = SubSeq(q, 1, m) <=> \A n \in 1..m : p[n] = q[n]
    BY <2>1, <2>2, SeqEqual
  <2> QED
    BY <1>2, <2>3 DEF Harness!IsPrefix, Begins
<1>3. CASE ~(m <= Len(q))
  BY <1>3 DEF Harness!IsPrefix, Begins
<1> QED
  BY <1>2, <1>3

LEMMA ConcatAt ==
    ASSUME NEW K, NEW p \in Seq(K), NEW q \in Seq(K)
    PROVE  /\ p \o q \in Seq(K) /\ Len(p \o q) = Len(p) + Len(q)
           /\ \A n \in 1..Len(p) : (p \o q)[n] = p[n]
           /\ \A n \in 1..Len(q) : (p \o q)[Len(p) + n] = q[n]
OBVIOUS

LEMMA BelowAt ==
    ASSUME NEW K, NEW p \in Seq(K), NEW q \in Seq(K), Len(p) <= Len(q)
    PROVE  /\ Below(p, q) \in Seq(K) /\ Len(Below(p, q)) = Len(q) - Len(p)
           /\ \A n \in 1..(Len(q) - Len(p)) : Below(p, q)[n] = q[Len(p) + n]
BY DEF Below

(* A path below another one is that path and the rest.                     *)
LEMMA PathsBelow ==
    ASSUME NEW K, NEW path \in Seq(K), NEW p \in Seq(K), NEW q \in Seq(K)
    PROVE  /\ Begins(path, path \o p) /\ Below(path, path \o p) = p
           /\ Begins(path, q) => Below(path, q) \in Seq(K) /\ q = path \o Below(path, q)
<1> DEFINE m == Len(path)
<1>1. m \in Nat /\ Len(p) \in Nat /\ Len(q) \in Nat
  OBVIOUS
<1>2. Begins(path, path \o p)
  BY <1>1, ConcatAt DEF Begins
<1>3. Below(path, path \o p) = p
  <2> DEFINE r == path \o p
             b == Below(path, r)
  <2>1. r \in Seq(K) /\ Len(r) = m + Len(p) /\ \A n \in 1..Len(p) : r[m + n] = p[n]
    BY ConcatAt
  <2> HIDE DEF r
  <2>2. m <= Len(r) /\ Len(r) - m = Len(p)
    BY <1>1, <2>1
  <2>3. b \in Seq(K) /\ Len(b) = Len(p) /\ \A n \in 1..Len(p) : b[n] = r[m + n]
    <3>1. /\ b \in Seq(K) /\ Len(b) = Len(r) - m
          /\ \A n \in 1..(Len(r) - m) : b[n] = r[m + n]
      BY <2>1, <2>2, BelowAt
    <3> HIDE DEF b
    <3> QED
      BY <2>2, <3>1
  <2> HIDE DEF b
  <2>4. b = p
    BY <2>1, <2>3, SeqEqual
  <2> QED
    BY <2>4 DEF b, r
<1>4. ASSUME Begins(path, q)
      PROVE  Below(path, q) \in Seq(K) /\ q = path \o Below(path, q)
  <2> DEFINE b == Below(path, q)
             r == path \o b
  <2>1. /\ m <= Len(q) /\ \A n \in 1..m : path[n] = q[n]
        /\ b \in Seq(K) /\ Len(b) = Len(q) - m /\ \A n \in 1..(Len(q) - m) : b[n] = q[m + n]
    BY <1>1, <1>4, BelowAt DEF Begins
  <2> HIDE DEF b
  <2>2. /\ r \in Seq(K) /\ Len(r) = m + Len(b)
        /\ \A n \in 1..m : r[n] = path[n]
        /\ \A n \in 1..Len(b) : r[m + n] = b[n]
    BY <2>1, ConcatAt
  <2> HIDE DEF r, m
  <2>3. ASSUME NEW n \in 1..Len(q)
        PROVE  r[n] = q[n]
    <3>1. CASE n \in 1..m
      BY <2>1, <2>2, <3>1
    <3>2. CASE n \notin 1..m
      <4>1. n - m \in 1..Len(b) /\ m + (n - m) = n
        BY <1>1, <2>1, <3>2
      <4>2. r[m + (n - m)] = b[n - m] /\ b[n - m] = q[m + (n - m)]
        BY <2>1, <2>2, <4>1
      <4> QED
        BY <4>1, <4>2
    <3> QED
      BY <3>1, <3>2
  <2>4. Len(r) = Len(q)
    BY <1>1, <2>1, <2>2
  <2>5. r = q
    BY <2>2, <2>3, <2>4, SeqEqual
  <2> QED
    BY <2>1, <2>5 DEF b, r
<1> QED
  BY <1>2, <1>3, <1>4

LEMMA BeginningsBelow ==
    ASSUME NEW K, NEW path \in Seq(K), NEW p \in Seq(K), NEW q \in Seq(K)
    PROVE  /\ Begins(path \o p, path \o q) <=> Begins(p, q)
           /\ Begins(path \o p, q) => Begins(path, q)
           /\ Begins(q, path \o p) => Begins(q, path) \/ Begins(path, q)
<1> DEFINE m == Len(path)
           r == path \o p
           s == path \o q
<1>1. m \in Nat /\ Len(p) \in Nat /\ Len(q) \in Nat
  OBVIOUS
<1>2. /\ Len(r) = m + Len(p)
      /\ \A n \in 1..m : r[n] = path[n]
      /\ \A n \in 1..Len(p) : r[m + n] = p[n]
  BY ConcatAt
<1>3. /\ Len(s) = m + Len(q)
      /\ \A n \in 1..m : s[n] = path[n]
      /\ \A n \in 1..Len(q) : s[m + n] = q[n]
  BY ConcatAt
<1>4. m = Len(path)
  OBVIOUS
<1> HIDE DEF r, s, m
<1>5. Begins(r, s) => Begins(p, q)
  <2> SUFFICES ASSUME Begins(r, s) PROVE Begins(p, q)
    OBVIOUS
  <2>1. Len(p) <= Len(q)
    BY <1>1, <1>2, <1>3 DEF Begins
  <2>2. ASSUME NEW n \in 1..Len(p)
        PROVE  p[n] = q[n]
    <3>1. m + n \in 1..Len(r) /\ n \in 1..Len(q)
      BY <1>1, <1>2, <2>1
    <3> QED
      BY <1>2, <1>3, <3>1 DEF Begins
  <2> QED
    BY <2>1, <2>2 DEF Begins
<1>6. Begins(p, q) => Begins(r, s)
  <2> SUFFICES ASSUME Begins(p, q) PROVE Begins(r, s)
    OBVIOUS
  <2>1. Len(r) <= Len(s)
    BY <1>1, <1>2, <1>3 DEF Begins
  <2>2. ASSUME NEW n \in 1..Len(r)
        PROVE  r[n] = s[n]
    <3>1. CASE n \in 1..m
      BY <1>2, <1>3, <3>1
    <3>2. CASE n \notin 1..m
      <4>1. n - m \in 1..Len(p) /\ m + (n - m) = n /\ n - m \in 1..Len(q)
        BY <1>1, <1>2, <3>2 DEF Begins
      <4>2. r[m + (n - m)] = p[n - m] /\ s[m + (n - m)] = q[n - m] /\ p[n - m] = q[n - m]
        BY <1>2, <1>3, <4>1 DEF Begins
      <4> QED
        BY <4>1, <4>2
    <3> QED
      BY <3>1, <3>2
  <2> QED
    BY <2>1, <2>2 DEF Begins
<1>7. Begins(r, q) => Begins(path, q)
  <2> SUFFICES ASSUME Begins(r, q) PROVE Begins(path, q)
    OBVIOUS
  <2>1. m <= Len(q) /\ \A n \in 1..m : n \in 1..Len(r)
    BY <1>1, <1>2 DEF Begins
  <2> QED
    BY <1>2, <1>4, <2>1 DEF Begins
<1>8. Begins(q, r) => Begins(q, path) \/ Begins(path, q)
  <2> SUFFICES ASSUME Begins(q, r) PROVE Begins(q, path) \/ Begins(path, q)
    OBVIOUS
  <2>1. CASE Len(q) <= m
    <3>1. \A n \in 1..Len(q) : n \in 1..m
      BY <1>1, <2>1
    <3> QED
      BY <1>2, <1>4, <2>1, <3>1 DEF Begins
  <2>2. CASE m <= Len(q)
    <3>1. \A n \in 1..m : n \in 1..Len(q)
      BY <1>1, <2>2
    <3> QED
      BY <1>2, <1>4, <2>2, <3>1 DEF Begins
  <2> QED
    BY <1>1, <2>1, <2>2
<1> QED
  BY <1>5, <1>6, <1>7, <1>8 DEF r, s

(* A JSON value: what is found at every path to a leaf, and no leaf lies   *)
(* below another one.                                                      *)
IsDocument(K, json) ==
    /\ DOMAIN json \subseteq Seq(K) /\ json = [p \in DOMAIN json |-> json[p]]
    /\ \A p, q \in DOMAIN json : Begins(p, q) => p = q

Apart(p, q) == ~Begins(p, q) /\ ~Begins(q, p)

IsWritten(json, path, value, next) ==
    /\ DOMAIN next = {q \in DOMAIN json : Apart(path, q)} \cup {path \o p : p \in DOMAIN value}
    /\ next = [q \in DOMAIN next |-> next[q]]
    /\ \A q \in DOMAIN json : Apart(path, q) => next[q] = json[q]
    /\ \A p \in DOMAIN value : next[path \o p] = value[p]

(* The paths and the values of a document after a field is written.        *)
LEMMA WrittenPaths ==
    ASSUME NEW K, NEW json, IsDocument(K, json), NEW value, IsDocument(K, value),
           NEW path \in Seq(K), path # <<>>,
           NEW next, next = Harness!SetPath(json, path, value)
    PROVE  IsWritten(json, path, value, next)
<1> DEFINE kept == {p \in DOMAIN json : ~Harness!IsPrefix(path, p) /\ ~Harness!IsPrefix(p, path)}
           written == {path \o p : p \in DOMAIN value}
           At(p) == IF p \in kept THEN json[p] ELSE value[Below(path, p)]
<1>1. next = [p \in kept \cup written |-> At(p)]
  BY DEF Harness!SetPath, Below
<1>2. kept = {q \in DOMAIN json : Apart(path, q)}
  BY PrefixBegins DEF IsDocument, Apart
<1>3. ASSUME NEW p \in DOMAIN value
      PROVE  path \o p \notin kept /\ Below(path, path \o p) = p
  <2>1. p \in Seq(K)
    BY DEF IsDocument
  <2>2. Begins(path, path \o p) /\ Below(path, path \o p) = p
    BY <2>1, PathsBelow
  <2> QED
    BY <1>2, <2>2 DEF Apart
<1>4. \A p \in kept : At(p) = json[p]
  OBVIOUS
<1>5. \A p \in DOMAIN value : At(path \o p) = value[p]
  BY <1>3
<1> HIDE DEF kept, At
<1>6. /\ DOMAIN next = kept \cup written
      /\ \A q \in kept \cup written : next[q] = At(q)
      /\ next = [q \in DOMAIN next |-> next[q]]
  BY <1>1
<1> QED
  BY <1>2, <1>4, <1>5, <1>6 DEF IsWritten

(* A leaf that is reached from one of two fields that are apart is apart   *)
(* from the other.                                                         *)
LEMMA LeavesApart ==
    ASSUME NEW K, NEW path \in Seq(K), NEW q \in Seq(K), Apart(path, q),
           NEW p \in Seq(K), Begins(q, p)
    PROVE  Apart(path, p)
<1> DEFINE r == Below(q, p)
<1>1. r \in Seq(K) /\ p = q \o r
  BY PathsBelow
<1> HIDE DEF r
<1>2. Begins(q \o r, path) => Begins(q, path)
  BY <1>1, BeginningsBelow
<1>3. Begins(path, q \o r) => Begins(path, q) \/ Begins(q, path)
  BY <1>1, BeginningsBelow
<1> QED
  BY <1>1, <1>2, <1>3 DEF Apart

Reached(json, q) == {p \in DOMAIN json : Begins(q, p)}

Reading(json, q) ==
    [p \in {Below(q, b) : b \in Reached(json, q)} |-> json[q \o p]]

(* Reading a field of a document, path by path.                            *)
LEMMA FieldPaths ==
    ASSUME NEW K, NEW json, IsDocument(K, json), NEW path \in Seq(K)
    PROVE  Harness!GetPath(json, path) = Reading(json, path)
<1>1. {p \in DOMAIN json : Harness!IsPrefix(path, p)} = Reached(json, path)
  BY PrefixBegins DEF IsDocument, Reached
<1> QED
  BY <1>1 DEF Harness!GetPath, Below, Reading

(* What a rule writes into a field is what is read there afterwards; every *)
(* field that is not inside that one, nor around it, reads as before; and  *)
(* the result is a document (setPath and getPath of                        *)
(* packages/signal-harness).                                               *)
THEOREM FieldsAreWrittenInPlace ==
    ASSUME NEW K, NEW json, IsDocument(K, json), NEW value, IsDocument(K, value),
           NEW path \in Seq(K), path # <<>>
    PROVE  LET next == Harness!SetPath(json, path, value)
           IN  /\ Harness!GetPath(next, path) = value
               /\ \A q \in Seq(K) : Apart(path, q) =>
                      Harness!GetPath(next, q) = Harness!GetPath(json, q)
               /\ IsDocument(K, next)
<1> DEFINE next == Harness!SetPath(json, path, value)
<1>0. next = Harness!SetPath(json, path, value)
  OBVIOUS
<1> HIDE DEF next
<1>1. /\ DOMAIN next = {q \in DOMAIN json : Apart(path, q)} \cup {path \o p : p \in DOMAIN value}
      /\ next = [q \in DOMAIN next |-> next[q]]
      /\ \A q \in DOMAIN json : Apart(path, q) => next[q] = json[q]
      /\ \A p \in DOMAIN value : next[path \o p] = value[p]
  <2>1. IsWritten(json, path, value, next)
    BY <1>0, WrittenPaths
  <2> QED
    BY <2>1 DEF IsWritten
<1>2. /\ DOMAIN json \subseteq Seq(K) /\ DOMAIN value \subseteq Seq(K)
      /\ \A p, q \in DOMAIN json : Begins(p, q) => p = q
      /\ \A p, q \in DOMAIN value : Begins(p, q) => p = q
      /\ value = [p \in DOMAIN value |-> value[p]]
  BY DEF IsDocument
<1>3. \A p \in DOMAIN value : path \o p \in Seq(K) /\ Begins(path, path \o p) /\ Below(path, path \o p) = p
  BY <1>2, ConcatAt, PathsBelow
<1>4. DOMAIN next \subseteq Seq(K)
  BY <1>1, <1>2, <1>3
<1>5. IsDocument(K, next)
  <2>1. ASSUME NEW p \in DOMAIN next, NEW q \in DOMAIN next, Begins(p, q)
        PROVE  p = q
    <3>1. CASE p \in DOMAIN json /\ q \in DOMAIN json
      BY <1>2, <2>1, <3>1
    <3>2. CASE \E r, s \in DOMAIN value : p = path \o r /\ q = path \o s
      <4>1. PICK r, s \in DOMAIN value : p = path \o r /\ q = path \o s
        BY <3>2
      <4>2. Begins(path \o r, path \o s) <=> Begins(r, s)
        BY <1>2, BeginningsBelow
      <4> QED
        BY <1>2, <2>1, <4>1, <4>2
    <3>3. CASE Apart(path, p) /\ \E s \in DOMAIN value : q = path \o s
      <4>1. PICK s \in DOMAIN value : q = path \o s
        BY <3>3
      <4>2. Begins(p, path \o s) => Begins(p, path) \/ Begins(path, p)
        BY <1>2, <1>4, BeginningsBelow
      <4> QED
        BY <2>1, <3>3, <4>1, <4>2 DEF Apart
    <3>4. CASE Apart(path, q) /\ \E r \in DOMAIN value : p = path \o r
      <4>1. PICK r \in DOMAIN value : p = path \o r
        BY <3>4
      <4>2. Begins(path \o r, q) => Begins(path, q)
        BY <1>2, <1>4, BeginningsBelow
      <4> QED
        BY <2>1, <3>4, <4>1, <4>2 DEF Apart
    <3> QED
      BY <1>1, <3>1, <3>2, <3>3, <3>4
  <2> QED
    BY <1>1, <1>4, <2>1 DEF IsDocument
<1>6. ASSUME NEW q \in Seq(K)
      PROVE  Harness!GetPath(next, q) = Reading(next, q)
  BY <1>5, FieldPaths
<1>7. Harness!GetPath(next, path) = value
  <2>1. Reached(next, path) = {path \o p : p \in DOMAIN value}
    BY <1>1, <1>3 DEF Apart, Reached
  <2>2. {Below(path, b) : b \in {path \o p : p \in DOMAIN value}} = DOMAIN value
    BY <1>3
  <2>3. Harness!GetPath(next, path) = [p \in DOMAIN value |-> next[path \o p]]
    BY <1>6, <2>1, <2>2 DEF Reading
  <2> QED
    BY <1>1, <1>2, <2>3
<1>8. ASSUME NEW q \in Seq(K), Apart(path, q)
      PROVE  Harness!GetPath(next, q) = Harness!GetPath(json, q)
  <2> DEFINE at == Reached(json, q)
  <2>1. \A b \in at : Apart(path, b)
    BY <1>2, <1>8, LeavesApart DEF Reached
  <2>2. ASSUME NEW p \in DOMAIN value
        PROVE  ~Begins(q, path \o p)
    <3>1. Begins(q, path \o p) => Begins(q, path) \/ Begins(path, q)
      BY <1>2, BeginningsBelow
    <3> QED
      BY <1>8, <3>1 DEF Apart
  <2>3. Reached(next, q) = at
    BY <1>1, <2>1, <2>2 DEF Reached
  <2>4. \A b \in at : q \o Below(q, b) = b /\ next[b] = json[b]
    <3>1. \A b \in at : b \in DOMAIN json /\ b \in Seq(K) /\ Begins(q, b)
      BY <1>2 DEF Reached
    <3>2. \A b \in at : q \o Below(q, b) = b
      BY <3>1, PathsBelow
    <3> QED
      BY <1>1, <2>1, <3>1, <3>2
  <2>5. Harness!GetPath(json, q) = [p \in {Below(q, b) : b \in at} |-> json[q \o p]]
    <3>1. Harness!GetPath(json, q) = Reading(json, q)
      BY FieldPaths
    <3> QED
      BY <3>1 DEF Reading
  <2>6. Harness!GetPath(next, q) = [p \in {Below(q, b) : b \in at} |-> next[q \o p]]
    BY <1>6, <2>3 DEF Reading
  <2> HIDE DEF at
  <2>7. \A p \in {Below(q, b) : b \in at} : next[q \o p] = json[q \o p]
    BY <2>4
  <2> QED
    BY <2>5, <2>6, <2>7
<1> QED
  BY <1>5, <1>7, <1>8 DEF next

(* What is read at a field, and a scalar, are documents again.             *)
LEMMA FieldsAreDocuments ==
    ASSUME NEW K, NEW json, IsDocument(K, json), NEW path \in Seq(K)
    PROVE  IsDocument(K, Harness!GetPath(json, path))
<1> DEFINE found == Harness!GetPath(json, path)
           at == Reached(json, path)
<1>1. found = [p \in {Below(path, b) : b \in at} |-> json[path \o p]]
  <2>1. found = Reading(json, path)
    BY FieldPaths
  <2> QED
    BY <2>1 DEF Reading
<1>2. ASSUME NEW b \in at
      PROVE  b \in DOMAIN json /\ Below(path, b) \in Seq(K) /\ b = path \o Below(path, b)
  <2>1. b \in DOMAIN json /\ b \in Seq(K) /\ Begins(path, b)
    BY DEF Reached, IsDocument
  <2> QED
    BY <2>1, PathsBelow
<1> HIDE DEF found, at
<1>3. DOMAIN found = {Below(path, b) : b \in at} /\ found = [p \in DOMAIN found |-> found[p]]
  BY <1>1
<1>4. ASSUME NEW b \in at, NEW c \in at, Begins(Below(path, b), Below(path, c))
      PROVE  Below(path, b) = Below(path, c)
  <2>1. Begins(path \o Below(path, b), path \o Below(path, c))
    BY <1>2, <1>4, BeginningsBelow
  <2>2. Begins(b, c)
    BY <1>2, <2>1
  <2> QED
    BY <1>2, <2>2 DEF IsDocument
<1>5. \A p, q \in DOMAIN found : Begins(p, q) => p = q
  BY <1>3, <1>4
<1>6. DOMAIN found \subseteq Seq(K)
  BY <1>2, <1>3
<1> QED
  BY <1>3, <1>5, <1>6 DEF IsDocument, found

LEMMA ScalarsAreDocuments ==
    ASSUME NEW K, NEW value
    PROVE  IsDocument(K, Harness!Scalar(value))
BY DEF IsDocument, Harness!Scalar

(* The document next is a document that reads as json did at every field   *)
(* apart from the given ones.                                              *)
TouchesOnly(K, json, places, next) ==
    /\ IsDocument(K, next)
    /\ \A q \in Seq(K) : (\A place \in places : Apart(place, q)) =>
           Harness!GetPath(next, q) = Harness!GetPath(json, q)

LEMMA WritesTouchTheirField ==
    ASSUME NEW K, NEW json, IsDocument(K, json), NEW value, IsDocument(K, value),
           NEW places \in SUBSET Seq(K), NEW path \in places
    PROVE  TouchesOnly(K, json, places, Harness!SetPath(json, path, value))
<1>1. CASE path = <<>>
  BY <1>1 DEF TouchesOnly, Harness!SetPath
<1>2. CASE path # <<>>
  BY <1>2, FieldsAreWrittenInPlace DEF TouchesOnly
<1> QED
  BY <1>1, <1>2

TransformOperations == {"map", "redact", "normalize", "extract", "classify", "score", "template"}

(* A transform rule, whatever it does, touches its source field and its    *)
(* target field only: at every other place the document that comes out     *)
(* reads as the one that went in (applyTransformRule of                    *)
(* packages/signal-harness).                                               *)
THEOREM RulesKeepToTheirFields ==
    ASSUME NEW K, NEW input, IsDocument(K, input), NEW rule,
           rule.operation \in TransformOperations,
           rule.fieldPath \in Seq(K), rule.targetField \in SUBSET Seq(K)
    PROVE  TouchesOnly(K, input, {rule.fieldPath} \cup rule.targetField,
                       Harness!ApplyTransformRule(input, rule).output)
<1> DEFINE source == Harness!GetPath(input, rule.fieldPath)
           places == {rule.fieldPath} \cup rule.targetField
           outcome == Harness!ApplyTransformRule(input, rule)
<1>1. TouchesOnly(K, input, places, input)
  BY DEF TouchesOnly
<1>2. places \in SUBSET Seq(K)
  OBVIOUS
<1>3. ASSUME NEW value
      PROVE  /\ TouchesOnly(K, input, places,
                            Harness!SetPath(input, rule.fieldPath, Harness!Scalar(value)))
             /\ rule.targetField # {} => TouchesOnly(K, input, places,
                    Harness!SetPath(input, Harness!Only(rule.targetField), Harness!Scalar(value)))
  <2>1. IsDocument(K, Harness!Scalar(value))
    BY ScalarsAreDocuments
  <2>2. rule.fieldPath \in places
    OBVIOUS
  <2>3. rule.targetField # {} => Harness!Only(rule.targetField) \in places
    BY DEF Harness!Only
  <2> HIDE DEF places
  <2> QED
    BY <1>2, <2>1, <2>2, <2>3, WritesTouchTheirField
<1>4. rule.targetField # {} /\ IsDocument(K, source) =>
          TouchesOnly(K, input, places, Harness!SetPath(input, Harness!Only(rule.targetField), source))
  <2>1. rule.targetField # {} => Harness!Only(rule.targetField) \in places
    BY DEF Harness!Only
  <2> HIDE DEF places, source
  <2> QED
    BY <1>2, <2>1, WritesTouchTheirField
<1>5. IsDocument(K, source)
  BY FieldsAreDocuments
<1>. SUFFICES TouchesOnly(K, input, places, outcome.output)
  OBVIOUS
<1> HIDE DEF places, source, outcome
<1>6. CASE rule.operation \in Harness!NeedsTarget /\ rule.targetField = {}
  BY <1>1, <1>6
  DEF Harness!ApplyTransformRule, Harness!NeedsTarget, Harness!Failed, Harness!Untouched,
      Harness!Outcome, outcome
<1>7. CASE rule.operation = "redact"
  <2>1. outcome = Harness!Redacted(input, rule, source)
    BY <1>7 DEF Harness!ApplyTransformRule, Harness!NeedsTarget, source, outcome
  <2> QED
    BY <1>1, <1>3, <2>1 DEF Harness!Redacted, Harness!Failed, Harness!Untouched, Harness!Outcome
<1>8. CASE rule.operation = "normalize"
  <2>1. outcome = Harness!Normalized(input, rule, source)
    BY <1>8 DEF Harness!ApplyTransformRule, Harness!NeedsTarget, source, outcome
  <2> DEFINE next == Harness!Scalar(Harness!Text(Normal(Harness!TextOf(source))))
             place == IF rule.targetField = {} THEN rule.fieldPath ELSE Harness!Only(rule.targetField)
  <2>2. outcome.output \in {input, Harness!SetPath(input, place, next)}
    BY <2>1 DEF Harness!Normalized, Harness!Untouched, Harness!Outcome
  <2>3. TouchesOnly(K, input, places, Harness!SetPath(input, place, next))
    BY <1>3
  <2> QED
    BY <1>1, <2>2, <2>3
<1>9. CASE rule.operation = "map" /\ rule.targetField # {}
  <2>1. outcome = Harness!Mapped(input, rule, source)
    BY <1>9 DEF Harness!ApplyTransformRule, Harness!NeedsTarget, source, outcome
  <2> QED
    BY <1>3, <1>4, <1>5, <1>9, <2>1 DEF Harness!Mapped, Harness!Outcome
<1>10. CASE rule.operation = "extract" /\ rule.targetField # {}
  <2>1. outcome = Harness!Extracted(input, rule, source)
    BY <1>10 DEF Harness!ApplyTransformRule, Harness!NeedsTarget, source, outcome
  <2> QED
    BY <1>1, <1>3, <1>10, <2>1
    DEF Harness!Extracted, Harness!Failed, Harness!Untouched, Harness!Outcome
<1>11. CASE rule.operation = "classify" /\ rule.targetField # {}
  <2>1. outcome = Harness!Classified(input, rule, source)
    BY <1>11 DEF Harness!ApplyTransformRule, Harness!NeedsTarget, source, outcome
  <2> QED
    BY <1>3, <1>11, <2>1 DEF Harness!Classified, Harness!Outcome
<1>12. CASE rule.operation = "score" /\ rule.targetField # {}
  <2>1. outcome = Harness!Scored(input, rule, source)
    BY <1>12 DEF Harness!ApplyTransformRule, Harness!NeedsTarget, source, outcome
  <2> QED
    BY <1>3, <1>12, <2>1 DEF Harness!Scored, Harness!Outcome
<1>13. CASE rule.operation = "template" /\ rule.targetField # {}
  <2>1. outcome = Harness!Templated(input, rule, source)
    BY <1>13 DEF Harness!ApplyTransformRule, Harness!NeedsTarget, source, outcome
  <2> QED
    BY <1>3, <1>13, <2>1 DEF Harness!Templated, Harness!Outcome
<1>14. rule.operation \in Harness!NeedsTarget \cup {"redact", "normalize"}
  BY DEF TransformOperations, Harness!NeedsTarget
<1> QED
  BY <1>6, <1>7, <1>8, <1>9, <1>10, <1>11, <1>12, <1>13, <1>14
     DEF TransformOperations, Harness!NeedsTarget
===============================================================================
