--------------------------- MODULE Models_Proofs ----------------------------
(***************************************************************************)
(* Proofs about the stored models, the joins of a query, conversations,    *)
(* migrations, providers and experiments, for any publishers, editors,     *)
(* tables, joins, tabs, processes, administrators, calls and contents.     *)
(***************************************************************************)
EXTENDS SemanticPublish, JoinPath, Migrations, Conversations, ProviderStore, Experiments,
    WellFoundedInduction, NaturalsInduction, FiniteSetTheorems, TLAPS

-----------------------------------------------------------------------------
(* Publishing: a request that is about to write holds a context that passed
   validation (a rollback: the snapshot of its target) and computed its version
   from a header at most as new as the present one *)

\* What a request has read, at the step it is at.
ReadInv ==
  \A u \in Publishers :
    /\ publish[u].base <= version
    /\ publish[u].pc = "read" => publish[u].got \in Contexts /\ publish[u].target = 0
    /\ publish[u].pc = "target" => publish[u].target \in Versions
    /\ publish[u].pc = "write" =>
         /\ publish[u].got \in ValidContexts
         /\ publish[u].target > 0 =>
              /\ publish[u].target \in Versions
              /\ snapshot[publish[u].target] = publish[u].got

PubInv == PubTypeOK /\ ReadInv /\ VersionsDense /\ PublishedValid /\ DraftFlagged

\* The idle record has its type.
LEMMA NotPublishingType ==
  /\ NotPublishing \in
       [pc : {"idle", "read", "target", "write"}, base : 0..MaxVersion,
        target : 0..MaxVersion, got : Contexts \cup {NoContext}, left : SUBSET Parts]
  /\ NotPublishing.pc = "idle"
  /\ NotPublishing.base = 0
BY PublishAssumption DEF NotPublishing

\* A new model satisfies the invariant.
LEMMA PubInitInv == PubInit => PubInv
<1> SUFFICES ASSUME PubInit PROVE PubInv
  OBVIOUS
<1>1. PubTypeOK
  BY NotPublishingType, PublishAssumption DEF PubInit, PubTypeOK, Contexts
<1>2. ReadInv
  <2>1. \A u \in Publishers : publish[u] = NotPublishing
    BY DEF PubInit
  <2>2. NotPublishing.base <= version /\ NotPublishing.pc = "idle"
    BY NotPublishingType DEF PubInit
  <2>3. \A u \in Publishers : publish[u].base <= version /\ publish[u].pc = "idle"
    BY <2>1, <2>2
  <2> QED
    BY <2>3 DEF ReadInv
<1>3. VersionsDense /\ PublishedValid
  BY PublishAssumption DEF PubInit, VersionsDense, PublishedValid, Versions
<1>4. DraftFlagged
  BY DEF PubInit, DraftFlagged
<1> QED
  BY <1>1, <1>2, <1>3, <1>4 DEF PubInv

\* An edit, and the mark that follows it.
LEMMA EditInv ==
  ASSUME PubInv, NEW e \in Editors,
         MarkModelDraft(e) \/ \E p \in Parts, x \in Values : EditPart(e, p, x)
  PROVE  PubInv'
<1>1. CASE MarkModelDraft(e)
  BY <1>1 DEF PubInv, PubTypeOK, ReadInv, VersionsDense, PublishedValid, DraftFlagged,
     MarkModelDraft
<1>2. CASE \E p \in Parts, x \in Values : EditPart(e, p, x)
  <2> PICK p \in Parts, x \in Values : EditPart(e, p, x)
    BY <1>2
  <2>1. draft' \in Contexts
    BY DEF PubInv, PubTypeOK, EditPart, Contexts
  <2> QED
    BY <2>1 DEF PubInv, PubTypeOK, ReadInv, VersionsDense, PublishedValid, DraftFlagged, EditPart
<1> QED
  BY <1>1, <1>2

\* A description leaves the draft unlike what is published, which is recorded.
LEMMA DescribeInv ==
  ASSUME PubInv, NEW p \in Parts, NEW x \in Values, DescribeJoin(p, x)
  PROVE  PubInv'
<1>1. draft' \in Contexts /\ unflagged' = (unflagged \/ status = "published")
      /\ UNCHANGED <<status, version, snapshot, publish, editing>>
  BY DEF PubInv, PubTypeOK, DescribeJoin, Contexts
<1> QED
  BY <1>1 DEF PubInv, PubTypeOK, ReadInv, VersionsDense, PublishedValid, DraftFlagged

\* A step of a request that only reads, or ends it.
LEMMA ReadStepInv ==
  ASSUME PubInv, NEW u \in Publishers,
         UNCHANGED <<draft, status, version, snapshot, editing, unflagged>>,
         NEW rec \in
           [pc : {"idle", "read", "target", "write"}, base : 0..MaxVersion,
            target : 0..MaxVersion, got : Contexts \cup {NoContext}, left : SUBSET Parts],
         publish' = [publish EXCEPT ![u] = rec],
         rec.base <= version,
         rec.pc = "read" => rec.got \in Contexts /\ rec.target = 0,
         rec.pc = "target" => rec.target \in Versions,
         rec.pc = "write" =>
           /\ rec.got \in ValidContexts
           /\ rec.target > 0 => rec.target \in Versions /\ snapshot[rec.target] = rec.got
  PROVE  PubInv'
<1>1. PubTypeOK'
  BY DEF PubInv, PubTypeOK
<1>2. ReadInv'
  BY DEF PubInv, PubTypeOK, ReadInv
<1>3. VersionsDense' /\ PublishedValid' /\ DraftFlagged'
  BY DEF PubInv, VersionsDense, PublishedValid, DraftFlagged
<1> QED
  BY <1>1, <1>2, <1>3 DEF PubInv

\* The header is read.
LEMMA BeginPublishInv ==
  ASSUME PubInv, NEW u \in Publishers, BeginPublish(u)
  PROVE  PubInv'
<1> DEFINE rec == Reading(version, draft, Parts)
<1>1. rec \in [pc : {"idle", "read", "target", "write"}, base : 0..MaxVersion,
            target : 0..MaxVersion, got : Contexts \cup {NoContext}, left : SUBSET Parts]
  BY PublishAssumption DEF PubInv, PubTypeOK, Reading
<1>2. rec.base <= version /\ rec.got \in Contexts /\ rec.target = 0 /\ rec.pc = "read"
  BY PublishAssumption DEF PubInv, PubTypeOK, Reading
<1>3. publish' = [publish EXCEPT ![u] = rec]
  BY DEF BeginPublish
<1> HIDE DEF rec
<1> QED
  BY <1>1, <1>2, <1>3, ReadStepInv DEF BeginPublish

\* One part is read.
LEMMA ReadPartInv ==
  ASSUME PubInv, NEW u \in Publishers, NEW p \in Parts, ReadPart(u, p)
  PROVE  PubInv'
<1> DEFINE new == [publish[u].got EXCEPT ![p] = draft[p]]
           rec == Reading(publish[u].base, new, publish[u].left \ {p})
<1>1. new \in Contexts
  BY DEF PubInv, PubTypeOK, ReadInv, ReadPart, Contexts
<1>2. publish' = [publish EXCEPT ![u] = rec]
  BY DEF ReadPart
<1> HIDE DEF new
<1>3. rec \in [pc : {"idle", "read", "target", "write"}, base : 0..MaxVersion,
            target : 0..MaxVersion, got : Contexts \cup {NoContext}, left : SUBSET Parts]
  BY <1>1, PublishAssumption DEF PubInv, PubTypeOK, Reading
<1>4. rec.base <= version /\ rec.pc = "read" /\ rec.got \in Contexts /\ rec.target = 0
  BY <1>1 DEF PubInv, ReadInv, Reading
<1> HIDE DEF rec
<1> QED
  BY <1>2, <1>3, <1>4, ReadStepInv DEF ReadPart

\* A request moves on to its write with a valid context.
LEMMA ToWriteInv ==
  ASSUME PubInv, NEW u \in Publishers, NEW target \in 0..MaxVersion, NEW got \in ValidContexts,
         UNCHANGED <<draft, status, version, snapshot, editing, unflagged>>,
         publish' = [publish EXCEPT ![u] = Writing(publish[u].base, target, got)],
         target > 0 => target \in Versions /\ snapshot[target] = got
  PROVE  PubInv'
<1> DEFINE rec == Writing(publish[u].base, target, got)
<1>1. rec \in [pc : {"idle", "read", "target", "write"}, base : 0..MaxVersion,
            target : 0..MaxVersion, got : Contexts \cup {NoContext}, left : SUBSET Parts]
  BY PublishAssumption DEF PubInv, PubTypeOK, Writing
<1>2. /\ rec.base <= version /\ rec.pc = "write" /\ rec.got \in ValidContexts
      /\ rec.target > 0 => rec.target \in Versions /\ snapshot[rec.target] = rec.got
  BY DEF PubInv, ReadInv, Writing
<1> HIDE DEF rec
<1>3. publish' = [publish EXCEPT ![u] = rec]
  BY DEF rec
<1> QED
  BY <1>1, <1>2, <1>3, ReadStepInv

\* A request ends without writing.
LEMMA EndInv ==
  ASSUME PubInv, NEW u \in Publishers,
         UNCHANGED <<draft, status, version, snapshot, editing, unflagged>>,
         publish' = [publish EXCEPT ![u] = NotPublishing]
  PROVE  PubInv'
<1>1. NotPublishing.base <= version
  BY NotPublishingType DEF PubInv, PubTypeOK
<1> QED
  BY <1>1, NotPublishingType, ReadStepInv

\* What was read is validated.
LEMMA ValidateInv ==
  ASSUME PubInv, NEW u \in Publishers, Validate(u)
  PROVE  PubInv'
<1>1. CASE publish[u].got \in ValidContexts
  <2>1. 0 \in 0..MaxVersion /\ ~(0 > 0)
    BY PublishAssumption
  <2> QED
    BY <1>1, <2>1, ToWriteInv DEF Validate
<1>2. CASE publish[u].got \notin ValidContexts
  BY <1>2, EndInv DEF Validate
<1> QED
  BY <1>1, <1>2

\* A rollback reads the header.
LEMMA BeginRollbackInv ==
  ASSUME PubInv, NEW u \in Publishers, NEW t \in Versions, BeginRollback(u, t)
  PROVE  PubInv'
<1> DEFINE rec == [pc |-> "target", base |-> version, target |-> t, got |-> NoContext, left |-> {}]
<1>1. rec \in [pc : {"idle", "read", "target", "write"}, base : 0..MaxVersion,
            target : 0..MaxVersion, got : Contexts \cup {NoContext}, left : SUBSET Parts]
  BY PublishAssumption DEF PubInv, PubTypeOK, Versions
<1>2. rec.base <= version /\ rec.pc = "target" /\ rec.target \in Versions
  BY DEF PubInv, PubTypeOK
<1>3. publish' = [publish EXCEPT ![u] = rec]
  BY DEF BeginRollback
<1> HIDE DEF rec
<1> QED
  BY <1>1, <1>2, <1>3, ReadStepInv DEF BeginRollback

\* A rollback reads the snapshot of its target.
LEMMA ReadTargetInv ==
  ASSUME PubInv, NEW u \in Publishers, ReadTarget(u)
  PROVE  PubInv'
<1>1. publish[u].target \in Versions
  BY DEF ReadTarget, PubInv, ReadInv
<1>2. CASE snapshot[publish[u].target] = NoContext
  BY <1>2, EndInv DEF ReadTarget
<1>3. CASE snapshot[publish[u].target] # NoContext
  <2>1. snapshot[publish[u].target] \in ValidContexts
    BY <1>1, <1>3 DEF PubInv, PublishedValid
  <2> QED
    <3>1. publish' = [publish EXCEPT ![u] =
            Writing(publish[u].base, publish[u].target, snapshot[publish[u].target])]
      BY <1>3 DEF ReadTarget
    <3>2. publish[u].target \in 0..MaxVersion
      BY <1>1, PublishAssumption DEF Versions
    <3>3. UNCHANGED <<draft, status, version, snapshot, editing, unflagged>>
      BY DEF ReadTarget
    <3> QED
      BY <1>1, <2>1, <3>1, <3>2, <3>3, ToWriteInv
<1> QED
  BY <1>2, <1>3

\* A request that finds its version free computed it from the present header.
LEMMA FreshBase ==
  ASSUME PubInv, NEW u \in Publishers, publish[u].base + 1 \in Versions,
         snapshot[publish[u].base + 1] = NoContext
  PROVE  publish[u].base = version
<1>1. publish[u].base \in Nat /\ version \in Nat /\ publish[u].base <= version
  BY PublishAssumption DEF PubInv, PubTypeOK, ReadInv
<1>2. ~(publish[u].base + 1 <= version)
  BY DEF PubInv, VersionsDense
<1> QED
  BY <1>1, <1>2

\* The transaction that writes a version, or is refused.
LEMMA WriteVersionInv ==
  ASSUME PubInv, NEW u \in Publishers, WriteVersion(u)
  PROVE  PubInv'
<1> DEFINE next == publish[u].base + 1
<1>1. CASE snapshot[next] # NoContext
  BY <1>1, EndInv DEF WriteVersion
<1>2. CASE snapshot[next] = NoContext
  <2>1. /\ next \in Versions
        /\ snapshot' = [snapshot EXCEPT ![next] = publish[u].got]
        /\ version' = next
        /\ status' = "published"
        /\ unflagged' = (publish[u].target > 0 \/ publish[u].got # draft)
        /\ publish' = [publish EXCEPT ![u] = NotPublishing]
        /\ UNCHANGED <<draft, editing>>
    BY <1>2 DEF WriteVersion
  <2>2. publish[u].got \in ValidContexts /\ publish[u].got # NoContext
    BY PublishAssumption DEF WriteVersion, PubInv, ReadInv
  <2>3. next = version + 1 /\ version \in Nat
    BY <1>2, <2>1, FreshBase, PublishAssumption DEF PubInv, PubTypeOK
  <2> HIDE DEF next
  <2>4. PubTypeOK'
    <3>1. publish' \in [Publishers ->
             [pc : {"idle", "read", "target", "write"}, base : 0..MaxVersion,
              target : 0..MaxVersion, got : Contexts \cup {NoContext}, left : SUBSET Parts]]
      BY <2>1, NotPublishingType DEF PubInv, PubTypeOK
    <3>2. snapshot' \in [Versions -> Contexts \cup {NoContext}]
      BY <2>1, <2>2, PublishAssumption DEF PubInv, PubTypeOK
    <3>3. version' \in 0..MaxVersion
      BY <2>1, PublishAssumption DEF Versions
    <3>4. unflagged' \in BOOLEAN
      BY <2>1
    <3> QED
      BY <2>1, <3>1, <3>2, <3>3, <3>4 DEF PubInv, PubTypeOK
  <2>5. ReadInv'
    <3> SUFFICES ASSUME NEW v \in Publishers
                 PROVE  /\ publish'[v].base <= version'
                        /\ publish'[v].pc = "read" =>
                             publish'[v].got \in Contexts /\ publish'[v].target = 0
                        /\ publish'[v].pc = "target" => publish'[v].target \in Versions
                        /\ publish'[v].pc = "write" =>
                             /\ publish'[v].got \in ValidContexts
                             /\ publish'[v].target > 0 =>
                                  /\ publish'[v].target \in Versions
                                  /\ snapshot'[publish'[v].target] = publish'[v].got
      BY DEF ReadInv
    <3>1. CASE v = u
      BY <3>1, <2>1, <2>3, NotPublishingType DEF PubInv, PubTypeOK
    <3>2. CASE v # u
      <4>1. publish'[v] = publish[v]
        BY <3>2, <2>1 DEF PubInv, PubTypeOK
      <4>2. publish[v].base \in Nat /\ publish[v].base <= version
        BY PublishAssumption DEF PubInv, PubTypeOK, ReadInv
      <4>3. ASSUME publish[v].pc = "write", publish[v].target > 0
            PROVE  publish[v].target # next
        BY <4>3, <1>2, <2>2, PublishAssumption DEF PubInv, ReadInv, next
      <4>4. ASSUME publish[v].pc = "write", publish[v].target > 0
            PROVE  /\ publish[v].target \in Versions
                   /\ snapshot'[publish[v].target] = publish[v].got
        BY <4>3, <4>4, <2>1 DEF PubInv, PubTypeOK, ReadInv
      <4> QED
        BY <4>1, <4>2, <4>4, <2>1, <2>3 DEF PubInv, ReadInv
    <3> QED
      BY <3>1, <3>2
  <2>6. VersionsDense'
    BY <2>1, <2>2, <2>3 DEF PubInv, PubTypeOK, VersionsDense, Versions
  <2>7. PublishedValid'
    BY <2>1, <2>2 DEF PubInv, PubTypeOK, PublishedValid
  <2>8. DraftFlagged'
    BY <2>1, <2>2 DEF PubInv, PubTypeOK, DraftFlagged
  <2> QED
    BY <2>4, <2>5, <2>6, <2>7, <2>8 DEF PubInv
<1> QED
  BY <1>1, <1>2

\* Every step keeps the invariant.
LEMMA PubNextInv == PubInv /\ [PubNext]_pubVars => PubInv'
<1> SUFFICES ASSUME PubInv, [PubNext]_pubVars PROVE PubInv'
  OBVIOUS
<1>1. CASE UNCHANGED pubVars
  BY <1>1 DEF pubVars, PubInv, PubTypeOK, ReadInv, VersionsDense, PublishedValid, DraftFlagged
<1>2. CASE \E e \in Editors :
             MarkModelDraft(e) \/ \E p \in Parts, x \in Values : EditPart(e, p, x)
  BY <1>2, EditInv
<1>3. ASSUME NEW u \in Publishers, PublishStops(u) PROVE PubInv'
  BY <1>3, EndInv DEF PublishStops
<1> QED
  BY <1>1, <1>2, <1>3, BeginPublishInv, ReadPartInv, ValidateInv, BeginRollbackInv,
     ReadTargetInv, WriteVersionInv, DescribeInv DEF PubNext

\* The invariant holds of every reachable state.
LEMMA PubInductive == PubSpec => []PubInv
BY PubInitInv, PubNextInv, PTL DEF PubSpec

-----------------------------------------------------------------------------
\* Type correctness.
THEOREM PublishTypeCorrect == PubSpec => []PubTypeOK
<1>1. PubInv => PubTypeOK
  BY DEF PubInv
<1> QED
  BY <1>1, PubInductive, PTL

\* The versions have no gap and end at the header's, for any number of
\* publishes and rollbacks at once.
THEOREM VersionsDenseCorrect == PubSpec => []VersionsDense
<1>1. PubInv => VersionsDense
  BY DEF PubInv
<1> QED
  BY <1>1, PubInductive, PTL

\* Whatever was published, or republished by a rollback, passed validation.
THEOREM PublishedValidCorrect == PubSpec => []PublishedValid
<1>1. PubInv => PublishedValid
  BY DEF PubInv
<1> QED
  BY <1>1, PubInductive, PTL

\* A model called published has the published draft, but for the four
\* exceptions that unflagged records.
THEOREM DraftFlaggedCorrect == PubSpec => []DraftFlagged
<1>1. PubInv => DraftFlagged
  BY DEF PubInv
<1> QED
  BY <1>1, PubInductive, PTL

\* Only WriteVersion changes a snapshot or the version.
LEMMA OnlyWrites ==
  ASSUME [PubNext]_pubVars
  PROVE  \/ UNCHANGED <<snapshot, version>>
         \/ \E u \in Publishers : WriteVersion(u)
BY DEF PubNext, pubVars, MarkModelDraft, EditPart, DescribeJoin, BeginPublish, ReadPart, Validate,
   BeginRollback, ReadTarget, PublishStops

\* No published version is ever replaced.
THEOREM NoVersionReplacedCorrect == PubSpec => NoVersionReplaced
<1>1. ASSUME PubInv, [PubNext]_pubVars, NEW v \in Versions, snapshot[v] # NoContext
      PROVE  snapshot'[v] = snapshot[v]
  BY <1>1, OnlyWrites DEF WriteVersion, PubInv, PubTypeOK
<1>2. PubInv /\ [PubNext]_pubVars =>
        [\A v \in Versions : snapshot[v] # NoContext => snapshot'[v] = snapshot[v]]_pubVars
  BY <1>1
<1> QED
  BY <1>2, PubInductive, PTL DEF PubSpec, NoVersionReplaced

\* A rollback to the version before undoes exactly the version that is served
\* when it takes effect.
THEOREM RollbackCorrect == PubSpec => RollbackUndoesLast
<1>1. ASSUME PubInv, [PubNext]_pubVars, NEW u \in Publishers,
             publish[u].pc = "write", publish[u].target > 0,
             publish[u].target = publish[u].base - 1,
             publish'[u] = NotPublishing, version' # version
      PROVE  snapshot'[version'] = snapshot[version - 1]
  <2>1. PICK w \in Publishers : WriteVersion(w)
    BY <1>1, OnlyWrites
  <2>2. w = u
    <3>1. NotPublishing.pc = "idle"
      BY NotPublishingType
    <3> QED
      BY <1>1, <2>1, <3>1 DEF WriteVersion, PubInv, PubTypeOK
  <2>3. publish[u].base + 1 \in Versions /\ snapshot[publish[u].base + 1] = NoContext
    BY <1>1, <2>1, <2>2 DEF WriteVersion
  <2>4. publish[u].base = version
    BY <1>1, <2>3, FreshBase
  <2>5. version' = version + 1 /\ snapshot'[version'] = publish[u].got
    BY <1>1, <2>1, <2>2, <2>3, <2>4 DEF WriteVersion, PubInv, PubTypeOK
  <2>6. publish[u].got = snapshot[version - 1]
    BY <1>1, <2>4 DEF PubInv, ReadInv
  <2> QED
    BY <2>5, <2>6
<1>2. PubInv /\ [PubNext]_pubVars =>
        [\A u \in Publishers :
           (publish[u].pc = "write" /\ publish[u].target > 0
              /\ publish[u].target = publish[u].base - 1
              /\ publish'[u] = NotPublishing /\ version' # version)
           => snapshot'[version'] = snapshot[version - 1]]_pubVars
  BY <1>1
<1> QED
  BY <1>2, PubInductive, PTL DEF PubSpec, RollbackUndoesLast

\* The model's state makes sense, for any number of publishers and editors.
THEOREM PublishSoundCorrect == PubSpec => []PublishSound
BY VersionsDenseCorrect, PublishedValidCorrect, DraftFlaggedCorrect, PTL DEF PublishSound

\* The history is kept, for any number of publishers and editors.
THEOREM HistoryKeptCorrect == PubSpec => HistoryKept
BY NoVersionReplacedCorrect, RollbackCorrect DEF HistoryKept

-----------------------------------------------------------------------------
(* Migrations: while no down is disturbed, the files in the database are the
   first ones and a down works alone on the last of them *)

\* A finite set of numbers has a largest element, the one Max picks: one whose
\* set of larger elements is smallest.
LEMMA MaxOfFinite ==
  ASSUME NEW S, IsFiniteSet(S), S \subseteq Nat, S # {}
  PROVE  Max(S) \in S /\ \A y \in S : Max(S) >= y
<1> DEFINE Past(x) == {y \in S : y > x}
<1> DEFINE Pasts == {Past(x) : x \in S}
<1>1. FiniteSubsetsOf(S) = SUBSET S
  BY FS_FiniteSubsetsOfFinite
<1>2. \A x \in S : Past(x) \in SUBSET S
  OBVIOUS
<1>3. ASSUME NEW x \in S, NEW y \in S, y > x PROVE Past(y) \subseteq Past(x) /\ Past(y) # Past(x)
  <2>1. y \in Past(x) /\ y \notin Past(y)
    BY <1>3
  <2>2. \A z \in S : z > y => z > x
    BY <1>3
  <2> QED
    BY <2>1, <2>2
<1> HIDE DEF Past
<1>4. Pasts # {} /\ Pasts \subseteq FiniteSubsetsOf(S)
  <2>1. PICK z \in S : TRUE
    OBVIOUS
  <2>2. Past(z) \in Pasts
    OBVIOUS
  <2> QED
    BY <1>1, <1>2, <2>2
<1> HIDE DEF Pasts
<1>5. PICK A \in Pasts : \A B \in Pasts : ~(<<B, A>> \in StrictSubsetOrdering(S))
  BY <1>4, FS_StrictSubsetOrderingWellFounded, WFMin, Zenon
<1>6. PICK x \in S : A = Past(x)
  BY DEF Pasts
<1>7. \A y \in S : x >= y
  <2> SUFFICES ASSUME NEW y \in S, y > x PROVE FALSE
    OBVIOUS
  <2>1. Past(y) \subseteq A /\ Past(y) # A
    BY <1>3, <1>6
  <2>2. Past(y) \in Pasts /\ Past(y) \in SUBSET S /\ A \in SUBSET S
    BY <1>2, <1>6 DEF Pasts
  <2>3. <<Past(y), A>> \in StrictSubsetOrdering(S)
    BY <2>1, <2>2 DEF StrictSubsetOrdering
  <2> QED
    BY <1>5, <2>2, <2>3
<1> QED
  BY <1>7 DEF Max

\* And a smallest one, which Min picks.
LEMMA MinOfFinite ==
  ASSUME NEW S, IsFiniteSet(S), S \subseteq Nat, S # {}
  PROVE  Min(S) \in S /\ \A y \in S : Min(S) <= y
<1> DEFINE Past(x) == {y \in S : y < x}
<1> DEFINE Pasts == {Past(x) : x \in S}
<1>1. FiniteSubsetsOf(S) = SUBSET S
  BY FS_FiniteSubsetsOfFinite
<1>2. \A x \in S : Past(x) \in SUBSET S
  OBVIOUS
<1>3. ASSUME NEW x \in S, NEW y \in S, y < x PROVE Past(y) \subseteq Past(x) /\ Past(y) # Past(x)
  <2>1. y \in Past(x) /\ y \notin Past(y)
    BY <1>3
  <2>2. \A z \in S : z < y => z < x
    BY <1>3
  <2> QED
    BY <2>1, <2>2
<1> HIDE DEF Past
<1>4. Pasts # {} /\ Pasts \subseteq FiniteSubsetsOf(S)
  <2>1. PICK z \in S : TRUE
    OBVIOUS
  <2>2. Past(z) \in Pasts
    OBVIOUS
  <2> QED
    BY <1>1, <1>2, <2>2
<1> HIDE DEF Pasts
<1>5. PICK A \in Pasts : \A B \in Pasts : ~(<<B, A>> \in StrictSubsetOrdering(S))
  BY <1>4, FS_StrictSubsetOrderingWellFounded, WFMin, Zenon
<1>6. PICK x \in S : A = Past(x)
  BY DEF Pasts
<1>7. \A y \in S : x <= y
  <2> SUFFICES ASSUME NEW y \in S, y < x PROVE FALSE
    OBVIOUS
  <2>1. Past(y) \subseteq A /\ Past(y) # A
    BY <1>3, <1>6
  <2>2. Past(y) \in Pasts /\ Past(y) \in SUBSET S /\ A \in SUBSET S
    BY <1>2, <1>6 DEF Pasts
  <2>3. <<Past(y), A>> \in StrictSubsetOrdering(S)
    BY <2>1, <2>2 DEF StrictSubsetOrdering
  <2> QED
    BY <1>5, <2>2, <2>3
<1> QED
  BY <1>7 DEF Min

\* The files left to a process: Min is the next one.
LEMMA NextFile ==
  ASSUME NEW S \in SUBSET Files, S # {}
  PROVE  /\ Min(S) \in S /\ Min(S) \in Files /\ \A f \in S : Min(S) <= f
         /\ Max(S) \in S /\ Max(S) \in Files /\ \A f \in S : Max(S) >= f
<1>1. IsFiniteSet(S) /\ S \subseteq Nat
  BY MigrationAssumption, FS_Subset
<1> QED
  BY <1>1, MinOfFinite, MaxOfFinite

MigratorRecords == [pc : {"idle", "up", "record", "down", "unrecord"}, left : SUBSET Files]

Downs == {p \in Processes : migrator[p].pc \in {"down", "unrecord"}}

\* While no down was disturbed: the files in the database are the first ones; a
\* down works alone on the last record; and everything before the files left to
\* an up is applied.
Undisturbed ==
    /\ \A f \in schema, g \in Files : g < f => g \in schema
    /\ \A p \in Downs, q \in Processes : q # p => migrator[q].pc = "idle"
    /\ Downs = {} => recorded \subseteq schema
    /\ \A p \in Processes : migrator[p].pc \in {"up", "record"} => Files \ migrator[p].left \subseteq schema
    /\ \A p \in Processes : migrator[p].pc = "record" => Min(migrator[p].left) \in schema
    /\ \A p \in Processes : migrator[p].pc = "down" =>
         /\ schema = recorded
         /\ \E f \in recorded : migrator[p].left = {f} /\ \A g \in recorded : g <= f
    /\ \A p \in Processes : migrator[p].pc = "unrecord" =>
         \E f \in recorded : migrator[p].left = {f} /\ schema = recorded \ {f}

MigInv ==
    /\ schema \in SUBSET Files /\ recorded \in SUBSET Files /\ adrift \in BOOLEAN
    /\ migrator \in [Processes -> MigratorRecords]
    /\ \A p \in Processes : migrator[p].pc = "record" => migrator[p].left # {}
    /\ ~adrift => Undisturbed

\* A process that does not migrate.
LEMMA IdleRecord == NotMigrating \in MigratorRecords /\ NotMigrating.pc = "idle" /\ NotMigrating.left = {}
BY DEF NotMigrating, MigratorRecords

\* An empty database.
LEMMA MigInitInv == MigInit => MigInv
<1> SUFFICES ASSUME MigInit PROVE MigInv
  OBVIOUS
<1>1. schema = {} /\ recorded = {} /\ adrift \in BOOLEAN
  BY DEF MigInit
<1>2. migrator \in [Processes -> MigratorRecords] /\ \A p \in Processes : migrator[p].pc = "idle"
  BY IdleRecord DEF MigInit
<1> QED
  BY <1>1, <1>2 DEF MigInv, Undisturbed, Downs

\* A process begins to migrate when no down is at work.
LEMMA BeginUpInv ==
  ASSUME MigInv, NEW p \in Processes, BeginUp(p)
  PROVE  MigInv'
<1> DEFINE m == [pc |-> "up", left |-> Files \ recorded]
<1>1. migrator' = [migrator EXCEPT ![p] = m] /\ UNCHANGED <<schema, recorded>>
      /\ adrift' = (adrift \/ \E q \in Processes : migrator[q].pc \in {"down", "unrecord"})
  BY DEF BeginUp
<1>2. m \in MigratorRecords /\ m.pc = "up" /\ m.left = Files \ recorded
  BY DEF MigratorRecords, MigInv
<1> HIDE DEF m
<1>3. /\ migrator' \in [Processes -> MigratorRecords] /\ migrator'[p] = m
      /\ \A q \in Processes \ {p} : migrator'[q] = migrator[q]
  BY <1>1, <1>2 DEF MigInv
<1>4. adrift' \in BOOLEAN
  BY <1>1 DEF MigInv
<1>5. ~adrift' => Undisturbed /\ Downs = {}
  BY <1>1 DEF MigInv, Downs
<1>6. Downs = {} => Downs' = {}
  BY <1>2, <1>3 DEF Downs
<1>7. ~adrift' => Undisturbed'
  <2> SUFFICES ASSUME ~adrift' PROVE Undisturbed'
    OBVIOUS
  <2>1. Undisturbed /\ Downs = {} /\ Downs' = {} /\ UNCHANGED <<schema, recorded>>
    BY <1>1, <1>5, <1>6
  <2>2. \A q \in Processes : migrator'[q].pc \in {"up", "record"} => Files \ migrator'[q].left \subseteq schema
    BY <1>2, <1>3, <2>1 DEF Undisturbed
  <2>3. \A q \in Processes : migrator'[q].pc = "record" => Min(migrator'[q].left) \in schema
    BY <1>2, <1>3, <2>1 DEF Undisturbed
  <2>4. \A q \in Processes : migrator'[q].pc \notin {"down", "unrecord"}
    BY <2>1 DEF Downs
  <2> QED
    BY <2>1, <2>2, <2>3, <2>4 DEF Undisturbed
<1> QED
  BY <1>1, <1>2, <1>3, <1>4, <1>7 DEF MigInv

\* A file is applied after all that precede it.
LEMMA ExecUpInv ==
  ASSUME MigInv, NEW p \in Processes, ExecUp(p)
  PROVE  MigInv'
<1> DEFINE f == Min(migrator[p].left)
<1>1. /\ migrator[p].pc = "up" /\ migrator[p].left # {} /\ schema' = schema \cup {f}
      /\ migrator' = [migrator EXCEPT ![p].pc = "record"] /\ UNCHANGED <<recorded, adrift>>
  BY DEF ExecUp
<1>2. migrator[p] \in MigratorRecords /\ migrator[p].left \in SUBSET Files
  BY DEF MigInv, MigratorRecords
<1>3. f \in migrator[p].left /\ f \in Files /\ \A g \in migrator[p].left : f <= g
  BY <1>1, <1>2, NextFile
<1>4. /\ migrator' \in [Processes -> MigratorRecords]
      /\ migrator'[p].pc = "record" /\ migrator'[p].left = migrator[p].left
      /\ \A q \in Processes \ {p} : migrator'[q] = migrator[q]
  BY <1>1, <1>2 DEF MigInv, MigratorRecords
<1>5. schema' \in SUBSET Files /\ \A q \in Processes : migrator'[q].pc = "record" => migrator'[q].left # {}
  BY <1>1, <1>3, <1>4 DEF MigInv
<1>6. ~adrift => Undisturbed'
  <2> SUFFICES ASSUME ~adrift PROVE Undisturbed'
    OBVIOUS
  <2>1. Undisturbed /\ Downs = {}
    BY <1>1 DEF MigInv, Undisturbed, Downs
  <2>2. Downs' = {} /\ \A q \in Processes : migrator'[q].pc \notin {"down", "unrecord"}
    BY <1>4, <2>1 DEF Downs
  <2>3. \A e \in schema', g \in Files : g < e => g \in schema'
    <3> SUFFICES ASSUME NEW e \in schema', NEW g \in Files, g < e PROVE g \in schema'
      OBVIOUS
    <3>1. CASE e \in schema
      BY <1>1, <2>1, <3>1 DEF Undisturbed
    <3>2. CASE e = f
      <4>3. f \in Nat /\ g \in Nat /\ g < f
        BY <1>3, <3>2, MigrationAssumption
      <4>1. g \notin migrator[p].left
        BY <1>3, <4>3
      <4>2. Files \ migrator[p].left \subseteq schema
        BY <1>1, <2>1 DEF Undisturbed
      <4> QED
        BY <1>1, <4>1, <4>2
    <3> QED
      BY <1>1, <3>1, <3>2
  <2>4. \A q \in Processes : migrator'[q].pc \in {"up", "record"} => Files \ migrator'[q].left \subseteq schema'
    BY <1>1, <1>4, <2>1 DEF Undisturbed
  <2>5. \A q \in Processes : migrator'[q].pc = "record" => Min(migrator'[q].left) \in schema'
    BY <1>1, <1>4, <2>1 DEF Undisturbed
  <2>6. recorded' \subseteq schema'
    BY <1>1, <2>1 DEF Undisturbed
  <2> QED
    BY <2>2, <2>3, <2>4, <2>5, <2>6 DEF Undisturbed
<1> QED
  BY <1>1, <1>4, <1>5, <1>6 DEF MigInv

\* A file that passes for applied sets the records adrift.
LEMMA ExecSkipsInv ==
  ASSUME MigInv, NEW p \in Processes, ExecSkips(p)
  PROVE  MigInv'
<1>1. /\ migrator[p].left # {} /\ adrift' = TRUE /\ UNCHANGED <<schema, recorded>>
      /\ migrator' = [migrator EXCEPT ![p].pc = "record"]
  BY DEF ExecSkips
<1>2. /\ migrator' \in [Processes -> MigratorRecords]
      /\ migrator'[p].pc = "record" /\ migrator'[p].left = migrator[p].left
      /\ \A q \in Processes \ {p} : migrator'[q] = migrator[q]
  BY <1>1 DEF MigInv, MigratorRecords
<1> QED
  BY <1>1, <1>2 DEF MigInv

\* What is recorded was applied.
LEMMA RecordUpInv ==
  ASSUME MigInv, NEW p \in Processes, RecordUp(p)
  PROVE  MigInv'
<1> DEFINE f == Min(migrator[p].left)
<1> DEFINE m == [pc |-> "up", left |-> migrator[p].left \ {f}]
<1>1. /\ migrator[p].pc = "record" /\ recorded' = recorded \cup {f}
      /\ migrator' = [migrator EXCEPT ![p] = m] /\ UNCHANGED <<schema, adrift>>
  BY DEF RecordUp, MigInv
<1>2. migrator[p] \in MigratorRecords /\ migrator[p].left \in SUBSET Files /\ migrator[p].left # {}
  BY <1>1 DEF MigInv, MigratorRecords
<1>3. f \in migrator[p].left /\ f \in Files
  BY <1>2, NextFile
<1>4. m \in MigratorRecords /\ m.pc = "up" /\ m.left = migrator[p].left \ {f}
  BY <1>2 DEF MigratorRecords
<1> HIDE DEF m
<1>5. /\ migrator' \in [Processes -> MigratorRecords] /\ migrator'[p] = m
      /\ \A q \in Processes \ {p} : migrator'[q] = migrator[q]
  BY <1>1, <1>4 DEF MigInv
<1>6. recorded' \in SUBSET Files /\ \A q \in Processes : migrator'[q].pc = "record" => migrator'[q].left # {}
  BY <1>1, <1>3, <1>4, <1>5 DEF MigInv
<1>7. ~adrift => Undisturbed'
  <2> SUFFICES ASSUME ~adrift PROVE Undisturbed'
    OBVIOUS
  <2>1. Undisturbed /\ Downs = {}
    BY <1>1 DEF MigInv, Undisturbed, Downs
  <2>2. Downs' = {} /\ \A q \in Processes : migrator'[q].pc \notin {"down", "unrecord"}
    BY <1>4, <1>5, <2>1 DEF Downs
  <2>3. f \in schema
    BY <1>1, <2>1 DEF Undisturbed
  <2>4. \A q \in Processes : migrator'[q].pc \in {"up", "record"} => Files \ migrator'[q].left \subseteq schema
    <3>1. Files \ migrator[p].left \subseteq schema
      BY <1>1, <2>1 DEF Undisturbed
    <3> QED
      BY <1>4, <1>5, <2>1, <2>3, <3>1 DEF Undisturbed
  <2>5. \A q \in Processes : migrator'[q].pc = "record" => Min(migrator'[q].left) \in schema
    BY <1>4, <1>5, <2>1 DEF Undisturbed
  <2>6. recorded' \subseteq schema'
    BY <1>1, <2>1, <2>3 DEF Undisturbed
  <2> QED
    BY <1>1, <2>1, <2>2, <2>4, <2>5, <2>6 DEF Undisturbed
<1> QED
  BY <1>1, <1>5, <1>6, <1>7 DEF MigInv

\* A process ends and the tables stay.
LEMMA MigratorEndsInv ==
  ASSUME MigInv, NEW p \in Processes, migrator' = [migrator EXCEPT ![p] = NotMigrating],
         adrift' \in BOOLEAN, adrift => adrift', ~adrift' => migrator[p].pc # "unrecord",
         UNCHANGED <<schema, recorded>>
  PROVE  MigInv'
<1>1. /\ migrator' \in [Processes -> MigratorRecords] /\ migrator'[p].pc = "idle"
      /\ \A q \in Processes \ {p} : migrator'[q] = migrator[q]
  BY IdleRecord DEF MigInv
<1>2. \A q \in Processes : migrator'[q].pc = "record" => migrator'[q].left # {}
  BY <1>1 DEF MigInv
<1>3. ~adrift' => Undisturbed'
  <2> SUFFICES ASSUME ~adrift' PROVE Undisturbed'
    OBVIOUS
  <2>1. Undisturbed /\ migrator[p].pc # "unrecord"
    BY DEF MigInv
  <2>2. Downs' = Downs \ {p}
    BY <1>1 DEF Downs
  <2>3. Downs' = {} => recorded \subseteq schema
    <3>1. CASE p \in Downs
      BY <2>1, <3>1 DEF Undisturbed, Downs
    <3>2. CASE p \notin Downs
      BY <2>1, <2>2, <3>2 DEF Undisturbed
    <3> QED
      BY <3>1, <3>2
  <2>4. \A r \in Downs', q \in Processes : q # r => migrator'[q].pc = "idle"
    BY <1>1, <2>1, <2>2 DEF Undisturbed
  <2> QED
    BY <1>1, <2>1, <2>3, <2>4 DEF Undisturbed
<1> QED
  BY <1>1, <1>2, <1>3 DEF MigInv

\* A down begins alone, on the last record.
LEMMA BeginDownInv ==
  ASSUME MigInv, NEW p \in Processes, BeginDown(p)
  PROVE  MigInv'
<1> DEFINE m == [pc |-> "down", left |-> {Max(recorded)}]
<1>1. /\ migrator' = [migrator EXCEPT ![p] = m] /\ UNCHANGED <<schema, recorded>> /\ recorded # {}
      /\ adrift' = (adrift \/ schema # recorded \/ \E q \in Processes : migrator[q] # NotMigrating)
  BY DEF BeginDown
<1>2. Max(recorded) \in recorded /\ Max(recorded) \in Files /\ \A f \in recorded : Max(recorded) >= f
  BY <1>1, NextFile DEF MigInv
<1>3. m \in MigratorRecords /\ m.pc = "down" /\ m.left = {Max(recorded)}
  BY <1>2 DEF MigratorRecords
<1> HIDE DEF m
<1>4. /\ migrator' \in [Processes -> MigratorRecords] /\ migrator'[p] = m
      /\ \A q \in Processes \ {p} : migrator'[q] = migrator[q]
  BY <1>1, <1>3 DEF MigInv
<1>5. adrift' \in BOOLEAN
  BY <1>1 DEF MigInv
<1>6. \A q \in Processes : migrator'[q].pc = "record" => migrator'[q].left # {}
  BY <1>3, <1>4 DEF MigInv
<1>7. ~adrift' => Undisturbed /\ schema = recorded /\ \A q \in Processes : migrator[q] = NotMigrating
  BY <1>1 DEF MigInv
<1>8. ~adrift' => Undisturbed'
  <2> SUFFICES ASSUME ~adrift' PROVE Undisturbed'
    OBVIOUS
  <2>1. Undisturbed /\ schema = recorded /\ \A q \in Processes \ {p} : migrator'[q].pc = "idle"
    BY <1>4, <1>7, IdleRecord
  <2>2. Downs' = {p}
    BY <1>3, <1>4, <2>1 DEF Downs
  <2>3. \A f \in recorded : f <= Max(recorded)
    BY <1>2, MigrationAssumption DEF MigInv
  <2>4. \A q \in Processes : migrator'[q].pc = "down" =>
          \E f \in recorded : migrator'[q].left = {f} /\ \A g \in recorded : g <= f
    BY <1>2, <1>3, <1>4, <2>1, <2>3
  <2>5. \A q \in Processes : migrator'[q].pc \in {"idle", "down"}
    BY <1>3, <1>4, <2>1
  <2>6. \A f \in schema', g \in Files : g < f => g \in schema'
    BY <1>1, <2>1 DEF Undisturbed
  <2> QED
    BY <1>1, <2>1, <2>2, <2>4, <2>5, <2>6 DEF Undisturbed
<1> QED
  BY <1>1, <1>4, <1>5, <1>6, <1>8 DEF MigInv

\* The last file is undone first, so that no gap appears.
LEMMA ExecDownInv ==
  ASSUME MigInv, NEW p \in Processes, ExecDown(p)
  PROVE  MigInv'
<1>1. /\ migrator[p].pc = "down" /\ schema' = schema \ migrator[p].left
      /\ migrator' = [migrator EXCEPT ![p].pc = "unrecord"] /\ UNCHANGED <<recorded, adrift>>
  BY DEF ExecDown
<1>2. /\ migrator' \in [Processes -> MigratorRecords]
      /\ migrator'[p].pc = "unrecord" /\ migrator'[p].left = migrator[p].left
      /\ \A q \in Processes \ {p} : migrator'[q] = migrator[q]
  BY <1>1 DEF MigInv, MigratorRecords
<1>3. schema' \in SUBSET Files /\ \A q \in Processes : migrator'[q].pc = "record" => migrator'[q].left # {}
  BY <1>1, <1>2 DEF MigInv
<1>4. ~adrift => Undisturbed'
  <2> SUFFICES ASSUME ~adrift PROVE Undisturbed'
    OBVIOUS
  <2>1. Undisturbed /\ p \in Downs
    BY <1>1 DEF MigInv, Downs
  <2>2. \A q \in Processes \ {p} : migrator'[q].pc = "idle"
    BY <1>2, <2>1 DEF Undisturbed
  <2>3. Downs' = {p}
    BY <1>2, <2>2 DEF Downs
  <2>4. schema = recorded
    BY <1>1, <2>1 DEF Undisturbed
  <2>5. PICK f \in recorded : migrator[p].left = {f} /\ \A g \in recorded : g <= f
    BY <1>1, <2>1 DEF Undisturbed
  <2>6. schema' = recorded \ {f}
    BY <1>1, <2>4, <2>5
  <2>7. \A e \in schema', g \in Files : g < e => g \in schema'
    <3> SUFFICES ASSUME NEW e \in schema', NEW g \in Files, g < e PROVE g \in schema'
      OBVIOUS
    <3>1. e \in schema /\ e <= f /\ e \in Nat /\ f \in Nat /\ g \in Nat
      BY <2>4, <2>5, <2>6, MigrationAssumption DEF MigInv
    <3>2. g \in schema /\ g # f
      BY <2>1, <3>1 DEF Undisturbed
    <3> QED
      BY <2>4, <2>6, <3>2
  <2>8. \A q \in Processes : migrator'[q].pc = "unrecord" =>
          \E e \in recorded' : migrator'[q].left = {e} /\ schema' = recorded' \ {e}
    BY <1>1, <1>2, <2>2, <2>5, <2>6
  <2>9. \A q \in Processes : migrator'[q].pc \in {"idle", "unrecord"}
    BY <1>2, <2>2
  <2> QED
    BY <2>2, <2>3, <2>7, <2>8, <2>9 DEF Undisturbed
<1> QED
  BY <1>1, <1>2, <1>3, <1>4 DEF MigInv

\* DeleteRecord: the record of the file that was taken back goes.
LEMMA DeleteRecordInv ==
  ASSUME MigInv, NEW p \in Processes, DeleteRecord(p)
  PROVE  MigInv'
<1>1. /\ migrator[p].pc = "unrecord" /\ recorded' = recorded \ migrator[p].left
      /\ migrator' = [migrator EXCEPT ![p] = NotMigrating] /\ UNCHANGED <<schema, adrift>>
  BY DEF DeleteRecord
<1>2. /\ migrator' \in [Processes -> MigratorRecords] /\ migrator'[p].pc = "idle"
      /\ \A q \in Processes \ {p} : migrator'[q] = migrator[q]
  BY <1>1, IdleRecord DEF MigInv
<1>3. recorded' \in SUBSET Files /\ \A q \in Processes : migrator'[q].pc = "record" => migrator'[q].left # {}
  BY <1>1, <1>2 DEF MigInv
<1>4. ~adrift => Undisturbed'
  <2> SUFFICES ASSUME ~adrift PROVE Undisturbed'
    OBVIOUS
  <2>1. Undisturbed /\ p \in Downs
    BY <1>1 DEF MigInv, Downs
  <2>2. \A q \in Processes : migrator'[q].pc = "idle"
    BY <1>2, <2>1 DEF Undisturbed
  <2>3. PICK f \in recorded : migrator[p].left = {f} /\ schema = recorded \ {f}
    BY <1>1, <2>1 DEF Undisturbed
  <2>4. recorded' = schema' /\ schema' = schema
    BY <1>1, <2>3
  <2>5. Downs' = {}
    BY <2>2 DEF Downs
  <2> QED
    BY <2>1, <2>2, <2>4, <2>5 DEF Undisturbed
<1> QED
  BY <1>1, <1>2, <1>3, <1>4 DEF MigInv

\* Every step of the processes keeps the invariant.
LEMMA MigNextInv == MigInv /\ [MigNext]_migVars => MigInv'
<1> SUFFICES ASSUME MigInv, [MigNext]_migVars PROVE MigInv'
  OBVIOUS
<1>1. CASE UNCHANGED migVars
  BY <1>1 DEF migVars, MigInv, Undisturbed, Downs
<1>2. ASSUME NEW p \in Processes, UpDone(p) PROVE MigInv'
  BY <1>2, MigratorEndsInv DEF UpDone, MigInv
<1>3. ASSUME NEW p \in Processes, MigrationStops(p) PROVE MigInv'
  <2>1. /\ migrator' = [migrator EXCEPT ![p] = NotMigrating] /\ UNCHANGED <<schema, recorded>>
        /\ adrift' = (adrift \/ migrator[p].pc = "unrecord")
    BY <1>3 DEF MigrationStops
  <2>2. adrift' \in BOOLEAN /\ (adrift => adrift') /\ (~adrift' => migrator[p].pc # "unrecord")
    BY <2>1 DEF MigInv
  <2> QED
    BY <2>1, <2>2, MigratorEndsInv
<1> QED
  BY <1>1, <1>2, <1>3, BeginUpInv, ExecUpInv, ExecSkipsInv, RecordUpInv, BeginDownInv, ExecDownInv, DeleteRecordInv
     DEF MigNext

\* The records tell what is in the database and the files take effect in order,
\* for any number of processes and files, unless a file passed for applied that
\* was not, or a down was not alone or not finished.
THEOREM LedgerCorrect == MigSpec => []LedgerAgrees
<1>1. MigInv => LedgerAgrees
  <2> SUFFICES ASSUME MigInv PROVE LedgerAgrees
    OBVIOUS
  <2>1. MigTypeOK /\ AppliedInOrder
    BY DEF MigInv, MigTypeOK, MigratorRecords, AppliedInOrder, Undisturbed
  <2>2. RecordedIsApplied
    <3> SUFFICES ASSUME ~adrift, NEW f \in recorded, f \notin schema
                 PROVE  \E p \in Processes : migrator[p] = [pc |-> "unrecord", left |-> {f}]
      BY DEF RecordedIsApplied
    <3>1. PICK p \in Downs : TRUE
      BY DEF MigInv, Undisturbed
    <3>2. migrator[p].pc = "unrecord"
      BY DEF MigInv, Undisturbed, Downs
    <3>3. migrator[p].left = {f} /\ migrator[p] \in MigratorRecords
      BY <3>2 DEF MigInv, Undisturbed, Downs
    <3>4. migrator[p] = [pc |-> "unrecord", left |-> {f}]
      BY <3>2, <3>3 DEF MigratorRecords
    <3> QED
      BY <3>4 DEF Downs
  <2> QED
    BY <2>1, <2>2 DEF LedgerAgrees
<1> QED
  BY <1>1, MigInitInv, MigNextInv, PTL DEF MigSpec

-----------------------------------------------------------------------------
(* Conversations: the keys of the ledger are as many as the versions *)

\* The keys that are in the ledger.
KeysApplied == {k \in Keys : ledger[k] # {}}

\* The keys of the ledger are as many as the versions, each made one of them,
\* and the messages of each are among the conversation's.
LedgerKept ==
    /\ IsFiniteSet(KeysApplied)
    /\ conv.version = Cardinality(KeysApplied)
    /\ \A k \in Keys : ledger[k] = {} \/ \E e \in ledger[k] : ledger[k] = {e}
    /\ \A k \in Keys : \A e \in ledger[k] : e.version <= conv.version /\ e.msgs \subseteq conv.msgs
    /\ \A j, k \in Keys : \A d \in ledger[j], e \in ledger[k] : d.version = e.version => j = k

\* A save under way has a key; one that was answered, and one that a tab heard
\* of, is in the ledger or went with its conversation.
SavesKept ==
    /\ \A t \in Tabs : tab[t].pc # "idle" => tab[t].key \in Keys
    /\ \A t \in Tabs : tab[t].pc = "answered" => tab[t].key \in gone \/ ledger[tab[t].key] # {}
    /\ \A k \in acked : k \in gone \/ ledger[k] # {}

ConvInv == ConvTypeOK /\ LedgerKept /\ SavesKept

\* Initially nothing is saved.
LEMMA ConvInitInv == ConvInit => ConvInv
<1> SUFFICES ASSUME ConvInit PROVE ConvInv
    OBVIOUS
<1>1. ConvTypeOK
    BY DEF ConvInit, ConvTypeOK, NoConversation
<1>2. KeysApplied = {}
    BY DEF ConvInit, KeysApplied
<1>3. LedgerKept
    BY <1>2, FS_EmptySet DEF ConvInit, LedgerKept, NoConversation
<1>4. SavesKept
    BY DEF ConvInit, SavesKept
<1> QED  BY <1>1, <1>3, <1>4 DEF ConvInv

\* A save that is applied under its new key makes the next version; save is a
\* tab's or a straggler's.
LEMMA ApplyKept ==
    ASSUME ConvInv, NEW save, save.key \in Keys, save.msgs \in SUBSET Messages, Apply(save)
    PROVE  /\ conv' \in [version : Nat, msgs : SUBSET Messages]
           /\ ledger' \in [Keys -> SUBSET [msgs : SUBSET Messages, version : Nat]]
           /\ LedgerKept'
           /\ \A k \in Keys : ledger[k] # {} => ledger'[k] # {}
           /\ ledger'[save.key] # {}
<1> DEFINE key == save.key
           msgs == save.msgs
           ledgerRow == [msgs |-> msgs, version |-> conv.version + 1]
<1>1. /\ conv \in [version : Nat, msgs : SUBSET Messages]
      /\ ledger \in [Keys -> SUBSET [msgs : SUBSET Messages, version : Nat]]
      /\ key \in Keys /\ msgs \in SUBSET Messages /\ ledger[key] = {}
    BY DEF ConvInv, ConvTypeOK, Apply, MayApply
<1>2. conv' = [version |-> conv.version + 1, msgs |-> conv.msgs \cup msgs]
    BY DEF Apply
<1>3. ledger' = [ledger EXCEPT ![key] = @ \cup {ledgerRow}]
    BY <1>2 DEF Apply
<1>4. ledgerRow \in [msgs : SUBSET Messages, version : Nat] /\ ledgerRow.msgs = msgs /\ ledgerRow.version = conv.version + 1
    BY <1>1
<1> HIDE DEF ledgerRow, key, msgs
<1>5. conv' \in [version : Nat, msgs : SUBSET Messages] /\ conv'.version = conv.version + 1 /\ conv'.msgs = conv.msgs \cup msgs
    BY <1>1, <1>2
<1>6. ledger' \in [Keys -> SUBSET [msgs : SUBSET Messages, version : Nat]]
    BY <1>1, <1>3, <1>4
<1>7. ledger'[key] = {ledgerRow} /\ \A k \in Keys : k # key => ledger'[k] = ledger[k]
    BY <1>1, <1>3
<1>8. KeysApplied' = KeysApplied \cup {key} /\ key \notin KeysApplied
    BY <1>1, <1>7 DEF KeysApplied
<1>9. IsFiniteSet(KeysApplied) /\ conv.version = Cardinality(KeysApplied)
    BY DEF ConvInv, LedgerKept
<1>10. IsFiniteSet(KeysApplied') /\ Cardinality(KeysApplied') = Cardinality(KeysApplied) + 1
    BY <1>8, <1>9, FS_AddElement
<1>11. conv'.version = Cardinality(KeysApplied')
    BY <1>5, <1>9, <1>10
<1>12. \A k \in Keys : ledger'[k] = {} \/ \E e \in ledger'[k] : ledger'[k] = {e}
    BY <1>7 DEF ConvInv, LedgerKept
<1>13. \A k \in Keys : \A e \in ledger[k] : e.version \in Nat /\ e.version <= conv.version /\ e.msgs \subseteq conv.msgs
    BY <1>1 DEF ConvInv, LedgerKept
<1>14. \A k \in Keys : \A e \in ledger'[k] : e.version <= conv'.version /\ e.msgs \subseteq conv'.msgs
    BY <1>1, <1>4, <1>5, <1>7, <1>13
<1>15. \A j, k \in Keys : \A d \in ledger'[j], e \in ledger'[k] : d.version = e.version => j = k
  <2> SUFFICES ASSUME NEW j \in Keys, NEW k \in Keys, NEW d \in ledger'[j], NEW e \in ledger'[k],
                      d.version = e.version
               PROVE  j = k
      OBVIOUS
  <2>1. CASE j = key /\ k = key
      BY <2>1
  <2>2. CASE j # key /\ k # key
      BY <1>7, <2>2 DEF ConvInv, LedgerKept
  <2>3. CASE j = key /\ k # key
    <3>1. d = ledgerRow /\ e \in ledger[k]
        BY <1>7, <2>3
    <3> QED  BY <1>1, <1>4, <1>13, <3>1
  <2>4. CASE j # key /\ k = key
    <3>1. e = ledgerRow /\ d \in ledger[j]
        BY <1>7, <2>4
    <3> QED  BY <1>1, <1>4, <1>13, <3>1
  <2> QED  BY <2>1, <2>2, <2>3, <2>4
<1>16. LedgerKept'
    BY <1>10, <1>11, <1>12, <1>14, <1>15 DEF LedgerKept
<1>17. /\ \A k \in Keys : ledger[k] # {} => ledger'[k] # {}
       /\ ledger'[key] # {}
    BY <1>7
<1>18. ledger'[save.key] # {}
    BY <1>17 DEF key
<1> QED  BY <1>5, <1>6, <1>16, <1>17, <1>18

\* A step that leaves the row and its ledger leaves their invariant.
LEMMA LedgerUntouched ==
    ASSUME LedgerKept, UNCHANGED <<conv, ledger>>
    PROVE  LedgerKept'
<1>1. KeysApplied' = KeysApplied
    BY DEF KeysApplied
<1> QED  BY <1>1 DEF LedgerKept

\* What a tab holds.
TabRecord == [pc : {"idle", "sent", "checked", "answered"}, version : Nat,
              msgs : SUBSET Messages, key : Keys \cup {NoSave}, reply : Nat]

\* A step of one tab keeps the promises to all of them when it keeps those to
\* that one, and when no key leaves the ledger.
LEMMA OneTabKept ==
    ASSUME SavesKept, NEW t \in Tabs, acked \in SUBSET Keys,
           \A u \in Tabs : u # t => tab'[u] = tab[u],
           tab'[t].pc # "idle" => tab'[t].key \in Keys,
           tab'[t].pc = "answered" => tab'[t].key \in gone \/ ledger'[tab'[t].key] # {},
           \A k \in acked' \ acked : k \in gone \/ ledger'[k] # {},
           \A k \in Keys : ledger[k] # {} => ledger'[k] # {},
           gone' = gone
    PROVE  SavesKept'
<1>1. \A k \in acked' : k \in gone' \/ ledger'[k] # {}
    BY DEF SavesKept
<1>2. ASSUME NEW u \in Tabs
      PROVE  /\ tab'[u].pc # "idle" => tab'[u].key \in Keys
             /\ tab'[u].pc = "answered" => tab'[u].key \in gone' \/ ledger'[tab'[u].key] # {}
  <2>1. CASE u = t
      BY <2>1
  <2>2. CASE u # t
    <3>1. tab'[u] = tab[u]
        BY <2>2
    <3>2. /\ tab[u].pc # "idle" => tab[u].key \in Keys
          /\ tab[u].pc = "answered" => tab[u].key \in gone \/ ledger[tab[u].key] # {}
        BY DEF SavesKept
    <3>3. tab[u].pc = "answered" => tab[u].key \in Keys
        BY <3>2
    <3> QED  BY <3>1, <3>2, <3>3
  <2> QED  BY <2>1, <2>2
<1> QED  BY <1>1, <1>2 DEF SavesKept

\* A tab moves, and the row, the ledger and the promises made stay.
LEMMA TabMoves ==
    ASSUME ConvTypeOK, SavesKept, NEW t \in Tabs, NEW r \in TabRecord,
           tab' = [tab EXCEPT ![t] = r], UNCHANGED <<conv, ledger, acked, gone>>,
           straggler' \in SUBSET [key : Keys, version : Nat, msgs : SUBSET Messages],
           r.pc # "idle" => r.key \in Keys,
           r.pc = "answered" => ledger[r.key] # {}
    PROVE  ConvTypeOK' /\ SavesKept'
<1>1. tab \in [Tabs -> TabRecord]
    BY DEF ConvTypeOK, TabRecord
<1>2. tab' \in [Tabs -> TabRecord]
    BY <1>1
<1>3. tab'[t] = r /\ \A u \in Tabs : u # t => tab'[u] = tab[u]
    BY <1>1
<1>4. ConvTypeOK'
    BY <1>2 DEF ConvTypeOK, TabRecord
<1>5. acked \in SUBSET Keys /\ gone' = gone /\ ledger' = ledger /\ acked' = acked
    BY DEF ConvTypeOK
<1>6. SavesKept'
    BY <1>3, <1>5, OneTabKept
<1> QED  BY <1>4, <1>6

\* What a tab sends, is told and keeps preserves the invariant.
LEMMA TabStepInv ==
    ASSUME ConvInv, NEW t \in Tabs,
           \/ \E m \in Messages : Compose(t, m)
           \/ LoadConversation(t)
           \/ \E k \in Keys : SaveConversation(t, k)
           \/ Replay(t) \/ KeyIsNew(t) \/ RefuseSnapshot(t) \/ ReceiveAnswer(t) \/ SendAgain(t)
    PROVE  ConvInv'
<1>1. ConvTypeOK /\ LedgerKept /\ SavesKept
    BY DEF ConvInv
<1>2. UNCHANGED <<conv, ledger, gone>>
    BY DEF Compose, LoadConversation, SaveConversation, Replay, KeyIsNew, RefuseSnapshot, ReceiveAnswer, SendAgain
<1>3. LedgerKept'
    BY <1>1, <1>2, LedgerUntouched
<1>4. /\ tab \in [Tabs -> TabRecord] /\ tab[t] \in TabRecord
      /\ straggler \in SUBSET [key : Keys, version : Nat, msgs : SUBSET Messages]
    BY <1>1 DEF ConvTypeOK, TabRecord
<1>5. tab[t].pc # "idle" => tab[t].key \in Keys
    BY <1>1 DEF SavesKept
<1>6. ASSUME NEW m \in Messages, Compose(t, m) PROVE ConvTypeOK' /\ SavesKept'
  <2> DEFINE r == [tab[t] EXCEPT !.msgs = @ \cup {m}]
  <2>1. tab' = [tab EXCEPT ![t] = r] /\ tab[t].pc = "idle" /\ UNCHANGED <<straggler, acked>>
      BY <1>4, <1>6 DEF Compose
  <2>2. r \in TabRecord /\ r.pc = "idle"
      BY <1>4, <2>1 DEF TabRecord
  <2> HIDE DEF r
  <2> QED  BY <1>1, <1>2, <1>4, <2>1, <2>2, TabMoves
<1>7. ASSUME LoadConversation(t) PROVE ConvTypeOK' /\ SavesKept'
  <2> DEFINE r == [tab[t] EXCEPT !.version = conv.version, !.msgs = @ \cup conv.msgs]
  <2>1. tab' = [tab EXCEPT ![t] = r] /\ tab[t].pc = "idle" /\ UNCHANGED <<straggler, acked>>
      BY <1>4, <1>7 DEF LoadConversation
  <2>2. conv.version \in Nat /\ conv.msgs \in SUBSET Messages
      BY <1>1 DEF ConvTypeOK
  <2>3. r \in TabRecord /\ r.pc = "idle"
      BY <1>4, <2>1, <2>2 DEF TabRecord
  <2> HIDE DEF r
  <2> QED  BY <1>1, <1>2, <1>4, <2>1, <2>3, TabMoves
<1>8. ASSUME NEW k \in Keys, SaveConversation(t, k) PROVE ConvTypeOK' /\ SavesKept'
  <2> DEFINE r == [tab[t] EXCEPT !.pc = "sent", !.key = k]
  <2>1. tab' = [tab EXCEPT ![t] = r] /\ UNCHANGED <<straggler, acked>>
      BY <1>4, <1>8 DEF SaveConversation
  <2>2. r \in TabRecord /\ r.pc = "sent" /\ r.key = k
      BY <1>4 DEF TabRecord
  <2> HIDE DEF r
  <2> QED  BY <1>1, <1>2, <1>4, <2>1, <2>2, TabMoves
<1>9. ASSUME SaveRefused(t), UNCHANGED <<straggler, acked>> PROVE ConvTypeOK' /\ SavesKept'
  <2> DEFINE r == [tab[t] EXCEPT !.pc = "idle", !.key = NoSave]
  <2>1. tab' = [tab EXCEPT ![t] = r]
      BY <1>4, <1>9 DEF SaveRefused
  <2>2. r \in TabRecord /\ r.pc = "idle"
      BY <1>4 DEF TabRecord
  <2> HIDE DEF r
  <2> QED  BY <1>1, <1>2, <1>4, <1>9, <2>1, <2>2, TabMoves
<1>10. ASSUME Replay(t) PROVE ConvTypeOK' /\ SavesKept'
  <2>1. PICK e \in ledger[tab[t].key] :
          IF e.msgs = tab[t].msgs
          THEN tab' = [tab EXCEPT ![t].pc = "answered", ![t].reply = tab[t].version]
          ELSE SaveRefused(t)
      BY <1>10 DEF Replay
  <2>2. ledger[tab[t].key] # {} /\ tab[t].pc = "sent" /\ UNCHANGED <<straggler, acked>>
      BY <1>10, <2>1 DEF Replay
  <2>3. CASE e.msgs = tab[t].msgs
    <3> DEFINE r == [tab[t] EXCEPT !.pc = "answered", !.reply = tab[t].version]
    <3>1. tab' = [tab EXCEPT ![t] = r]
        BY <1>4, <2>1, <2>3
    <3>2. r \in TabRecord /\ r.pc = "answered" /\ r.key = tab[t].key
        BY <1>4 DEF TabRecord
    <3> HIDE DEF r
    <3> QED  BY <1>1, <1>2, <1>4, <1>5, <2>2, <3>1, <3>2, TabMoves
  <2>4. CASE e.msgs # tab[t].msgs
      BY <1>9, <2>1, <2>2, <2>4
  <2> QED  BY <2>3, <2>4
<1>11. ASSUME KeyIsNew(t) PROVE ConvTypeOK' /\ SavesKept'
  <2> DEFINE r == [tab[t] EXCEPT !.pc = "checked"]
  <2>1. tab' = [tab EXCEPT ![t] = r] /\ tab[t].pc = "sent" /\ UNCHANGED <<straggler, acked>>
      BY <1>4, <1>11 DEF KeyIsNew
  <2>2. r \in TabRecord /\ r.pc = "checked" /\ r.key = tab[t].key
      BY <1>4 DEF TabRecord
  <2> HIDE DEF r
  <2> QED  BY <1>1, <1>2, <1>4, <1>5, <2>1, <2>2, TabMoves
<1>12. ASSUME RefuseSnapshot(t) PROVE ConvTypeOK' /\ SavesKept'
    BY <1>9, <1>12 DEF RefuseSnapshot
<1>13. ASSUME ReceiveAnswer(t) PROVE ConvTypeOK' /\ SavesKept'
  <2> DEFINE r == [tab[t] EXCEPT !.pc = "idle", !.version = tab[t].reply, !.key = NoSave, !.reply = 0]
  <2>1. /\ acked' = acked \cup {tab[t].key} /\ tab' = [tab EXCEPT ![t] = r] /\ UNCHANGED straggler
        /\ tab[t].pc = "answered"
      BY <1>4, <1>13 DEF ReceiveAnswer
  <2>2. tab[t].key \in Keys /\ (tab[t].key \in gone \/ ledger[tab[t].key] # {})
      BY <1>1, <2>1 DEF SavesKept
  <2>3. r \in TabRecord /\ r.pc = "idle"
      BY <1>4 DEF TabRecord
  <2> HIDE DEF r
  <2>4. tab' \in [Tabs -> TabRecord] /\ tab'[t].pc = "idle" /\ \A u \in Tabs : u # t => tab'[u] = tab[u]
      BY <1>4, <2>1, <2>3
  <2>5. ConvTypeOK'
      BY <1>1, <1>2, <2>1, <2>2, <2>4 DEF ConvTypeOK, TabRecord
  <2>6. acked \in SUBSET Keys /\ \A k \in acked' \ acked : k \in gone \/ ledger'[k] # {}
      BY <1>1, <1>2, <2>1, <2>2 DEF ConvTypeOK
  <2>7. SavesKept'
      BY <1>1, <1>2, <2>4, <2>6, OneTabKept
  <2> QED  BY <2>5, <2>7
<1>14. ASSUME SendAgain(t) PROVE ConvTypeOK' /\ SavesKept'
  <2> DEFINE r == [tab[t] EXCEPT !.pc = "sent", !.reply = 0]
  <2>1. tab' = [tab EXCEPT ![t] = r] /\ tab[t].pc # "idle" /\ UNCHANGED acked
      BY <1>4, <1>14 DEF SendAgain
  <2>2. r \in TabRecord /\ r.pc = "sent" /\ r.key = tab[t].key
      BY <1>4 DEF TabRecord
  <2>3. straggler' \in SUBSET [key : Keys, version : Nat, msgs : SUBSET Messages]
    <3>1. tab[t].key \in Keys /\ tab[t].version \in Nat /\ tab[t].msgs \in SUBSET Messages
        BY <1>4, <1>5, <2>1 DEF TabRecord
    <3> QED  BY <1>4, <1>14, <3>1 DEF SendAgain
  <2> HIDE DEF r
  <2> QED  BY <1>1, <1>2, <1>5, <2>1, <2>2, <2>3, TabMoves
<1>15. ConvTypeOK' /\ SavesKept'
    BY <1>6, <1>7, <1>8, <1>10, <1>11, <1>12, <1>13, <1>14
<1> QED  BY <1>3, <1>15 DEF ConvInv

\* Every step of the saved conversation preserves its invariant.
LEMMA ConvNextInv == ConvInv /\ [ConvNext]_convVars => ConvInv'
<1> SUFFICES ASSUME ConvInv, [ConvNext]_convVars PROVE ConvInv'
    OBVIOUS
<1>1. ASSUME NEW t \in Tabs, ApplySnapshot(t) PROVE ConvInv'
  <2>1. tab[t].key \in Keys /\ tab[t].msgs \in SUBSET Messages /\ Apply(tab[t])
      BY <1>1 DEF ApplySnapshot, ConvInv, ConvTypeOK, SavesKept
  <2>2. /\ conv' \in [version : Nat, msgs : SUBSET Messages]
        /\ ledger' \in [Keys -> SUBSET [msgs : SUBSET Messages, version : Nat]]
        /\ LedgerKept'
        /\ \A k \in Keys : ledger[k] # {} => ledger'[k] # {}
        /\ ledger'[tab[t].key] # {}
      BY <2>1, ApplyKept
  <2>3. /\ tab' = [tab EXCEPT ![t].pc = "answered", ![t].reply = conv'.version]
        /\ UNCHANGED <<straggler, acked, gone>>
      BY <1>1 DEF ApplySnapshot, Apply
  <2> DEFINE v == conv'.version
             r == [tab[t] EXCEPT !.pc = "answered", !.reply = v]
  <2>4. v \in Nat /\ tab' = [tab EXCEPT ![t].pc = "answered", ![t].reply = v]
      BY <2>2, <2>3
  <2> HIDE DEF v
  <2>5. /\ tab \in [Tabs -> TabRecord] /\ r \in TabRecord /\ r.pc = "answered" /\ r.key = tab[t].key
        /\ tab' = [tab EXCEPT ![t] = r]
      BY <2>4 DEF ConvInv, ConvTypeOK, TabRecord
  <2> HIDE DEF r
  <2>6. /\ tab' \in [Tabs -> TabRecord] /\ tab'[t].key = tab[t].key
        /\ \A u \in Tabs : u # t => tab'[u] = tab[u]
      BY <2>5
  <2>7. ConvTypeOK'
      BY <2>2, <2>3, <2>6 DEF ConvInv, ConvTypeOK, TabRecord
  <2>8. /\ tab'[t].pc # "idle" => tab'[t].key \in Keys
        /\ tab'[t].pc = "answered" => tab'[t].key \in gone \/ ledger'[tab'[t].key] # {}
      BY <2>1, <2>2, <2>6
  <2>9. \A k \in acked' \ acked : k \in gone \/ ledger'[k] # {}
      BY <2>3
  <2>10. SavesKept /\ acked \in SUBSET Keys /\ gone' = gone
      BY <2>3 DEF ConvInv, ConvTypeOK
  <2>11. SavesKept'
      BY <2>2, <2>6, <2>8, <2>9, <2>10, OneTabKept
  <2> QED  BY <2>2, <2>7, <2>11 DEF ConvInv
<1>2. ASSUME NEW save \in straggler, StragglerEnds(save) PROVE ConvInv'
  <2>1. straggler' = straggler \ {save} /\ UNCHANGED tab
      BY <1>2 DEF StragglerEnds
  <2>2. CASE UNCHANGED <<conv, ledger, acked, gone>>
    <3>1. LedgerKept'
        BY <2>2, LedgerUntouched DEF ConvInv
    <3> QED  BY <2>1, <2>2, <3>1 DEF ConvInv, ConvTypeOK, SavesKept
  <2>3. CASE Apply(save)
    <3>1. save.key \in Keys /\ save.msgs \in SUBSET Messages
        BY DEF ConvInv, ConvTypeOK
    <3>2. /\ conv' \in [version : Nat, msgs : SUBSET Messages]
          /\ ledger' \in [Keys -> SUBSET [msgs : SUBSET Messages, version : Nat]]
          /\ LedgerKept'
          /\ \A k \in Keys : ledger[k] # {} => ledger'[k] # {}
        BY <2>3, <3>1, ApplyKept
    <3>3. UNCHANGED <<acked, gone>>
        BY <2>3 DEF Apply
    <3>4. ConvTypeOK'
        BY <2>1, <3>2, <3>3 DEF ConvInv, ConvTypeOK
    <3>5. acked \subseteq Keys
        BY DEF ConvInv, ConvTypeOK
    <3>6. SavesKept'
        BY <2>1, <3>2, <3>3, <3>5 DEF ConvInv, SavesKept
    <3> QED  BY <3>2, <3>4, <3>6 DEF ConvInv
  <2> QED  BY <1>2, <2>2, <2>3 DEF StragglerEnds
<1>3. ASSUME DeleteConversation PROVE ConvInv'
  <2>1. /\ conv' = NoConversation /\ ledger' = [k \in Keys |-> {}]
        /\ gone' = gone \cup {k \in Keys : ledger[k] # {}}
        /\ UNCHANGED <<tab, straggler, acked>>
      BY <1>3 DEF DeleteConversation
  <2>2. KeysApplied' = {}
      BY <2>1 DEF KeysApplied
  <2>3. LedgerKept'
      BY <2>1, <2>2, FS_EmptySet DEF LedgerKept, NoConversation
  <2>4. ConvTypeOK'
      BY <2>1 DEF ConvInv, ConvTypeOK, NoConversation
  <2>5. acked \subseteq Keys
      BY DEF ConvInv, ConvTypeOK
  <2>6. SavesKept'
      BY <2>1, <2>5 DEF ConvInv, SavesKept
  <2> QED  BY <2>3, <2>4, <2>6 DEF ConvInv
<1>4. ASSUME UNCHANGED convVars PROVE ConvInv'
  <2>1. UNCHANGED <<conv, ledger, tab, straggler, acked, gone>>
      BY <1>4 DEF convVars
  <2>2. LedgerKept'
      BY <2>1, LedgerUntouched DEF ConvInv
  <2> QED  BY <2>1, <2>2 DEF ConvInv, ConvTypeOK, SavesKept
<1> QED  BY <1>1, <1>2, <1>3, <1>4, TabStepInv DEF ConvNext

\* The invariant is what a reader is promised.
LEMMA ConvInvSuffices == ConvInv => SavesExactlyOnce
<1> SUFFICES ASSUME ConvInv PROVE SavesExactlyOnce
    OBVIOUS
<1>1. \A k \in Keys : Cardinality(ledger[k]) <= 1
  <2> SUFFICES ASSUME NEW k \in Keys PROVE Cardinality(ledger[k]) <= 1
      OBVIOUS
  <2>1. CASE ledger[k] = {}
      BY <2>1, FS_EmptySet
  <2>2. ASSUME NEW e, ledger[k] = {e} PROVE Cardinality(ledger[k]) <= 1
    <3>1. Cardinality({e}) = 1
        BY FS_Singleton
    <3> QED  BY <2>2, <3>1
  <2> QED  BY <2>1, <2>2 DEF ConvInv, LedgerKept
<1>2. AppliedOnce
    BY <1>1 DEF ConvInv, LedgerKept, AppliedOnce, KeysApplied
<1>3. AckedIsStored
    BY DEF ConvInv, ConvTypeOK, LedgerKept, SavesKept, AckedIsStored
<1> QED  BY <1>2, <1>3 DEF ConvInv, SavesExactlyOnce

\* Saves of a conversation take effect exactly once and none that was confirmed
\* is lost (handlers/ai_conversations.go, metadata/ai_conversations.go), for any
\* tabs, keys and messages and any number of first sends that arrive late.
THEOREM SavesCorrect == ConvSpec => []SavesExactlyOnce
<1>1. ConvInit => ConvInv
    BY ConvInitInv
<1>2. ConvInv /\ [ConvNext]_convVars => ConvInv'
    BY ConvNextInv
<1>3. ConvInv => SavesExactlyOnce
    BY ConvInvSuffices
<1> QED  BY <1>1, <1>2, <1>3, PTL DEF ConvSpec

-----------------------------------------------------------------------------
(* Providers: whoever holds a configuration under the present version holds a
   current one, unless a provider was tagged with a newer version than its own *)

\* The requests under way, and the configurations that count as current.
BusyAdmins == {a \in ProviderAdmins : refresh[a].pc # "idle"}
CurrentConfigs == {resolved} \cup {refresh[a].old : a \in {b \in ProviderAdmins : refresh[b].pc = "bump"}}

RefreshRecord == [pc : {"idle", "read", "store", "bump"}, next : Defaults, old : Defaults, late : BOOLEAN]
CallRecord == [pc : {"idle", "config", "match", "build", "served"}, cfg : Defaults, version : Nat,
               during : SUBSET Defaults, got : Defaults]

\* The shapes of the state; a request that is not under way has nothing.
ProvShape ==
    /\ byUser \in BOOLEAN /\ excuse \in BOOLEAN /\ mistagged \in BOOLEAN
    /\ inDB \in Defaults /\ resolved \in Defaults
    /\ cacheVersion \in Nat \ {0} /\ changes \in 0..MaxChanges
    /\ refresh \in [ProviderAdmins -> RefreshRecord]
    /\ \A a \in ProviderAdmins : refresh[a].pc = "idle" => refresh[a] = NotRefreshing
    /\ llmCall \in [ProviderCalls -> CallRecord]
    /\ \A c \in ProviderCalls :
         llmCall[c].version <= cacheVersion /\ (llmCall[c].pc # "idle" => llmCall[c].version # 0)
    /\ \A b \in built : b.cfg \in Configs /\ b.version \in 1..cacheVersion
    /\ \A b, d \in built : b = d

\* Every version stands for a change whose request has ended.
VersionsCounted ==
    /\ IsFiniteSet(BusyAdmins)
    /\ cacheVersion + Cardinality(BusyAdmins) <= changes + 1

\* While the map differs from the table, somebody will read the table, or store
\* what it says, or is late and will say so; and whoever is not late and holds
\* something else has such a one behind it.
WillBeCurrent ==
    \/ \E a \in ProviderAdmins : refresh[a].pc = "read"
    \/ \E a \in ProviderAdmins : refresh[a].pc = "store" /\ refresh[a].next = inDB

RefreshesKept ==
    /\ \/ resolved = inDB \/ excuse \/ WillBeCurrent
       \/ \E a \in ProviderAdmins : refresh[a].pc = "store" /\ refresh[a].late
    /\ \A a \in ProviderAdmins :
         (refresh[a].pc = "store" /\ ~refresh[a].late) => refresh[a].next = inDB \/ WillBeCurrent

\* The calls that hold a configuration under a version.
Tagging == {c \in ProviderCalls : llmCall[c].pc \in {"match", "build"}}

\* A call has noted all that was current since it began.
Noted ==
    \A c \in ProviderCalls : llmCall[c].pc # "idle" =>
        CurrentConfigs \subseteq llmCall[c].during /\ llmCall[c].cfg \in llmCall[c].during

\* A configuration that was read under the version of now is current now.
ConfigHeld ==
    \A c \in ProviderCalls :
        (llmCall[c].pc = "config" /\ llmCall[c].version = cacheVersion) => llmCall[c].cfg \in CurrentConfigs

\* So is one that is held or built under the version of now, and what a call may
\* match was current during the call.
TagsHeld ==
    /\ \A c \in Tagging : llmCall[c].version = cacheVersion => llmCall[c].cfg \in CurrentConfigs
    /\ \A b \in built : b.version = cacheVersion => {b.cfg} \in CurrentConfigs
    /\ \A c, d \in Tagging : llmCall[d].version = llmCall[c].version => llmCall[d].cfg \in llmCall[c].during
    /\ \A c \in Tagging, b \in built : b.version = llmCall[c].version => {b.cfg} \in llmCall[c].during
    /\ \A c \in ProviderCalls : (llmCall[c].pc = "served" /\ llmCall[c].got # {})
         => llmCall[c].got \in llmCall[c].during

CallsKept == Noted /\ ConfigHeld /\ (mistagged \/ TagsHeld)

ProvInv == ProvShape /\ VersionsCounted /\ RefreshesKept /\ CallsKept

\* The records of a request and of a call that are not under way.
LEMMA IdleRecords == NotRefreshing \in RefreshRecord /\ NotCalling \in CallRecord
BY DEF NotRefreshing, NotCalling, RefreshRecord, CallRecord, Defaults

\* Initially the map is the table's.
LEMMA ProvInitInv == ProvInit => ProvInv
<1> SUFFICES ASSUME ProvInit PROVE ProvInv
    OBVIOUS
<1>1. ProvShape
  <2>1. inDB \in Defaults /\ resolved \in Defaults
      BY DEF ProvInit, Defaults
  <2>2. refresh \in [ProviderAdmins -> RefreshRecord] /\ llmCall \in [ProviderCalls -> CallRecord]
      BY IdleRecords DEF ProvInit
  <2>3. \A c \in ProviderCalls : llmCall[c].version = 0 /\ llmCall[c].pc = "idle"
      BY DEF ProvInit, NotCalling
  <2>4. byUser \in BOOLEAN /\ excuse \in BOOLEAN /\ mistagged \in BOOLEAN
      BY DEF ProvInit
  <2> QED  BY <2>1, <2>2, <2>3, <2>4, ProviderAssumption DEF ProvInit, ProvShape
<1>2. BusyAdmins = {}
    BY DEF ProvInit, BusyAdmins, NotRefreshing
<1>3. VersionsCounted
    BY <1>2, FS_EmptySet DEF VersionsCounted, ProvInit
<1>4. RefreshesKept
    BY DEF ProvInit, RefreshesKept, NotRefreshing
<1>5. CallsKept
    BY DEF ProvInit, CallsKept, Noted, ConfigHeld, TagsHeld, Tagging, NotCalling
<1> QED  BY <1>1, <1>3, <1>4, <1>5 DEF ProvInv

\* A step of a call leaves the administrators' side alone.
LEMMA AdminsUntouched ==
    ASSUME VersionsCounted, RefreshesKept,
           UNCHANGED <<inDB, resolved, cacheVersion, refresh, changes, excuse>>
    PROVE  VersionsCounted' /\ RefreshesKept'
<1>1. BusyAdmins' = BusyAdmins /\ (WillBeCurrent' <=> WillBeCurrent)
    BY DEF BusyAdmins, WillBeCurrent
<1> QED  BY <1>1 DEF VersionsCounted, RefreshesKept

\* A step of a call keeps the shapes when the call's new record is a call's and
\* a provider that it builds has its configuration and version.
LEMMA CallShape ==
    ASSUME ProvShape, NEW c \in ProviderCalls, NEW r \in CallRecord, r.version <= cacheVersion,
           r.pc # "idle" => r.version # 0,
           llmCall' = [llmCall EXCEPT ![c] = r], mistagged' \in BOOLEAN,
           \A b \in built' : b.cfg \in Configs /\ b.version \in 1..cacheVersion,
           \A b, d \in built' : b = d,
           UNCHANGED <<byUser, inDB, resolved, cacheVersion, refresh, changes, excuse>>
    PROVE  ProvShape'
<1>1. /\ llmCall' \in [ProviderCalls -> CallRecord]
      /\ \A d \in ProviderCalls :
           llmCall'[d].version <= cacheVersion /\ (llmCall'[d].pc # "idle" => llmCall'[d].version # 0)
    BY DEF ProvShape
<1>2. byUser' \in BOOLEAN /\ excuse' \in BOOLEAN
    BY DEF ProvShape
<1> QED  BY <1>1, <1>2 DEF ProvShape

\* A call that goes on with what it holds, and a provider that is built from
\* what a call holds.
LEMMA CallGoesOn ==
    ASSUME CallsKept, UNCHANGED <<resolved, cacheVersion, refresh, mistagged>>,
           \A d \in ProviderCalls : llmCall'[d].pc # "idle" =>
               /\ llmCall[d].pc # "idle"
               /\ llmCall'[d].cfg = llmCall[d].cfg
               /\ llmCall'[d].version = llmCall[d].version
               /\ llmCall'[d].during = llmCall[d].during,
           \A d \in ProviderCalls : llmCall'[d].pc = "config" => llmCall[d].pc = "config",
           Tagging' \subseteq Tagging,
           \A b \in built' : b \in built \/ \E d \in Tagging :
               {b.cfg} = llmCall[d].cfg /\ b.version = llmCall[d].version,
           TagsHeld => \A d \in ProviderCalls : (llmCall'[d].pc = "served" /\ llmCall'[d].got # {})
               => llmCall'[d].got \in llmCall[d].during
    PROVE  CallsKept'
<1>1. CurrentConfigs' = CurrentConfigs
    BY DEF CurrentConfigs
<1>2. Noted'
    BY <1>1 DEF CallsKept, Noted
<1>3. ConfigHeld'
  <2> SUFFICES ASSUME NEW d \in ProviderCalls, llmCall'[d].pc = "config", llmCall'[d].version = cacheVersion'
               PROVE  llmCall'[d].cfg \in CurrentConfigs'
      BY DEF ConfigHeld
  <2>1. llmCall'[d].cfg = llmCall[d].cfg /\ llmCall[d].version = cacheVersion /\ llmCall[d].pc = "config"
      OBVIOUS
  <2> QED  BY <1>1, <2>1 DEF CallsKept, ConfigHeld
<1>4. ASSUME TagsHeld PROVE TagsHeld'
  <2>1. \A d \in Tagging' : /\ d \in Tagging /\ d \in ProviderCalls
                            /\ llmCall'[d].cfg = llmCall[d].cfg
                            /\ llmCall'[d].version = llmCall[d].version
                            /\ llmCall'[d].during = llmCall[d].during
      BY DEF Tagging
  <2>2. \A d \in Tagging' : llmCall'[d].version = cacheVersion' => llmCall'[d].cfg \in CurrentConfigs'
      BY <1>1, <1>4, <2>1 DEF TagsHeld
  <2>3. \A b \in built' : b.version = cacheVersion' => {b.cfg} \in CurrentConfigs'
      BY <1>1, <1>4 DEF TagsHeld
  <2>4. \A d, e \in Tagging' : llmCall'[e].version = llmCall'[d].version => llmCall'[e].cfg \in llmCall'[d].during
      BY <1>4, <2>1 DEF TagsHeld
  <2>5. \A d \in Tagging', b \in built' : b.version = llmCall'[d].version => {b.cfg} \in llmCall'[d].during
    <3> SUFFICES ASSUME NEW d \in Tagging', NEW b \in built', b.version = llmCall'[d].version
                 PROVE  {b.cfg} \in llmCall'[d].during
        OBVIOUS
    <3>1. d \in Tagging /\ b.version = llmCall[d].version /\ llmCall'[d].during = llmCall[d].during
        BY <2>1
    <3>2. CASE b \in built
        BY <1>4, <3>1, <3>2 DEF TagsHeld
    <3>3. ASSUME NEW e \in Tagging, {b.cfg} = llmCall[e].cfg, b.version = llmCall[e].version
          PROVE  {b.cfg} \in llmCall'[d].during
      <4>1. \A x, y \in Tagging : llmCall[y].version = llmCall[x].version => llmCall[y].cfg \in llmCall[x].during
          BY <1>4 DEF TagsHeld
      <4>2. llmCall[e].cfg \in llmCall[d].during
          BY <3>1, <3>3, <4>1
      <4> QED  BY <3>1, <3>3, <4>2
    <3> QED  BY <3>2, <3>3
  <2>6. \A d \in ProviderCalls : (llmCall'[d].pc = "served" /\ llmCall'[d].got # {})
            => llmCall'[d].got \in llmCall'[d].during
      BY <1>4
  <2> QED  BY <2>2, <2>3, <2>4, <2>5, <2>6 DEF TagsHeld
<1> QED  BY <1>2, <1>3, <1>4 DEF CallsKept

\* ReadConfig: the call notes what is current.
LEMMA ReadConfigInv ==
    ASSUME ProvInv, NEW c \in ProviderCalls, ReadConfig(c)
    PROVE  ProvInv'
<1> DEFINE r == [pc |-> IF resolved = {} THEN "served" ELSE "config",
                 cfg |-> resolved, version |-> cacheVersion, got |-> {}, during |-> CurrentConfigs]
<1>1. /\ llmCall' = [llmCall EXCEPT ![c] = r]
      /\ UNCHANGED <<byUser, inDB, resolved, cacheVersion, refresh, built, changes, excuse, mistagged>>
    BY DEF ReadConfig, CurrentConfigs
<1>2. CurrentConfigs \in SUBSET Defaults
    BY DEF ProvInv, ProvShape, CurrentConfigs, RefreshRecord
<1>3. resolved \in Defaults /\ cacheVersion \in Nat \ {0} /\ {} \in Defaults
    BY DEF ProvInv, ProvShape, Defaults
<1>4. /\ r \in CallRecord /\ r.version = cacheVersion /\ r.cfg = resolved /\ r.during = CurrentConfigs
      /\ r.pc \in {"served", "config"} /\ r.got = {}
    BY <1>2, <1>3 DEF CallRecord
<1> HIDE DEF r
<1>5. ProvShape'
  <2>1. mistagged' \in BOOLEAN
      BY <1>1 DEF ProvInv, ProvShape
  <2>2. /\ \A b \in built' : b.cfg \in Configs /\ b.version \in 1..cacheVersion
        /\ \A b, d \in built' : b = d
      BY <1>1 DEF ProvInv, ProvShape
  <2>3. r.version <= cacheVersion /\ (r.pc # "idle" => r.version # 0) /\ ProvShape
      BY <1>3, <1>4 DEF ProvInv
  <2> QED  BY <1>1, <1>4, <2>1, <2>2, <2>3, CallShape
<1>6. VersionsCounted' /\ RefreshesKept'
    BY <1>1, AdminsUntouched DEF ProvInv
<1>7. llmCall'[c] = r /\ \A d \in ProviderCalls : d # c => llmCall'[d] = llmCall[d]
    BY <1>1 DEF ProvInv, ProvShape
<1>8. CurrentConfigs' = CurrentConfigs /\ resolved \in CurrentConfigs
    BY <1>1 DEF CurrentConfigs
<1>9. c \notin Tagging' /\ \A d \in Tagging' : d # c /\ d \in Tagging /\ llmCall'[d] = llmCall[d]
    BY <1>4, <1>7 DEF Tagging
<1>10. Noted'
    BY <1>4, <1>7, <1>8 DEF ProvInv, CallsKept, Noted
<1>11. ConfigHeld'
    BY <1>1, <1>4, <1>7, <1>8 DEF ProvInv, CallsKept, ConfigHeld
<1>12. ASSUME TagsHeld PROVE TagsHeld'
    BY <1>1, <1>4, <1>7, <1>8, <1>9, <1>12 DEF TagsHeld
<1> QED  BY <1>1, <1>5, <1>6, <1>10, <1>11, <1>12 DEF ProvInv, CallsKept

\* ReadVersion: the call holds its configuration under the version of now.
LEMMA ReadVersionInv ==
    ASSUME ProvInv, NEW c \in ProviderCalls, ReadVersion(c)
    PROVE  ProvInv'
<1> DEFINE r == [llmCall[c] EXCEPT !.pc = "match", !.version = cacheVersion]
<1>1. /\ llmCall' = [llmCall EXCEPT ![c] = r] /\ llmCall[c].pc = "config"
      /\ mistagged' = (mistagged \/ (llmCall[c].version # cacheVersion /\ llmCall[c].cfg # resolved))
      /\ UNCHANGED <<byUser, inDB, resolved, cacheVersion, refresh, built, changes, excuse>>
    BY DEF ReadVersion, ProvInv, ProvShape, CallRecord
<1>2. cacheVersion \in Nat \ {0} /\ llmCall[c] \in CallRecord
    BY DEF ProvInv, ProvShape
<1>3. /\ r \in CallRecord /\ r.version = cacheVersion /\ r.cfg = llmCall[c].cfg
      /\ r.during = llmCall[c].during /\ r.pc = "match"
    BY <1>2 DEF CallRecord
<1> HIDE DEF r
<1>4. ProvShape'
  <2>1. mistagged' \in BOOLEAN
      BY <1>1 DEF ProvInv, ProvShape
  <2>2. /\ \A b \in built' : b.cfg \in Configs /\ b.version \in 1..cacheVersion
        /\ \A b, d \in built' : b = d
      BY <1>1 DEF ProvInv, ProvShape
  <2>3. r.version <= cacheVersion /\ (r.pc # "idle" => r.version # 0) /\ ProvShape
      BY <1>2, <1>3 DEF ProvInv
  <2> QED  BY <1>1, <1>3, <2>1, <2>2, <2>3, CallShape
<1>5. VersionsCounted' /\ RefreshesKept'
    BY <1>1, AdminsUntouched DEF ProvInv
<1>6. llmCall'[c] = r /\ \A d \in ProviderCalls : d # c => llmCall'[d] = llmCall[d]
    BY <1>1 DEF ProvInv, ProvShape
<1>7. CurrentConfigs' = CurrentConfigs /\ resolved \in CurrentConfigs
    BY <1>1 DEF CurrentConfigs
<1>8. \A d \in Tagging' : d # c => d \in Tagging /\ d \in ProviderCalls /\ llmCall'[d] = llmCall[d]
    BY <1>6 DEF Tagging
<1>9. Noted'
    BY <1>1, <1>3, <1>6, <1>7 DEF ProvInv, CallsKept, Noted
<1>10. ConfigHeld'
    BY <1>1, <1>3, <1>6, <1>7 DEF ProvInv, CallsKept, ConfigHeld
<1>11. CASE mistagged
    BY <1>1, <1>4, <1>5, <1>9, <1>10, <1>11 DEF ProvInv, CallsKept
<1>12. CASE llmCall[c].version # cacheVersion /\ llmCall[c].cfg # resolved
    BY <1>1, <1>4, <1>5, <1>9, <1>10, <1>12 DEF ProvInv, CallsKept
<1>13. ASSUME TagsHeld, llmCall[c].version = cacheVersion \/ llmCall[c].cfg = resolved PROVE ProvInv'
  <2>1. r.cfg \in CurrentConfigs
      BY <1>1, <1>3, <1>7, <1>13 DEF ProvInv, CallsKept, ConfigHeld
  <2>2. \A d \in ProviderCalls : llmCall'[d].pc # "idle" => CurrentConfigs \subseteq llmCall'[d].during
      BY <1>7, <1>9 DEF Noted
  <2>3. \A d \in Tagging' : d \in ProviderCalls /\ llmCall'[d].pc # "idle"
      BY DEF Tagging
  <2>4. \A d \in Tagging' : llmCall'[d].version = cacheVersion' => llmCall'[d].cfg \in CurrentConfigs'
      BY <1>1, <1>6, <1>7, <1>8, <1>13, <2>1 DEF TagsHeld
  <2>5. \A b \in built' : b.version = cacheVersion' => {b.cfg} \in CurrentConfigs'
      BY <1>1, <1>7, <1>13 DEF TagsHeld
  <2>6. \A d, e \in Tagging' : llmCall'[e].version = llmCall'[d].version => llmCall'[e].cfg \in llmCall'[d].during
    <3> SUFFICES ASSUME NEW d \in Tagging', NEW e \in Tagging', llmCall'[e].version = llmCall'[d].version
                 PROVE  llmCall'[e].cfg \in llmCall'[d].during
        OBVIOUS
    <3>1. CASE d # c /\ e # c
        BY <1>8, <1>13, <3>1 DEF TagsHeld
    <3>2. CASE d = c \/ e = c
      <4>1. llmCall'[e].version = cacheVersion'
          BY <1>1, <1>3, <1>6, <3>2
      <4>2. llmCall'[e].cfg \in CurrentConfigs
          BY <1>7, <2>4, <4>1
      <4> QED  BY <2>2, <2>3, <4>2
    <3> QED  BY <3>1, <3>2
  <2>7. \A d \in Tagging', b \in built' : b.version = llmCall'[d].version => {b.cfg} \in llmCall'[d].during
    <3> SUFFICES ASSUME NEW d \in Tagging', NEW b \in built', b.version = llmCall'[d].version
                 PROVE  {b.cfg} \in llmCall'[d].during
        OBVIOUS
    <3>1. CASE d # c
        BY <1>1, <1>8, <1>13, <3>1 DEF TagsHeld
    <3>2. CASE d = c
      <4>1. {b.cfg} \in CurrentConfigs
          BY <1>1, <1>3, <1>6, <1>7, <2>5, <3>2
      <4> QED  BY <2>2, <2>3, <4>1
    <3> QED  BY <3>1, <3>2
  <2>8. \A d \in ProviderCalls : (llmCall'[d].pc = "served" /\ llmCall'[d].got # {})
            => llmCall'[d].got \in llmCall'[d].during
      BY <1>3, <1>6, <1>13 DEF TagsHeld
  <2>9. TagsHeld'
      BY <2>4, <2>5, <2>6, <2>7, <2>8 DEF TagsHeld
  <2> QED  BY <1>4, <1>5, <1>9, <1>10, <2>9 DEF ProvInv, CallsKept
<1> QED  BY <1>11, <1>12, <1>13 DEF ProvInv, CallsKept

\* A call is served, with the provider built last or the one it builds, or goes
\* on to build: what it holds stays.
LEMMA CallAdvances ==
    ASSUME ProvInv, NEW c \in ProviderCalls, NEW newPc \in {"build", "served"}, NEW newGot \in Defaults,
           c \in Tagging,
           llmCall' = [llmCall EXCEPT ![c].pc = newPc, ![c].got = newGot],
           (newPc = "served" /\ newGot # {} /\ TagsHeld) => newGot \in llmCall[c].during,
           \A b \in built' : b \in built \/ ({b.cfg} = llmCall[c].cfg /\ b.version = llmCall[c].version /\ b.cfg \in Configs),
           \A b, d \in built' : b = d,
           UNCHANGED <<byUser, inDB, resolved, cacheVersion, refresh, changes, excuse, mistagged>>
    PROVE  ProvInv'
<1> DEFINE r == [llmCall[c] EXCEPT !.pc = newPc, !.got = newGot]
<1>a. llmCall \in [ProviderCalls -> CallRecord]
    BY DEF ProvInv, ProvShape
<1>b. llmCall[c].version \in 1..cacheVersion
    BY <1>a DEF ProvInv, ProvShape, CallRecord, Tagging
<1>1. /\ llmCall[c] \in CallRecord /\ llmCall' = [llmCall EXCEPT ![c] = r]
      /\ llmCall[c].version \in 1..cacheVersion
    BY <1>a, <1>b DEF CallRecord
<1>2. /\ r \in CallRecord /\ r.version = llmCall[c].version /\ r.cfg = llmCall[c].cfg
      /\ r.during = llmCall[c].during /\ r.pc = newPc /\ r.got = newGot
    BY <1>1 DEF CallRecord
<1> HIDE DEF r
<1>3. ProvShape'
  <2>1. mistagged' \in BOOLEAN
      BY DEF ProvInv, ProvShape
  <2>2. \A b \in built' : b.cfg \in Configs /\ b.version \in 1..cacheVersion
      BY <1>1 DEF ProvInv, ProvShape
  <2>3. r.version <= cacheVersion /\ (r.pc # "idle" => r.version # 0) /\ ProvShape
      BY <1>1, <1>2 DEF ProvInv
  <2> QED  BY <1>1, <1>2, <2>1, <2>2, <2>3, CallShape
<1>4. VersionsCounted' /\ RefreshesKept'
    BY AdminsUntouched DEF ProvInv
<1>5. llmCall'[c] = r /\ \A d \in ProviderCalls : d # c => llmCall'[d] = llmCall[d]
    BY <1>1 DEF ProvInv, ProvShape
<1>6. llmCall[c].pc \in {"match", "build"}
    BY DEF Tagging
<1>7. \A d \in ProviderCalls : llmCall'[d].pc # "idle" =>
          /\ llmCall[d].pc # "idle"
          /\ llmCall'[d].cfg = llmCall[d].cfg
          /\ llmCall'[d].version = llmCall[d].version
          /\ llmCall'[d].during = llmCall[d].during
    BY <1>2, <1>5, <1>6
<1>8. \A d \in ProviderCalls : llmCall'[d].pc = "config" => llmCall[d].pc = "config"
    BY <1>2, <1>5
<1>9. Tagging' \subseteq Tagging
    BY <1>5 DEF Tagging
<1>10. \A b \in built' : b \in built \/ \E d \in Tagging :
           {b.cfg} = llmCall[d].cfg /\ b.version = llmCall[d].version
    OBVIOUS
<1>11. TagsHeld => \A d \in ProviderCalls : (llmCall'[d].pc = "served" /\ llmCall'[d].got # {})
           => llmCall'[d].got \in llmCall[d].during
    BY <1>2, <1>5 DEF TagsHeld
<1>12. CallsKept /\ UNCHANGED <<resolved, cacheVersion, refresh, mistagged>>
    BY DEF ProvInv
<1>13. CallsKept'
    BY <1>7, <1>8, <1>9, <1>10, <1>11, <1>12, CallGoesOn
<1> QED  BY <1>3, <1>4, <1>13 DEF ProvInv

\* LookBuilt, BuildFails, KeepBuilt and CallEnds.
LEMMA CallEndsInv ==
    ASSUME ProvInv, NEW c \in ProviderCalls, CallEnds(c)
    PROVE  ProvInv'
<1>1. /\ llmCall' = [llmCall EXCEPT ![c] = NotCalling]
      /\ UNCHANGED <<byUser, inDB, resolved, cacheVersion, refresh, built, changes, excuse, mistagged>>
    BY DEF CallEnds
<1>2. NotCalling.pc = "idle" /\ NotCalling.version = 0
    BY DEF NotCalling
<1>3. ProvShape'
  <2>1. mistagged' \in BOOLEAN
      BY <1>1 DEF ProvInv, ProvShape
  <2>2. /\ \A b \in built' : b.cfg \in Configs /\ b.version \in 1..cacheVersion
        /\ \A b, d \in built' : b = d
      BY <1>1 DEF ProvInv, ProvShape
  <2>3. NotCalling.version <= cacheVersion /\ (NotCalling.pc # "idle" => NotCalling.version # 0) /\ ProvShape
      BY <1>2 DEF ProvInv, ProvShape
  <2> QED  BY <1>1, <2>1, <2>2, <2>3, CallShape, IdleRecords
<1>4. VersionsCounted' /\ RefreshesKept'
    BY <1>1, AdminsUntouched DEF ProvInv
<1>5. llmCall'[c].pc = "idle" /\ \A d \in ProviderCalls : d # c => llmCall'[d] = llmCall[d]
    BY <1>1, <1>2 DEF ProvInv, ProvShape
<1>6. /\ \A d \in ProviderCalls : llmCall'[d].pc # "idle" =>
           /\ llmCall[d].pc # "idle"
           /\ llmCall'[d].cfg = llmCall[d].cfg
           /\ llmCall'[d].version = llmCall[d].version
           /\ llmCall'[d].during = llmCall[d].during
      /\ \A d \in ProviderCalls : llmCall'[d].pc = "config" => llmCall[d].pc = "config"
      /\ Tagging' \subseteq Tagging
    BY <1>5 DEF Tagging
<1>7. \A b \in built' : b \in built \/ \E d \in Tagging :
          {b.cfg} = llmCall[d].cfg /\ b.version = llmCall[d].version
    BY <1>1
<1>8. TagsHeld => \A d \in ProviderCalls : (llmCall'[d].pc = "served" /\ llmCall'[d].got # {})
          => llmCall'[d].got \in llmCall[d].during
    BY <1>5 DEF TagsHeld
<1>9. CallsKept /\ UNCHANGED <<resolved, cacheVersion, refresh, mistagged>>
    BY <1>1 DEF ProvInv
<1>10. CallsKept'
    BY <1>6, <1>7, <1>8, <1>9, CallGoesOn
<1> QED  BY <1>3, <1>4, <1>10 DEF ProvInv

\* A call that matches is served with the provider built last.
LEMMA MatchServes ==
    ASSUME ProvInv, NEW c \in ProviderCalls, c \in Tagging, Matches(c), NEW b \in built
    PROVE  {b.cfg} \in Defaults /\ (TagsHeld => {b.cfg} \in llmCall[c].during)
<1>1. b.cfg \in Configs /\ b.version = llmCall[c].version
    BY DEF Matches, ProvInv, ProvShape
<1> QED  BY <1>1 DEF Defaults, TagsHeld

\* One provider at most is kept.
LEMMA BuiltStays ==
    ASSUME ProvInv
    PROVE  \A b, d \in built : b = d
BY DEF ProvInv, ProvShape

\* The looks at the provider built last, and building one.
LEMMA BuildStepInv ==
    ASSUME ProvInv, NEW c \in ProviderCalls, LookBuilt(c) \/ BuildFails(c) \/ KeepBuilt(c)
    PROVE  ProvInv'
<1>1. c \in Tagging /\ UNCHANGED <<byUser, inDB, resolved, cacheVersion, refresh, changes, excuse, mistagged>>
    BY DEF LookBuilt, BuildFails, KeepBuilt, Tagging
<1>2. llmCall[c] \in CallRecord /\ {} \in Defaults
    BY DEF ProvInv, ProvShape, Defaults
<1>3. ASSUME Matches(c), NEW b \in built, Serve(c, {b.cfg}), UNCHANGED built PROVE ProvInv'
  <2>1. {b.cfg} \in Defaults /\ (TagsHeld => {b.cfg} \in llmCall[c].during)
      BY <1>1, <1>3, MatchServes
  <2>2. llmCall' = [llmCall EXCEPT ![c].pc = "served", ![c].got = {b.cfg}]
      BY <1>3 DEF Serve
  <2>3. \A x, d \in built' : x = d
      BY <1>3, BuiltStays
  <2> QED  BY <1>1, <1>3, <2>1, <2>2, <2>3, CallAdvances
<1>4. ASSUME llmCall' = [llmCall EXCEPT ![c].pc = "build"], UNCHANGED built PROVE ProvInv'
  <2> DEFINE g == llmCall[c].got
  <2>1. g \in Defaults /\ llmCall' = [llmCall EXCEPT ![c].pc = "build", ![c].got = g]
    <3> DEFINE p == [llmCall[c] EXCEPT !.pc = "build"]
               q == [llmCall[c] EXCEPT !.pc = "build", !.got = g]
    <3>1. g \in Defaults /\ p = q
        BY <1>2 DEF CallRecord
    <3>2. llmCall' = [llmCall EXCEPT ![c] = p]
        BY <1>4
    <3>3. [llmCall EXCEPT ![c] = q] = [llmCall EXCEPT ![c].pc = "build", ![c].got = g]
        OBVIOUS
    <3> HIDE DEF p, q
    <3> QED  BY <3>1, <3>2, <3>3
  <2> HIDE DEF g
  <2>2. \A x, d \in built' : x = d
      BY <1>4, BuiltStays
  <2> QED  BY <1>1, <1>4, <2>1, <2>2, CallAdvances
<1>5. ASSUME BuildFails(c) PROVE ProvInv'
  <2>1. built' = {} /\ llmCall' = [llmCall EXCEPT ![c].pc = "served", ![c].got = {}]
      BY <1>5 DEF BuildFails, Serve
  <2> QED  BY <1>1, <1>2, <2>1, CallAdvances
<1>6. ASSUME built' = {[cfg |-> cfg, version |-> llmCall[c].version, userKey |-> UserKey(cfg)]
                          : cfg \in llmCall[c].cfg},
             Serve(c, llmCall[c].cfg)
      PROVE  ProvInv'
  <2> DEFINE held == llmCall[c].cfg
  <2>1. held \in Defaults /\ llmCall' = [llmCall EXCEPT ![c].pc = "served", ![c].got = held]
      BY <1>2, <1>6 DEF CallRecord, Serve
  <2>2. held \in llmCall[c].during
      BY <1>1 DEF ProvInv, CallsKept, Noted, Tagging
  <2>3. \A b \in built' : b.cfg \in held /\ b.version = llmCall[c].version
      BY <1>6
  <2>4. \A b \in built' : \E x \in held : b = [cfg |-> x, version |-> llmCall[c].version, userKey |-> UserKey(x)]
      BY <1>6
  <2>5. held = {} \/ \E x \in Configs : held = {x}
      BY <2>1 DEF Defaults
  <2> HIDE DEF held
  <2>6. \A b \in built' : {b.cfg} = held /\ b.cfg \in Configs /\ b.version = llmCall[c].version
      BY <2>3, <2>5
  <2>7. \A b, d \in built' : b = d
      BY <2>4, <2>5
  <2>8. \A b \in built' : b \in built \/ ({b.cfg} = llmCall[c].cfg /\ b.version = llmCall[c].version /\ b.cfg \in Configs)
      BY <2>6 DEF held
  <2> QED  BY <1>1, <2>1, <2>2, <2>7, <2>8, CallAdvances
<1>7. ASSUME LookBuilt(c) PROVE ProvInv'
    BY <1>3, <1>4, <1>7 DEF LookBuilt
<1>8. ASSUME KeepBuilt(c) PROVE ProvInv'
    BY <1>3, <1>6, <1>8 DEF KeepBuilt
<1> QED  BY <1>5, <1>7, <1>8

\* The calls and the provider built last when only the refreshes move on and
\* what is current does not grow.
LEMMA CallsUntouched ==
    ASSUME CallsKept, UNCHANGED <<llmCall, built, mistagged, cacheVersion>>,
           CurrentConfigs' = CurrentConfigs
    PROVE  CallsKept'
<1>1. Tagging' = Tagging
    BY DEF Tagging
<1> QED  BY <1>1 DEF CallsKept, Noted, ConfigHeld, TagsHeld

\* The number of requests under way, when one begins or ends.
LEMMA BusyBegins ==
    ASSUME VersionsCounted, NEW a \in ProviderAdmins, a \notin BusyAdmins, BusyAdmins' = BusyAdmins \cup {a},
           cacheVersion \in Nat, changes \in Nat, cacheVersion' = cacheVersion, changes' = changes + 1
    PROVE  VersionsCounted'
<1>1. IsFiniteSet(BusyAdmins') /\ Cardinality(BusyAdmins') = Cardinality(BusyAdmins) + 1 /\ Cardinality(BusyAdmins) \in Nat
    BY FS_AddElement, FS_CardinalityType DEF VersionsCounted
<1> QED  BY <1>1 DEF VersionsCounted

\* A request ends: the version grew at most by one for it.
LEMMA BusyEnds ==
    ASSUME VersionsCounted, NEW a \in ProviderAdmins, a \in BusyAdmins, BusyAdmins' = BusyAdmins \ {a},
           cacheVersion \in Nat, changes \in Nat, changes' = changes,
           cacheVersion' \in {cacheVersion, cacheVersion + 1}
    PROVE  VersionsCounted'
<1>1. IsFiniteSet(BusyAdmins') /\ Cardinality(BusyAdmins') = Cardinality(BusyAdmins) - 1 /\ Cardinality(BusyAdmins) \in Nat
    BY FS_RemoveElement, FS_CardinalityType DEF VersionsCounted
<1> QED  BY <1>1 DEF VersionsCounted

\* No request begins or ends.
LEMMA BusySame ==
    ASSUME VersionsCounted, BusyAdmins' = BusyAdmins, cacheVersion' = cacheVersion, changes' = changes
    PROVE  VersionsCounted'
BY DEF VersionsCounted

\* ChangeDefault: the request will read the table.
LEMMA ChangeDefaultInv ==
    ASSUME ProvInv, NEW a \in ProviderAdmins, ChangeDefault(a)
    PROVE  ProvInv'
<1>1. /\ refresh[a] = NotRefreshing /\ changes < MaxChanges /\ changes' = changes + 1
      /\ refresh' = [refresh EXCEPT ![a].pc = "read"]
      /\ UNCHANGED <<byUser, resolved, cacheVersion, llmCall, built, excuse, mistagged>>
    BY DEF ChangeDefault
<1>2. inDB' \in Defaults
  <2>1. inDB \in Defaults
      BY DEF ProvInv, ProvShape
  <2>2. ASSUME NEW old \in inDB, NEW l \in LLMs PROVE {[old EXCEPT !.llm = l]} \in Defaults
    <3>1. old \in Configs
        BY <2>1 DEF Defaults
    <3>2. [old EXCEPT !.llm = l] \in Configs
        BY <3>1 DEF Configs
    <3> QED  BY <3>2 DEF Defaults
  <2>4. {} \in Defaults /\ \A x \in Configs : {x} \in Defaults
      BY DEF Defaults
  <2>5. Mutation
      BY DEF ChangeDefault
  <2>6. CASE CreateProvider
      BY <2>1, <2>6 DEF CreateProvider
  <2>7. CASE UpdateProvider
      BY <2>4, <2>7 DEF UpdateProvider
  <2>8. CASE DeleteProvider \/ DeleteModel
      BY <2>4, <2>8 DEF DeleteProvider, DeleteModel
  <2>9. CASE CreateModel \/ SetDefaultModel
      BY <2>4, <2>9 DEF CreateModel, SetDefaultModel
  <2>10. CASE UpdateModel
      BY <2>2, <2>4, <2>10 DEF UpdateModel
  <2> QED  BY <2>5, <2>6, <2>7, <2>8, <2>9, <2>10 DEF Mutation
<1>3. /\ refresh \in [ProviderAdmins -> RefreshRecord] /\ refresh' \in [ProviderAdmins -> RefreshRecord]
      /\ refresh'[a].pc = "read" /\ \A b \in ProviderAdmins : b # a => refresh'[b] = refresh[b]
    BY <1>1 DEF ProvInv, ProvShape, RefreshRecord
<1>4. refresh[a].pc = "idle"
    BY <1>1 DEF NotRefreshing
<1>5. ProvShape'
  <2>1. byUser' \in BOOLEAN /\ excuse' \in BOOLEAN /\ mistagged' \in BOOLEAN
      BY <1>1 DEF ProvInv, ProvShape
  <2>2. changes' \in 0..MaxChanges
      BY <1>1, ProviderAssumption DEF ProvInv, ProvShape
  <2>3. \A b \in ProviderAdmins : refresh'[b].pc = "idle" => refresh'[b] = NotRefreshing
      BY <1>3 DEF ProvInv, ProvShape
  <2> QED  BY <1>1, <1>2, <1>3, <2>1, <2>2, <2>3 DEF ProvInv, ProvShape
<1>6. VersionsCounted'
  <2>1. a \notin BusyAdmins /\ BusyAdmins' = BusyAdmins \cup {a}
      BY <1>3, <1>4 DEF BusyAdmins
  <2>2. VersionsCounted /\ cacheVersion \in Nat /\ changes \in Nat /\ cacheVersion' = cacheVersion
      BY <1>1 DEF ProvInv, ProvShape
  <2> QED  BY <1>1, <2>1, <2>2, BusyBegins
<1>7. RefreshesKept'
    BY <1>3 DEF RefreshesKept, WillBeCurrent
<1>8. CurrentConfigs' = CurrentConfigs
  <2>1. {b \in ProviderAdmins : refresh'[b].pc = "bump"} = {b \in ProviderAdmins : refresh[b].pc = "bump"}
      BY <1>3, <1>4
  <2>2. \A b \in {b \in ProviderAdmins : refresh[b].pc = "bump"} : refresh'[b].old = refresh[b].old
      BY <1>3, <1>4
  <2> QED  BY <1>1, <2>1, <2>2 DEF CurrentConfigs
<1>9. CallsKept'
    BY <1>1, <1>8, CallsUntouched DEF ProvInv
<1> QED  BY <1>5, <1>6, <1>7, <1>9 DEF ProvInv

\* ReadDefaults: what the request will store is what the table says.
LEMMA ReadDefaultsInv ==
    ASSUME ProvInv, NEW a \in ProviderAdmins, ReadDefaults(a)
    PROVE  ProvInv'
<1>1. /\ refresh[a].pc = "read"
      /\ refresh' = [refresh EXCEPT ![a].pc = "store", ![a].next = inDB]
      /\ UNCHANGED <<byUser, inDB, resolved, cacheVersion, llmCall, built, changes, excuse, mistagged>>
    BY DEF ReadDefaults
<1> DEFINE r == [refresh[a] EXCEPT !.pc = "store", !.next = inDB]
<1>2. /\ refresh \in [ProviderAdmins -> RefreshRecord] /\ inDB \in Defaults
      /\ refresh' = [refresh EXCEPT ![a] = r] /\ r \in RefreshRecord /\ r.pc = "store" /\ r.next = inDB
    BY <1>1 DEF ProvInv, ProvShape, RefreshRecord
<1> HIDE DEF r
<1>3. /\ refresh' \in [ProviderAdmins -> RefreshRecord] /\ refresh'[a].pc = "store" /\ refresh'[a].next = inDB
      /\ \A b \in ProviderAdmins : b # a => refresh'[b] = refresh[b]
    BY <1>2
<1>4. ProvShape'
  <2>1. byUser' \in BOOLEAN /\ excuse' \in BOOLEAN /\ mistagged' \in BOOLEAN
      BY <1>1 DEF ProvInv, ProvShape
  <2>2. \A b \in ProviderAdmins : refresh'[b].pc = "idle" => refresh'[b] = NotRefreshing
      BY <1>3 DEF ProvInv, ProvShape
  <2> QED  BY <1>1, <1>3, <2>1, <2>2 DEF ProvInv, ProvShape
<1>5. VersionsCounted'
  <2>1. BusyAdmins' = BusyAdmins
      BY <1>1, <1>3 DEF BusyAdmins
  <2> QED  BY <1>1, <2>1, BusySame DEF ProvInv
<1>6. WillBeCurrent'
    BY <1>1, <1>3 DEF WillBeCurrent
<1>7. RefreshesKept'
    BY <1>6 DEF RefreshesKept
<1>8. CurrentConfigs' = CurrentConfigs
  <2>1. {b \in ProviderAdmins : refresh'[b].pc = "bump"} = {b \in ProviderAdmins : refresh[b].pc = "bump"}
      BY <1>1, <1>3
  <2>2. \A b \in {b \in ProviderAdmins : refresh[b].pc = "bump"} : refresh'[b].old = refresh[b].old
      BY <1>1, <1>3
  <2> QED  BY <1>1, <2>1, <2>2 DEF CurrentConfigs
<1>9. CallsKept'
    BY <1>1, <1>8, CallsUntouched DEF ProvInv
<1> QED  BY <1>4, <1>5, <1>7, <1>9 DEF ProvInv

\* A record is what it was when a field is given the value it has.
LEMMA SameRecord ==
    ASSUME NEW A, NEW B, NEW C, NEW D, NEW r \in [pc : A, next : B, old : C, late : D]
    PROVE  [r EXCEPT !.late = r.late] = r
OBVIOUS

\* Overtaken marks the requests that hold what they read, and changes nothing else.
LEMMA OvertakenMarks ==
    ASSUME ProvShape
    PROVE  /\ Overtaken \in [ProviderAdmins -> RefreshRecord]
           /\ \A b \in ProviderAdmins :
                /\ Overtaken[b].pc = refresh[b].pc /\ Overtaken[b].old = refresh[b].old
                /\ refresh[b].pc = "store" => Overtaken[b].late
                /\ refresh[b].pc = "idle" => Overtaken[b] = NotRefreshing
<1> SUFFICES ASSUME NEW b \in ProviderAdmins
             PROVE  /\ Overtaken[b] \in RefreshRecord
                    /\ Overtaken[b].pc = refresh[b].pc /\ Overtaken[b].old = refresh[b].old
                    /\ refresh[b].pc = "store" => Overtaken[b].late
                    /\ refresh[b].pc = "idle" => Overtaken[b] = NotRefreshing
    BY DEF Overtaken
<1> DEFINE l == (refresh[b].late \/ refresh[b].pc = "store")
<1>1. refresh[b] \in RefreshRecord /\ (refresh[b].pc = "idle" => refresh[b] = NotRefreshing)
    BY DEF ProvShape
<1>2. l \in BOOLEAN
    OBVIOUS
<1>3. Overtaken[b] = [refresh[b] EXCEPT !.late = l]
    BY DEF Overtaken
<1>4. refresh[b].pc = "store" => l = TRUE
    OBVIOUS
<1>5. refresh[b].pc = "idle" => l = FALSE
    BY <1>1 DEF NotRefreshing
<1> HIDE DEF l
<1>6. Overtaken[b] \in RefreshRecord /\ Overtaken[b].pc = refresh[b].pc /\ Overtaken[b].old = refresh[b].old /\ Overtaken[b].late = l
    BY <1>1, <1>2, <1>3 DEF RefreshRecord
<1>7. ASSUME refresh[b].pc = "idle" PROVE Overtaken[b] = NotRefreshing
  <2>1. refresh[b].late = l
    <3>1. NotRefreshing.late = FALSE
        BY DEF NotRefreshing
    <3>2. l = FALSE /\ refresh[b] = NotRefreshing
        BY <1>1, <1>5, <1>7
    <3> QED  BY <3>1, <3>2, Zenon
  <2>2. [refresh[b] EXCEPT !.late = refresh[b].late] = refresh[b]
    <3>1. refresh[b] \in [pc : {"idle", "read", "store", "bump"}, next : Defaults, old : Defaults, late : BOOLEAN]
        BY <1>1 DEF RefreshRecord
    <3> QED  BY <3>1, SameRecord, Zenon
  <2> QED  BY <1>1, <1>3, <1>7, <2>1, <2>2
<1> QED  BY <1>4, <1>6, <1>7

\* RefreshFails is its own excuse.
LEMMA RefreshFailsInv ==
    ASSUME ProvInv, NEW a \in ProviderAdmins, RefreshFails(a)
    PROVE  ProvInv'
<1>1. /\ refresh[a].pc = "read" /\ refresh' = [Overtaken EXCEPT ![a] = NotRefreshing] /\ excuse' = TRUE
      /\ UNCHANGED <<byUser, inDB, resolved, cacheVersion, llmCall, built, changes, mistagged>>
    BY DEF RefreshFails
<1>2. /\ Overtaken \in [ProviderAdmins -> RefreshRecord]
      /\ \A b \in ProviderAdmins :
           /\ Overtaken[b].pc = refresh[b].pc /\ Overtaken[b].old = refresh[b].old
           /\ refresh[b].pc = "store" => Overtaken[b].late
           /\ refresh[b].pc = "idle" => Overtaken[b] = NotRefreshing
    BY OvertakenMarks DEF ProvInv
<1>3. /\ refresh' \in [ProviderAdmins -> RefreshRecord] /\ refresh'[a] = NotRefreshing /\ refresh'[a].pc = "idle"
      /\ \A b \in ProviderAdmins : b # a => refresh'[b] = Overtaken[b]
    BY <1>1, <1>2, IdleRecords DEF NotRefreshing
<1>4. ProvShape'
  <2>1. byUser' \in BOOLEAN /\ mistagged' \in BOOLEAN
      BY <1>1 DEF ProvInv, ProvShape
  <2>2. \A b \in ProviderAdmins : refresh'[b].pc = "idle" => refresh'[b] = NotRefreshing
      BY <1>2, <1>3
  <2>3. excuse' \in BOOLEAN
      BY <1>1
  <2> QED  BY <1>1, <1>3, <2>1, <2>2, <2>3 DEF ProvInv, ProvShape
<1>5. VersionsCounted'
  <2>1. a \in BusyAdmins /\ BusyAdmins' = BusyAdmins \ {a}
      BY <1>1, <1>2, <1>3 DEF BusyAdmins
  <2>2. VersionsCounted /\ cacheVersion \in Nat /\ changes \in Nat /\ changes' = changes
        /\ cacheVersion' \in {cacheVersion, cacheVersion + 1}
      BY <1>1 DEF ProvInv, ProvShape
  <2> QED  BY <2>1, <2>2, BusyEnds
<1>6. RefreshesKept'
    BY <1>1, <1>2, <1>3 DEF RefreshesKept
<1>7. CurrentConfigs' = CurrentConfigs
  <2>1. {b \in ProviderAdmins : refresh'[b].pc = "bump"} = {b \in ProviderAdmins : refresh[b].pc = "bump"}
      BY <1>1, <1>2, <1>3
  <2>2. \A b \in {b \in ProviderAdmins : refresh[b].pc = "bump"} : refresh'[b].old = refresh[b].old
      BY <1>1, <1>2, <1>3
  <2> QED  BY <1>1, <2>1, <2>2 DEF CurrentConfigs
<1>8. CallsKept'
    BY <1>1, <1>7, CallsUntouched DEF ProvInv
<1> QED  BY <1>4, <1>5, <1>6, <1>8 DEF ProvInv

\* StoreResolved: the calls under way note the new configuration; the one before
\* stays current until the version moves on.
LEMMA StoreResolvedInv ==
    ASSUME ProvInv, NEW a \in ProviderAdmins, StoreResolved(a)
    PROVE  ProvInv'
<1> DEFINE r == [refresh[a] EXCEPT !.pc = "bump", !.old = resolved]
           new == refresh[a].next
<1>1. /\ refresh[a].pc = "store" /\ resolved' = new /\ refresh' = [Overtaken EXCEPT ![a] = r]
      /\ excuse' = refresh[a].late
      /\ llmCall' = [c \in ProviderCalls |->
           IF llmCall[c].pc = "idle" THEN NotCalling ELSE [llmCall[c] EXCEPT !.during = @ \cup {new}]]
      /\ UNCHANGED <<byUser, inDB, cacheVersion, built, changes, mistagged>>
    BY DEF StoreResolved
<1>2. /\ Overtaken \in [ProviderAdmins -> RefreshRecord]
      /\ \A b \in ProviderAdmins :
           /\ Overtaken[b].pc = refresh[b].pc /\ Overtaken[b].old = refresh[b].old
           /\ refresh[b].pc = "store" => Overtaken[b].late
           /\ refresh[b].pc = "idle" => Overtaken[b] = NotRefreshing
    BY OvertakenMarks DEF ProvInv
<1>3. refresh[a] \in RefreshRecord /\ resolved \in Defaults /\ llmCall \in [ProviderCalls -> CallRecord]
    BY DEF ProvInv, ProvShape
<1>4. r \in RefreshRecord /\ r.pc = "bump" /\ r.old = resolved /\ new \in Defaults
    BY <1>3 DEF RefreshRecord
<1>5. refresh[a].late \in BOOLEAN
    BY <1>3 DEF RefreshRecord
<1> HIDE DEF r, new
<1>6. /\ refresh' \in [ProviderAdmins -> RefreshRecord] /\ refresh'[a] = r
      /\ \A b \in ProviderAdmins : b # a => refresh'[b] = Overtaken[b]
    BY <1>1, <1>2, <1>4
<1>7. ASSUME NEW c \in ProviderCalls
      PROVE  /\ llmCall'[c] \in CallRecord /\ llmCall'[c].pc = llmCall[c].pc
             /\ llmCall'[c].version <= cacheVersion
             /\ llmCall[c].pc # "idle" =>
                  /\ llmCall'[c].cfg = llmCall[c].cfg /\ llmCall'[c].version = llmCall[c].version
                  /\ llmCall'[c].got = llmCall[c].got /\ llmCall'[c].during = llmCall[c].during \cup {new}
  <2>1. CASE llmCall[c].pc = "idle"
    <3>1. llmCall'[c] = NotCalling
        BY <1>1, <2>1
    <3>2. NotCalling.pc = "idle" /\ NotCalling.version = 0 /\ cacheVersion \in Nat
        BY DEF NotCalling, ProvInv, ProvShape
    <3> QED  BY <2>1, <3>1, <3>2, IdleRecords
  <2>2. CASE llmCall[c].pc # "idle"
    <3>1. llmCall'[c] = [llmCall[c] EXCEPT !.during = @ \cup {new}]
        BY <1>1, <2>2
    <3>2. llmCall[c] \in CallRecord /\ llmCall[c].version <= cacheVersion
        BY DEF ProvInv, ProvShape
    <3> QED  BY <1>4, <3>1, <3>2 DEF CallRecord
  <2> QED  BY <2>1, <2>2
<1>8. llmCall' \in [ProviderCalls -> CallRecord]
  <2>1. llmCall' = [c \in ProviderCalls |-> llmCall'[c]]
      BY <1>1
  <2> QED  BY <1>7, <2>1
<1>9. ProvShape'
  <2>1. byUser' \in BOOLEAN /\ mistagged' \in BOOLEAN
      BY <1>1 DEF ProvInv, ProvShape
  <2>2. excuse' \in BOOLEAN
      BY <1>1, <1>5
  <2>3. \A b \in ProviderAdmins : refresh'[b].pc = "idle" => refresh'[b] = NotRefreshing
      BY <1>2, <1>4, <1>6
  <2>4. \A c \in ProviderCalls :
          llmCall'[c].version <= cacheVersion' /\ (llmCall'[c].pc # "idle" => llmCall'[c].version # 0)
      BY <1>1, <1>7 DEF ProvInv, ProvShape
  <2> QED  BY <1>1, <1>4, <1>6, <1>8, <2>1, <2>2, <2>3, <2>4 DEF ProvInv, ProvShape
<1>10. VersionsCounted'
  <2>1. BusyAdmins' = BusyAdmins
      BY <1>1, <1>2, <1>4, <1>6 DEF BusyAdmins
  <2> QED  BY <1>1, <2>1, BusySame DEF ProvInv
<1>11. RefreshesKept'
  <2>1. \A b \in ProviderAdmins : refresh'[b].pc = "store" => refresh'[b].late
      BY <1>2, <1>4, <1>6
  <2>2. \A b \in ProviderAdmins : b # a => refresh'[b].pc = refresh[b].pc
      BY <1>2, <1>6
  <2>3. CASE \E b \in ProviderAdmins : b # a /\ refresh[b].pc \in {"read", "store"}
      BY <2>1, <2>2, <2>3 DEF RefreshesKept, WillBeCurrent
  <2>4. CASE refresh[a].late
      BY <1>1, <2>1, <2>4 DEF RefreshesKept
  <2>5. CASE ~refresh[a].late /\ \A b \in ProviderAdmins : b # a => refresh[b].pc \notin {"read", "store"}
    <3>1. new = inDB \/ WillBeCurrent
        BY <1>1, <2>5 DEF ProvInv, RefreshesKept, new
    <3>2. WillBeCurrent => new = inDB
        BY <1>1, <2>5 DEF WillBeCurrent, new
    <3> QED  BY <1>1, <2>1, <3>1, <3>2 DEF RefreshesKept
  <2> QED  BY <1>5, <2>3, <2>4, <2>5
<1>12. CurrentConfigs' = CurrentConfigs \cup {new}
  <2>1. {b \in ProviderAdmins : refresh'[b].pc = "bump"} = {b \in ProviderAdmins : refresh[b].pc = "bump"} \cup {a}
      BY <1>2, <1>4, <1>6
  <2>2. refresh'[a].old = resolved /\ \A b \in {x \in ProviderAdmins : refresh[x].pc = "bump"} : refresh'[b].old = refresh[b].old
      BY <1>1, <1>2, <1>4, <1>6
  <2> QED  BY <1>1, <2>1, <2>2 DEF CurrentConfigs
<1>13. Noted'
    BY <1>7, <1>12 DEF ProvInv, CallsKept, Noted
<1>14. ConfigHeld'
  <2> SUFFICES ASSUME NEW c \in ProviderCalls, llmCall'[c].pc = "config", llmCall'[c].version = cacheVersion'
               PROVE  llmCall'[c].cfg \in CurrentConfigs'
      BY DEF ConfigHeld
  <2>1. llmCall[c].pc = "config" /\ llmCall[c].version = cacheVersion /\ llmCall'[c].cfg = llmCall[c].cfg
      BY <1>1, <1>7
  <2> QED  BY <1>12, <2>1 DEF ProvInv, CallsKept, ConfigHeld
<1>15. ASSUME TagsHeld PROVE TagsHeld'
  <2>1. Tagging' = Tagging
      BY <1>7 DEF Tagging
  <2>2. \A c \in Tagging : /\ llmCall'[c].cfg = llmCall[c].cfg /\ llmCall'[c].version = llmCall[c].version
                           /\ llmCall'[c].during = llmCall[c].during \cup {new}
      BY <1>7 DEF Tagging
  <2>3. \A c \in Tagging' : llmCall'[c].version = cacheVersion' => llmCall'[c].cfg \in CurrentConfigs'
    <3>1. \A c \in Tagging : llmCall[c].version = cacheVersion => llmCall[c].cfg \in CurrentConfigs
        BY <1>15 DEF TagsHeld
    <3>2. cacheVersion' = cacheVersion
        BY <1>1
    <3> QED  BY <1>12, <2>1, <2>2, <3>1, <3>2
  <2>4. \A b \in built' : b.version = cacheVersion' => {b.cfg} \in CurrentConfigs'
      BY <1>1, <1>12, <1>15 DEF TagsHeld
  <2>5. \A c, d \in Tagging' : llmCall'[d].version = llmCall'[c].version => llmCall'[d].cfg \in llmCall'[c].during
    <3>1. \A c, d \in Tagging : llmCall[d].version = llmCall[c].version => llmCall[d].cfg \in llmCall[c].during
        BY <1>15 DEF TagsHeld
    <3> QED  BY <2>1, <2>2, <3>1
  <2>6. \A c \in Tagging', b \in built' : b.version = llmCall'[c].version => {b.cfg} \in llmCall'[c].during
    <3>1. \A c \in Tagging, b \in built : b.version = llmCall[c].version => {b.cfg} \in llmCall[c].during
        BY <1>15 DEF TagsHeld
    <3>2. built' = built
        BY <1>1
    <3> QED  BY <2>1, <2>2, <3>1, <3>2
  <2>7. \A c \in ProviderCalls : (llmCall'[c].pc = "served" /\ llmCall'[c].got # {})
            => llmCall'[c].got \in llmCall'[c].during
    <3> SUFFICES ASSUME NEW c \in ProviderCalls, llmCall'[c].pc = "served", llmCall'[c].got # {}
                 PROVE  llmCall'[c].got \in llmCall'[c].during
        OBVIOUS
    <3>1. llmCall[c].pc = "served" /\ llmCall'[c].got = llmCall[c].got /\ llmCall'[c].during = llmCall[c].during \cup {new}
        BY <1>7
    <3> QED  BY <1>15, <3>1 DEF TagsHeld
  <2> QED  BY <2>3, <2>4, <2>5, <2>6, <2>7 DEF TagsHeld
<1>16. CallsKept'
    BY <1>1, <1>13, <1>14, <1>15 DEF ProvInv, CallsKept
<1> QED  BY <1>9, <1>10, <1>11, <1>16 DEF ProvInv

\* BumpVersion: nothing is held or built under the new version yet.
LEMMA BumpVersionInv ==
    ASSUME ProvInv, NEW a \in ProviderAdmins, BumpVersion(a)
    PROVE  ProvInv'
<1>1. /\ refresh[a].pc = "bump" /\ cacheVersion' = cacheVersion + 1
      /\ refresh' = [refresh EXCEPT ![a] = NotRefreshing]
      /\ UNCHANGED <<byUser, inDB, resolved, llmCall, built, changes, excuse, mistagged>>
    BY DEF BumpVersion
<1>2. cacheVersion \in Nat /\ refresh \in [ProviderAdmins -> RefreshRecord] /\ llmCall \in [ProviderCalls -> CallRecord]
    BY DEF ProvInv, ProvShape
<1>3. /\ refresh' \in [ProviderAdmins -> RefreshRecord] /\ refresh'[a] = NotRefreshing /\ refresh'[a].pc = "idle"
      /\ \A b \in ProviderAdmins : b # a => refresh'[b] = refresh[b]
    BY <1>1, <1>2, IdleRecords DEF NotRefreshing
<1>4. \A c \in ProviderCalls : llmCall[c].version \in Nat /\ llmCall[c].version <= cacheVersion
    BY <1>2 DEF ProvInv, ProvShape, CallRecord
<1>5. \A b \in built : b.cfg \in Configs /\ b.version \in 1..cacheVersion
    BY DEF ProvInv, ProvShape
<1>6. ProvShape'
  <2>1. byUser' \in BOOLEAN /\ mistagged' \in BOOLEAN /\ excuse' \in BOOLEAN
      BY <1>1 DEF ProvInv, ProvShape
  <2>2. \A b \in ProviderAdmins : refresh'[b].pc = "idle" => refresh'[b] = NotRefreshing
      BY <1>3 DEF ProvInv, ProvShape
  <2>3. \A c \in ProviderCalls :
          llmCall'[c].version <= cacheVersion' /\ (llmCall'[c].pc # "idle" => llmCall'[c].version # 0)
      BY <1>1, <1>2, <1>4 DEF ProvInv, ProvShape
  <2>4. /\ \A b \in built' : b.cfg \in Configs /\ b.version \in 1..cacheVersion'
        /\ cacheVersion' \in Nat \ {0}
      BY <1>1, <1>2, <1>5
  <2> QED  BY <1>1, <1>3, <2>1, <2>2, <2>3, <2>4 DEF ProvInv, ProvShape
<1>7. VersionsCounted'
  <2>1. a \in BusyAdmins /\ BusyAdmins' = BusyAdmins \ {a}
      BY <1>1, <1>3 DEF BusyAdmins
  <2>2. VersionsCounted /\ cacheVersion \in Nat /\ changes \in Nat /\ changes' = changes
        /\ cacheVersion' \in {cacheVersion, cacheVersion + 1}
      BY <1>1 DEF ProvInv, ProvShape
  <2> QED  BY <2>1, <2>2, BusyEnds
<1>8. RefreshesKept'
  <2>1. \A b \in ProviderAdmins : refresh[b].pc \in {"read", "store"} => refresh'[b] = refresh[b]
      BY <1>1, <1>3
  <2>2. WillBeCurrent => WillBeCurrent'
      BY <1>1, <2>1 DEF WillBeCurrent
  <2>3. \A b \in ProviderAdmins : refresh'[b].pc = "store" => refresh'[b] = refresh[b]
      BY <1>3
  <2> QED  BY <1>1, <2>1, <2>2, <2>3 DEF ProvInv, RefreshesKept
<1>9. CurrentConfigs' \subseteq CurrentConfigs
  <2>1. \A b \in ProviderAdmins : refresh'[b].pc = "bump" => refresh[b].pc = "bump" /\ refresh'[b].old = refresh[b].old
      BY <1>3
  <2> QED  BY <1>1, <2>1 DEF CurrentConfigs
<1>10. Noted'
    BY <1>1, <1>9 DEF ProvInv, CallsKept, Noted
<1>11. ConfigHeld'
    BY <1>1, <1>2, <1>4 DEF ConfigHeld
<1>12. Tagging' = Tagging /\ Tagging \subseteq ProviderCalls
    BY <1>1 DEF Tagging
<1>13. \A b \in built : b.version # cacheVersion'
    BY <1>1, <1>2, <1>5
<1>14. \A c \in ProviderCalls : llmCall[c].version # cacheVersion'
    BY <1>1, <1>2, <1>4
<1>15. ASSUME TagsHeld PROVE TagsHeld'
    BY <1>1, <1>12, <1>13, <1>14, <1>15 DEF TagsHeld
<1>16. CallsKept'
    BY <1>1, <1>10, <1>11, <1>15 DEF ProvInv, CallsKept
<1> QED  BY <1>6, <1>7, <1>8, <1>16 DEF ProvInv

\* Every step of requests and calls preserves the invariant.
LEMMA ProvNextInv == ProvInv /\ [ProvNext]_provVars => ProvInv'
<1> SUFFICES ASSUME ProvInv, [ProvNext]_provVars PROVE ProvInv'
    OBVIOUS
<1>1. ASSUME NEW a \in ProviderAdmins,
             ChangeDefault(a) \/ ReadDefaults(a) \/ RefreshFails(a) \/ StoreResolved(a) \/ BumpVersion(a)
      PROVE  ProvInv'
    BY <1>1, ChangeDefaultInv, ReadDefaultsInv, RefreshFailsInv, StoreResolvedInv, BumpVersionInv
<1>2. ASSUME NEW c \in ProviderCalls,
             \/ ReadConfig(c) \/ ReadVersion(c) \/ LookBuilt(c)
             \/ BuildFails(c) \/ KeepBuilt(c) \/ CallEnds(c)
      PROVE  ProvInv'
    BY <1>2, ReadConfigInv, ReadVersionInv, BuildStepInv, CallEndsInv
<1>3. ASSUME UNCHANGED provVars PROVE ProvInv'
  <2>1. UNCHANGED <<byUser, inDB, resolved, cacheVersion, refresh, llmCall, built, changes, excuse, mistagged>>
      BY <1>3 DEF provVars
  <2>2. ProvShape'
      BY <2>1 DEF ProvInv, ProvShape
  <2>3. VersionsCounted' /\ RefreshesKept'
      BY <2>1, AdminsUntouched DEF ProvInv
  <2>4. CurrentConfigs' = CurrentConfigs
      BY <2>1 DEF CurrentConfigs
  <2>5. CallsKept'
      BY <2>1, <2>4, CallsUntouched DEF ProvInv
  <2> QED  BY <2>2, <2>3, <2>5 DEF ProvInv
<1> QED  BY <1>1, <1>2, <1>3 DEF ProvNext

\* The invariant is what the store promises.
LEMMA ProvInvSuffices == ProvInv => ProviderCurrent
<1> SUFFICES ASSUME ProvInv PROVE ProviderCurrent
    OBVIOUS
<1>1. cacheVersion \in 1..(MaxChanges + 1)
  <2>1. Cardinality(BusyAdmins) \in Nat /\ cacheVersion + Cardinality(BusyAdmins) <= changes + 1
      BY FS_CardinalityType DEF ProvInv, VersionsCounted
  <2>2. cacheVersion \in Nat \ {0} /\ changes \in 0..MaxChanges /\ MaxChanges \in Nat
      BY ProviderAssumption DEF ProvInv, ProvShape
  <2> QED  BY <2>1, <2>2
<1>2. ProvTypeOK
  <2>1. byUser \in BOOLEAN
      BY DEF ProvInv, ProvShape
  <2>2. refresh \in [ProviderAdmins -> [pc : {"idle", "read", "store", "bump"},
                                        next : Defaults, old : Defaults, late : BOOLEAN]]
      BY DEF ProvInv, ProvShape, RefreshRecord
  <2>3. \A c \in ProviderCalls :
          /\ llmCall[c].pc \in {"idle", "config", "match", "build", "served"}
          /\ llmCall[c].cfg \in Defaults /\ llmCall[c].got \in Defaults
          /\ llmCall[c].version \in 0..cacheVersion
      BY DEF ProvInv, ProvShape, CallRecord
  <2> QED  BY <1>1, <2>1, <2>2, <2>3 DEF ProvInv, ProvShape, ProvTypeOK
<1>3. ResolvedCurrent
    BY DEF ProvInv, RefreshesKept, WillBeCurrent, ResolvedCurrent, NotRefreshing
<1>4. ServedWasCurrent
    BY DEF ProvInv, CallsKept, TagsHeld, ServedWasCurrent
<1> QED  BY <1>2, <1>3, <1>4 DEF ProviderCurrent

\* The model of a purpose is the one the table names, in the store at rest and in
\* every call (ai/provider_store.go, purpose_provider.go), with the two exceptions
\* ProviderCurrent names, for any administrators, calls and configurations.
THEOREM ProviderCorrect == ProvSpec => []ProviderCurrent
<1>1. ProvInit => ProvInv
    BY ProvInitInv
<1>2. ProvInv /\ [ProvNext]_provVars => ProvInv'
    BY ProvNextInv
<1>3. ProvInv => ProviderCurrent
    BY ProvInvSuffices
<1> QED  BY <1>1, <1>2, <1>3, PTL DEF ProvSpec

-----------------------------------------------------------------------------
(* Experiments: the shares of the variants, summed by a fold, and the buckets
   they make; then what a request has validated and the router has read *)

\* A set of numbers that is not empty has a least member: what induction over
\* hours, days, joins and sums below rests on.
LEMMA LeastNat ==
  ASSUME NEW T \in SUBSET Nat, T # {}
  PROVE  \E n \in T : \A m \in T : n <= m
<1> DEFINE less == {ss \in Nat \X Nat : ss[1] < ss[2]}
<1>1. IsWellFoundedOn(less, Nat)
  BY NatLessThanWellFounded DEF OpToRel
<1>2. T \subseteq Nat OBVIOUS
<1> HIDE DEF less
<1>3. PICK x \in T : \A y \in T : ~(<<y, x>> \in less)
  BY <1>1, <1>2, WFMin
<1> USE DEF less
<1>4. \A y \in T : ~(y < x)
  BY <1>3
<1> QED BY <1>4

\* Sums of percentages.
AnyOf(s) == CHOOSE x \in s : TRUE

AddsUp(vs, S, g) ==
    g = [s \in SUBSET S |-> IF s = {} THEN 0 ELSE Pct(vs, AnyOf(s)) + g[s \ {AnyOf(s)}]]

\* The member a fold takes next.
LEMMA AnyIn == ASSUME NEW s, s # {} PROVE AnyOf(s) \in s
BY DEF AnyOf

\* Total is the value of the recursive function that the fold chooses.
LEMMA TotalIs ==
  ASSUME NEW vs, NEW S
  PROVE  Total(vs, S) = (CHOOSE g : AddsUp(vs, S, g))[S]
BY DEF Total, MapThenSumSet, MapThenFoldSet, AddsUp, AnyOf

\* There is such a function on the subsets of a finite set.
LEMMA AddsUpExists ==
  ASSUME NEW vs, NEW S, IsFiniteSet(S)
  PROVE  \E g : AddsUp(vs, S, g)
<1> DEFINE B(n) == {s \in SUBSET S : Cardinality(s) <= n}
           Part(n, g) == g = [s \in B(n) |-> IF s = {} THEN 0 ELSE Pct(vs, AnyOf(s)) + g[s \ {AnyOf(s)}]]
           bad == {n \in Nat : ~\E g : Part(n, g)}
<1>1. \A s \in SUBSET S : IsFiniteSet(s) /\ Cardinality(s) \in Nat /\ Cardinality(s) <= Cardinality(S)
  BY FS_Subset, FS_CardinalityType
<1>2. bad = {}
  <2> SUFFICES ASSUME bad # {} PROVE FALSE OBVIOUS
  <2>1. bad \in SUBSET Nat OBVIOUS
  <2>2. PICK n \in bad : \A m \in bad : n <= m
    <3> HIDE DEF bad
    <3> QED BY <2>1, LeastNat
  <2>3. n \in Nat /\ ~\E g : Part(n, g)
    BY <2>2
  <2>4. CASE n = 0
    <3>1. \A s \in B(0) : s = {}
      <4> SUFFICES ASSUME NEW s \in B(0) PROVE s = {} OBVIOUS
      <4>1. IsFiniteSet(s) /\ Cardinality(s) = 0
        BY <1>1
      <4> QED BY <4>1, FS_EmptySet
    <3> DEFINE g == [s \in B(0) |-> 0]
    <3>2. Part(0, g)
      BY <3>1
    <3> QED BY <2>3, <2>4, <3>2
  <2>5. CASE n # 0
    <3>1. n - 1 \in Nat /\ n - 1 \notin bad
      <4> HIDE DEF bad
      <4> QED BY <2>1, <2>2, <2>3, <2>5
    <3>2. PICK g : Part(n - 1, g)
      BY <3>1
    <3> DEFINE h == [s \in B(n) |-> IF s = {} THEN 0 ELSE Pct(vs, AnyOf(s)) + g[s \ {AnyOf(s)}]]
    <3>3. ASSUME NEW s \in B(n), s # {}
          PROVE  s \ {AnyOf(s)} \in B(n - 1) /\ s \ {AnyOf(s)} \in B(n)
      <4>1. IsFiniteSet(s) /\ Cardinality(s) \in Nat /\ Cardinality(s) <= n /\ AnyOf(s) \in s
        BY <1>1, <3>3, AnyIn
      <4>2. Cardinality(s \ {AnyOf(s)}) = Cardinality(s) - 1
        BY <4>1, FS_RemoveElement
      <4> QED BY <4>1, <4>2, <2>3
    <3>4. \A s \in B(n - 1) : s \in B(n)
      BY <1>1, <2>3
    <3>5. \A s \in B(n - 1) : h[s] = g[s]
      <4> SUFFICES ASSUME NEW s \in B(n - 1) PROVE h[s] = g[s] OBVIOUS
      <4> HIDE DEF B
      <4>1. g[s] = IF s = {} THEN 0 ELSE Pct(vs, AnyOf(s)) + g[s \ {AnyOf(s)}]
        BY <3>2
      <4> QED BY <4>1, <3>4
    <3>6. Part(n, h)
      <4> HIDE DEF B
      <4>1. \A s \in B(n) : s # {} => h[s \ {AnyOf(s)}] = g[s \ {AnyOf(s)}]
        BY <3>3, <3>5
      <4> QED BY <4>1
    <3> QED BY <2>3, <3>6
  <2> QED BY <2>4, <2>5
<1>3. Cardinality(S) \in Nat
  BY FS_CardinalityType
<1>4. B(Cardinality(S)) = SUBSET S
  BY <1>1
<1>5. PICK g : Part(Cardinality(S), g)
  BY <1>2, <1>3
<1>6. AddsUp(vs, S, g)
  BY <1>4, <1>5 DEF AddsUp
<1> QED BY <1>6

\* It has one value, whatever set it was defined on.
LEMMA AddsUpAgree ==
  ASSUME NEW vs, NEW S, IsFiniteSet(S), NEW T \in SUBSET S, NEW g, NEW h,
         AddsUp(vs, S, g), AddsUp(vs, T, h)
  PROVE  g[T] = h[T]
<1> DEFINE bad == {n \in Nat : \E s \in SUBSET T : Cardinality(s) = n /\ g[s] # h[s]}
<1>1. \A s \in SUBSET T : IsFiniteSet(s) /\ Cardinality(s) \in Nat
  <2> SUFFICES ASSUME NEW s \in SUBSET T PROVE IsFiniteSet(s) /\ Cardinality(s) \in Nat OBVIOUS
  <2>1. s \in SUBSET S OBVIOUS
  <2> QED BY <2>1, FS_Subset, FS_CardinalityType
<1>2. \A s \in SUBSET T :
        /\ g[s] = IF s = {} THEN 0 ELSE Pct(vs, AnyOf(s)) + g[s \ {AnyOf(s)}]
        /\ h[s] = IF s = {} THEN 0 ELSE Pct(vs, AnyOf(s)) + h[s \ {AnyOf(s)}]
  BY DEF AddsUp
<1>3. bad = {}
  <2> SUFFICES ASSUME bad # {} PROVE FALSE OBVIOUS
  <2>1. bad \in SUBSET Nat OBVIOUS
  <2>2. PICK n \in bad : \A m \in bad : n <= m
    <3> HIDE DEF bad
    <3> QED BY <2>1, LeastNat
  <2>3. PICK s \in SUBSET T : Cardinality(s) = n /\ g[s] # h[s]
    BY <2>2
  <2>4. s # {}
    BY <2>3, <1>2
  <2>5. AnyOf(s) \in s
    BY <2>4, AnyIn
  <2> DEFINE r == s \ {AnyOf(s)}
  <2>6. IsFiniteSet(s) /\ Cardinality(s) \in Nat
    BY <1>1
  <2>7. Cardinality(r) = n - 1 /\ r \in SUBSET T
    BY <2>3, <2>5, <2>6, FS_RemoveElement
  <2>8. g[r] # h[r]
    BY <2>3, <2>4, <1>2
  <2>9. Cardinality(r) \in Nat /\ Cardinality(r) < n
    BY <2>6, <2>7, <2>3, <1>1
  <2> HIDE DEF r
  <2>10. Cardinality(r) \in bad
    BY <2>7, <2>8, <2>9
  <2> HIDE DEF bad
  <2> QED BY <2>2, <2>9, <2>10, <2>1
<1>4. Cardinality(T) \in Nat
  BY <1>1
<1> QED BY <1>3, <1>4

\* No variant, no share.
LEMMA TotalEmpty == ASSUME NEW vs PROVE Total(vs, {}) = 0
<1>1. IsFiniteSet({})
  BY FS_EmptySet
<1>2. PICK g : AddsUp(vs, {}, g)
  BY <1>1, AddsUpExists
<1> DEFINE h == CHOOSE k : AddsUp(vs, {}, k)
<1>3. AddsUp(vs, {}, h)
  BY <1>2
<1>4. Total(vs, {}) = h[{}]
  BY TotalIs
<1> HIDE DEF h
<1> QED BY <1>3, <1>4 DEF AddsUp

\* The sum of a set: a member's share and the sum of the others.
LEMMA TotalAny ==
  ASSUME NEW vs, NEW S, IsFiniteSet(S), S # {}
  PROVE  Total(vs, S) = Pct(vs, AnyOf(S)) + Total(vs, S \ {AnyOf(S)})
<1> DEFINE T == S \ {AnyOf(S)}
           g == CHOOSE k : AddsUp(vs, S, k)
           h == CHOOSE k : AddsUp(vs, T, k)
<1>1. IsFiniteSet(T)
  BY FS_RemoveElement
<1>2. AddsUp(vs, S, g)
  BY AddsUpExists
<1>3. AddsUp(vs, T, h)
  <2> HIDE DEF T
  <2> QED BY <1>1, AddsUpExists
<1>4. Total(vs, S) = g[S]
  BY TotalIs
<1>5. Total(vs, T) = h[T]
  BY TotalIs
<1>6. T \in SUBSET S OBVIOUS
<1> HIDE DEF g, h
<1>7. g[S] = Pct(vs, AnyOf(S)) + g[T]
  BY <1>2 DEF AddsUp
<1>8. g[T] = h[T]
  <2> HIDE DEF T
  <2> QED BY <1>2, <1>3, <1>6, AddsUpAgree
<1> QED BY <1>4, <1>5, <1>7, <1>8

\* The sum is an integer, and it does not matter which one is taken first.
LEMMA TotalSplits ==
  ASSUME NEW vs, NEW S, IsFiniteSet(S), \A v \in S : Pct(vs, v) \in Int
  PROVE  /\ Total(vs, S) \in Int
         /\ \A v \in S : Total(vs, S) = Pct(vs, v) + Total(vs, S \ {v})
<1> DEFINE Good(s) == /\ Total(vs, s) \in Int
                      /\ \A v \in s : Total(vs, s) = Pct(vs, v) + Total(vs, s \ {v})
           bad == {n \in Nat : \E s \in SUBSET S : Cardinality(s) = n /\ ~Good(s)}
<1>1. \A s \in SUBSET S : IsFiniteSet(s) /\ Cardinality(s) \in Nat
  BY FS_Subset, FS_CardinalityType
<1>2. bad = {}
  <2> SUFFICES ASSUME bad # {} PROVE FALSE OBVIOUS
  <2>1. bad \in SUBSET Nat OBVIOUS
  <2>2. PICK n \in bad : \A m \in bad : n <= m
    <3> HIDE DEF bad
    <3> QED BY <2>1, LeastNat
  <2>3. PICK s \in SUBSET S : Cardinality(s) = n /\ ~Good(s)
    BY <2>2
  <2>4. IsFiniteSet(s) /\ n \in Nat
    BY <1>1, <2>3
  <2>5. \A r \in SUBSET s : r # s => Good(r)
    <3> SUFFICES ASSUME NEW r \in SUBSET s, r # s, ~Good(r) PROVE FALSE OBVIOUS
    <3>1. Cardinality(r) <= n /\ Cardinality(r) # n
      BY <2>3, <2>4, FS_Subset
    <3>2. Cardinality(r) \in Nat /\ r \in SUBSET S
      BY <1>1
    <3>3. Cardinality(r) \in bad
      BY <3>2
    <3> HIDE DEF bad
    <3> QED BY <2>2, <2>4, <3>1, <3>2, <3>3
  <2>6. CASE s = {}
    BY <2>3, <2>6, TotalEmpty
  <2>7. CASE s # {}
    <3> DEFINE a == AnyOf(s)
    <3>1. a \in s
      BY <2>7, AnyIn
    <3>2. Total(vs, s) = Pct(vs, a) + Total(vs, s \ {a})
      BY <2>4, <2>7, TotalAny
    <3> HIDE DEF a
    <3>3. Total(vs, s) \in Int
      BY <3>1, <3>2, <2>5
    <3>4. ASSUME NEW v \in s, v # a
          PROVE  Total(vs, s) = Pct(vs, v) + Total(vs, s \ {v})
      <4> DEFINE x == Total(vs, s \ {a})
                 y == Total(vs, s \ {v})
                 z == Total(vs, (s \ {a}) \ {v})
      <4>1. (s \ {v}) \ {a} = (s \ {a}) \ {v}
        OBVIOUS
      <4>2. x = Pct(vs, v) + z
        BY <2>5, <3>1, <3>4
      <4>3. y = Pct(vs, a) + z
        BY <2>5, <3>1, <3>4, <4>1
      <4>4. x \in Int /\ y \in Int
        BY <2>5, <3>1
      <4>5. z \in Int
        BY <2>5, <3>1
      <4>6. Pct(vs, v) \in Int /\ Pct(vs, a) \in Int
        BY <3>1
      <4> HIDE DEF x, y, z
      <4>7. Pct(vs, a) + x = Pct(vs, v) + y
        BY <4>2, <4>3, <4>4, <4>5, <4>6
      <4> QED BY <4>7, <3>2 DEF x, y
    <3> QED BY <2>3, <3>2, <3>3, <3>4
  <2> QED BY <2>6, <2>7
<1>3. Cardinality(S) \in Nat /\ S \in SUBSET S
  BY <1>1
<1> QED BY <1>2, <1>3

\* The percentage of one variant.
LEMMA SumOfOne ==
  ASSUME NEW p \in Int
  PROVE  SumSet({p}) = p
<1> DEFINE IsSum(g) == g = [s \in SUBSET {p} |->
             IF s = {} THEN 0 ELSE AnyOf(s) + g[s \ {AnyOf(s)}]]
           k == CHOOSE g : IsSum(g)
<1>1. SumSet({p}) = k[{p}]
  BY DEF SumSet, FoldSet, MapThenFoldSet, AnyOf
<1>2. AnyOf({p}) = p
  BY AnyIn
<1>3. \A s \in SUBSET {p} : s = {} \/ s = {p}
  OBVIOUS
<1> DEFINE h == [s \in SUBSET {p} |-> IF s = {} THEN 0 ELSE p]
<1>4. IsSum(h)
  <2>1. h[{}] = 0
    OBVIOUS
  <2>2. {p} \ {AnyOf({p})} = {}
    BY <1>2
  <2>3. \A s \in SUBSET {p} : s # {} => AnyOf(s) + h[s \ {AnyOf(s)}] = p
    <3> SUFFICES ASSUME NEW s \in SUBSET {p}, s # {} PROVE AnyOf(s) + h[s \ {AnyOf(s)}] = p
      OBVIOUS
    <3>1. s = {p} /\ AnyOf(s) = p /\ s \ {AnyOf(s)} = {}
      BY <1>2, <1>3, <2>2
    <3> HIDE DEF h
    <3>2. h[s \ {AnyOf(s)}] = 0
      BY <3>1, <2>1
    <3>3. p + 0 = p
      OBVIOUS
    <3> QED BY <3>1, <3>2, <3>3
  <2> QED BY <2>3
<1>5. IsSum(k)
  <2> HIDE DEF h
  <2> QED BY <1>4
<1> HIDE DEF k, h
<1>6. {p} \ {AnyOf({p})} = {} /\ {p} \in SUBSET {p} /\ {} \in SUBSET {p} /\ {p} # {}
  BY <1>2
<1>7. k[{p}] = p + k[{}]
  BY <1>2, <1>5, <1>6
<1>8. k[{}] = 0
  BY <1>5, <1>6
<1> QED BY <1>1, <1>7, <1>8

VariantRows == [VariantIDs -> {{}} \cup {{s} : s \in Shapes}]

\* Shares are numbers.
LEMMA PctType ==
  ASSUME NEW vs \in VariantRows, NEW v \in Listed(vs)
  PROVE  Pct(vs, v) \in Int
<1>1. v \in VariantIDs /\ vs[v] # {}
  BY DEF Listed
<1>2. PICK s \in Shapes : vs[v] = {s}
  BY <1>1 DEF VariantRows
<1>3. s.pct \in Int
  BY ExperimentAssumption
<1>4. {x.pct : x \in vs[v]} = {s.pct}
  BY <1>2
<1> QED BY <1>3, <1>4, SumOfOne DEF Pct

\* Fewer variants do not add up to more.
LEMMA TotalGrows ==
  ASSUME NEW vs, NEW S, IsFiniteSet(S), \A v \in S : Pct(vs, v) \in Nat, NEW T \in SUBSET S
  PROVE  /\ Total(vs, T) \in Nat
         /\ Total(vs, T) <= Total(vs, S)
<1> DEFINE Good(s) == Total(vs, s) \in Nat /\ \A t \in SUBSET s : Total(vs, t) \in Nat /\ Total(vs, t) <= Total(vs, s)
           bad == {n \in Nat : \E s \in SUBSET S : Cardinality(s) = n /\ ~Good(s)}
<1>1. \A s \in SUBSET S : IsFiniteSet(s) /\ Cardinality(s) \in Nat
  BY FS_Subset, FS_CardinalityType
<1>2. bad = {}
  <2> SUFFICES ASSUME bad # {} PROVE FALSE OBVIOUS
  <2>1. bad \in SUBSET Nat OBVIOUS
  <2>2. PICK n \in bad : \A m \in bad : n <= m
    <3> HIDE DEF bad
    <3> QED BY <2>1, LeastNat
  <2>3. PICK s \in SUBSET S : Cardinality(s) = n /\ ~Good(s)
    BY <2>2
  <2>4. IsFiniteSet(s) /\ n \in Nat
    BY <1>1, <2>3
  <2>5. \A r \in SUBSET s : r # s => Good(r)
    <3> SUFFICES ASSUME NEW r \in SUBSET s, r # s, ~Good(r) PROVE FALSE OBVIOUS
    <3>1. Cardinality(r) <= n /\ Cardinality(r) # n
      BY <2>3, <2>4, FS_Subset
    <3>2. Cardinality(r) \in Nat /\ r \in SUBSET S
      BY <1>1
    <3>3. Cardinality(r) \in bad
      BY <3>2
    <3> HIDE DEF bad
    <3> QED BY <2>2, <2>4, <3>1, <3>2, <3>3
  <2>6. Total(vs, s) \in Int /\ \A v \in s : Total(vs, s) = Pct(vs, v) + Total(vs, s \ {v})
    BY <2>4, TotalSplits
  <2>7. Total(vs, s) \in Nat
    <3>1. CASE s = {}
      BY <3>1, TotalEmpty
    <3>2. CASE s # {}
      <4>1. PICK v \in s : TRUE
        BY <3>2
      <4>2. s \ {v} \in SUBSET s /\ s \ {v} # s
        BY <4>1
      <4>3. Total(vs, s \ {v}) \in Nat
        BY <4>2, <2>5
      <4>4. Total(vs, s) = Pct(vs, v) + Total(vs, s \ {v}) /\ Pct(vs, v) \in Nat
        BY <2>6, <4>1
      <4> QED BY <4>3, <4>4
    <3> QED BY <3>1, <3>2
  <2>8. ASSUME NEW t \in SUBSET s PROVE Total(vs, t) \in Nat /\ Total(vs, t) <= Total(vs, s)
    <3>1. CASE t = s
      BY <3>1, <2>7
    <3>2. CASE t # s
      <4>1. PICK v \in s : v \notin t
        BY <3>2
      <4>2. s \ {v} \in SUBSET s /\ s \ {v} # s /\ t \in SUBSET (s \ {v})
        BY <4>1
      <4>3. Total(vs, s \ {v}) \in Nat /\ Total(vs, t) \in Nat /\ Total(vs, t) <= Total(vs, s \ {v})
        BY <4>2, <2>5
      <4>4. Total(vs, s) = Pct(vs, v) + Total(vs, s \ {v}) /\ Pct(vs, v) \in Nat
        BY <2>6, <4>1
      <4> QED BY <4>3, <4>4
    <3> QED BY <3>1, <3>2
  <2> QED BY <2>3, <2>7, <2>8
<1>3. Cardinality(S) \in Nat /\ S \in SUBSET S
  BY <1>1
<1>4. Good(S)
  BY <1>2, <1>3
<1> QED BY <1>4

\* A finite set of identifiers has a bound.
LEMMA Bounded ==
  ASSUME NEW S \in SUBSET Nat, IsFiniteSet(S)
  PROVE  \E k \in Nat : \A v \in S : v < k
<1> DEFINE Good(s) == \E k \in Nat : \A v \in s : v < k
           bad == {n \in Nat : \E s \in SUBSET S : Cardinality(s) = n /\ ~Good(s)}
<1>1. \A s \in SUBSET S : IsFiniteSet(s) /\ Cardinality(s) \in Nat
  BY FS_Subset, FS_CardinalityType
<1>2. bad = {}
  <2> SUFFICES ASSUME bad # {} PROVE FALSE OBVIOUS
  <2>1. bad \in SUBSET Nat OBVIOUS
  <2>2. PICK n \in bad : \A m \in bad : n <= m
    <3> HIDE DEF bad
    <3> QED BY <2>1, LeastNat
  <2>3. PICK s \in SUBSET S : Cardinality(s) = n /\ ~Good(s)
    BY <2>2
  <2>4. IsFiniteSet(s) /\ n \in Nat
    BY <1>1, <2>3
  <2>5. PICK v \in s : TRUE
    BY <2>3
  <2> DEFINE r == s \ {v}
  <2>6. Cardinality(r) = n - 1 /\ r \in SUBSET S
    BY <2>3, <2>4, <2>5, FS_RemoveElement
  <2>7. Cardinality(r) \in Nat
    BY <1>1, <2>6
  <2>8. Good(r)
    <3> SUFFICES ASSUME ~Good(r) PROVE FALSE OBVIOUS
    <3>1. Cardinality(r) \in bad
      BY <2>6, <2>7
    <3> HIDE DEF bad, r
    <3> QED BY <3>1, <2>2, <2>4, <2>6, <2>7
  <2>9. PICK k \in Nat : \A w \in r : w < k
    BY <2>8
  <2>10. v \in Nat
    BY <2>5
  <2> DEFINE l == IF v < k THEN k ELSE v + 1
  <2>11. l \in Nat /\ \A w \in s : w < l
    BY <2>9, <2>10
  <2> HIDE DEF l
  <2> QED BY <2>3, <2>11
<1>3. Cardinality(S) \in Nat /\ S \in SUBSET S
  BY <1>1
<1>4. Good(S)
  BY <1>2, <1>3
<1> QED BY <1>4

-----------------------------------------------------------------------------
\* The percentages of the variants below an identifier.
Below(vs, k) == Total(vs, {w \in Listed(vs) : w < k})

\* The sum below k grows by the share of k, and never past the whole.
LEMMA BelowSteps ==
  ASSUME NEW vs \in VariantRows, Allocates(vs), NEW k \in Nat
  PROVE  /\ Below(vs, k) \in Nat /\ Below(vs, k) <= Whole
         /\ Below(vs, 0) = 0
         /\ k \notin Listed(vs) => Below(vs, k + 1) = Below(vs, k)
         /\ k \in Listed(vs) =>
              /\ Pct(vs, k) \in Nat
              /\ Cumulative(vs, k) = Below(vs, k) + Pct(vs, k)
              /\ Below(vs, k + 1) = Cumulative(vs, k)
<1> DEFINE L == Listed(vs)
           under == {w \in L : w < k}
           upto == {w \in L : w <= k}
<1>1. L \in SUBSET Nat /\ IsFiniteSet(L)
  <2>1. L \in SUBSET VariantIDs
    BY DEF Listed
  <2> QED BY <2>1, ExperimentAssumption, FS_Subset
<1>2. \A v \in L : Pct(vs, v) \in Nat /\ v \in Nat
  BY <1>1, ExperimentAssumption DEF Allocates
<1>3. Total(vs, L) = Whole
  BY DEF Allocates
<1>4. under \in SUBSET L /\ upto \in SUBSET L
  OBVIOUS
<1> HIDE DEF L
<1>5. Below(vs, k) = Total(vs, under) /\ Cumulative(vs, k) = Total(vs, upto)
  BY DEF Below, Cumulative, L
<1>6. Below(vs, k) \in Nat /\ Below(vs, k) <= Whole
  BY <1>1, <1>2, <1>3, <1>4, <1>5, TotalGrows
<1>7. Below(vs, 0) = 0
  <2>1. {w \in L : w < 0} = {}
    BY <1>2
  <2> QED BY <2>1, TotalEmpty DEF Below, L
<1>8. {w \in L : w < k + 1} = upto
  BY <1>2
<1>9. Below(vs, k + 1) = Cumulative(vs, k)
  BY <1>5, <1>8 DEF Below, L
<1>10. ASSUME k \notin L PROVE upto = under
  BY <1>2, <1>10
<1>11. ASSUME k \in L PROVE k \in upto /\ upto \ {k} = under
  <2>1. \A w \in L : w <= k /\ w # k <=> w < k
    BY <1>2
  <2>2. k <= k
    OBVIOUS
  <2> QED BY <1>11, <2>1, <2>2
<1>12. ASSUME k \in L PROVE Cumulative(vs, k) = Below(vs, k) + Pct(vs, k)
  <2>1. IsFiniteSet(upto) /\ \A v \in upto : Pct(vs, v) \in Int
    BY <1>1, <1>2, <1>4, FS_Subset
  <2>2. k \in upto /\ upto \ {k} = under
    BY <1>11, <1>12
  <2> HIDE DEF upto, under
  <2>3. \A v \in upto : Total(vs, upto) = Pct(vs, v) + Total(vs, upto \ {v})
    BY <2>1, TotalSplits
  <2>4. Pct(vs, k) \in Nat
    BY <1>2, <1>12
  <2>5. Total(vs, upto) = Pct(vs, k) + Total(vs, under)
    BY <2>2, <2>3
  <2> QED BY <2>4, <2>5, <1>5, <1>6
<1> QED BY <1>2, <1>5, <1>6, <1>7, <1>9, <1>10, <1>12 DEF L

\* A bucket below a sum is reached by one of the variants in it.
LEMMA BelowReached ==
  ASSUME NEW vs \in VariantRows, Allocates(vs), NEW b \in Nat, NEW k \in Nat, b < Below(vs, k)
  PROVE  \E w \in Listed(vs) : w < k /\ Reaches(vs, w, b)
<1> DEFINE Good(n) == b < Below(vs, n) => \E w \in Listed(vs) : w < n /\ Reaches(vs, w, b)
           bad == {n \in Nat : ~Good(n)}
<1>1. bad = {}
  <2> SUFFICES ASSUME bad # {} PROVE FALSE OBVIOUS
  <2>1. bad \in SUBSET Nat OBVIOUS
  <2>2. PICK n \in bad : \A m \in bad : n <= m
    <3> HIDE DEF bad
    <3> QED BY <2>1, LeastNat
  <2>3. n \in Nat /\ b < Below(vs, n) /\ ~\E w \in Listed(vs) : w < n /\ Reaches(vs, w, b)
    BY <2>2
  <2>4. n # 0
    <3>1. Below(vs, 0) = 0
      BY BelowSteps
    <3> QED BY <2>3, <3>1
  <2> DEFINE m == n - 1
  <2>5. m \in Nat /\ n = m + 1
    BY <2>3, <2>4
  <2>6. m \notin bad
    <3> HIDE DEF bad
    <3> QED BY <2>1, <2>2, <2>5
  <2> HIDE DEF m
  <2>7. Good(m)
    BY <2>5, <2>6
  <2>8. /\ Below(vs, m) \in Nat
        /\ m \notin Listed(vs) => Below(vs, n) = Below(vs, m)
        /\ m \in Listed(vs) => /\ Pct(vs, m) \in Nat
                               /\ Cumulative(vs, m) = Below(vs, m) + Pct(vs, m)
                               /\ Below(vs, n) = Cumulative(vs, m)
    BY <2>5, BelowSteps
  <2>9. ~(b < Below(vs, m))
    <3> SUFFICES ASSUME b < Below(vs, m) PROVE FALSE OBVIOUS
    <3>1. PICK w \in Listed(vs) : w < m /\ Reaches(vs, w, b)
      BY <2>7
    <3>2. w \in Nat
      BY <3>1, ExperimentAssumption DEF Listed
    <3>3. w < n
      BY <3>1, <3>2, <2>5
    <3> QED BY <3>1, <3>3, <2>3
  <2>10. m \in Listed(vs)
    BY <2>3, <2>8, <2>9
  <2>11. Pct(vs, m) # 0 /\ b < Cumulative(vs, m)
    BY <2>3, <2>8, <2>9, <2>10
  <2>12. Reaches(vs, m, b)
    BY <2>11 DEF Reaches
  <2> QED BY <2>3, <2>5, <2>10, <2>12
<1> QED BY <1>1

\* Sums do not fall.
LEMMA CumulativeBelow ==
  ASSUME NEW vs \in VariantRows, Allocates(vs), NEW w \in Listed(vs), NEW v \in Nat, w < v
  PROVE  Cumulative(vs, w) \in Nat /\ Cumulative(vs, w) <= Below(vs, v)
<1> DEFINE L == Listed(vs)
           upto == {u \in L : u <= w}
           under == {u \in L : u < v}
<1>1. L \in SUBSET Nat /\ IsFiniteSet(L) /\ w \in Nat
  <2>1. L \in SUBSET VariantIDs /\ w \in L
    BY DEF Listed
  <2> QED BY <2>1, ExperimentAssumption, FS_Subset
<1>2. \A u \in L : Pct(vs, u) \in Nat /\ u \in Nat
  BY <1>1, ExperimentAssumption DEF Allocates
<1> HIDE DEF L
<1>3. upto \in SUBSET under /\ under \in SUBSET L
  <2>1. \A u \in L : u <= w => u < v
    BY <1>1, <1>2
  <2> QED BY <2>1
<1>4. IsFiniteSet(under) /\ \A u \in under : Pct(vs, u) \in Nat
  BY <1>1, <1>2, <1>3, FS_Subset
<1>5. Cumulative(vs, w) = Total(vs, upto) /\ Below(vs, v) = Total(vs, under)
  BY DEF Cumulative, Below, L
<1> HIDE DEF upto, under
<1> QED BY <1>3, <1>4, <1>5, TotalGrows

\* The buckets of a variant are an interval.
LEMMA SelectedInterval ==
  ASSUME NEW vs \in VariantRows, Allocates(vs), NEW v \in Listed(vs), NEW b \in Nat
  PROVE  v \in Selected(vs, b) <=> Below(vs, v) <= b /\ b < Below(vs, v) + Pct(vs, v)
<1>1. v \in Nat
  BY ExperimentAssumption DEF Listed
<1>2. Below(vs, v) \in Nat /\ Pct(vs, v) \in Nat /\ Cumulative(vs, v) = Below(vs, v) + Pct(vs, v)
  BY <1>1, BelowSteps
<1>3. ASSUME v \in Selected(vs, b) PROVE Below(vs, v) <= b /\ b < Below(vs, v) + Pct(vs, v)
  <2>1. Reaches(vs, v, b) /\ \A w \in Listed(vs) : w < v => ~Reaches(vs, w, b)
    BY <1>3 DEF Selected
  <2>2. ~(b < Below(vs, v))
    BY <2>1, <1>1, BelowReached
  <2> QED BY <2>1, <2>2, <1>2 DEF Reaches
<1>4. ASSUME Below(vs, v) <= b, b < Below(vs, v) + Pct(vs, v) PROVE v \in Selected(vs, b)
  <2>1. Reaches(vs, v, b)
    BY <1>2, <1>4 DEF Reaches
  <2>2. ASSUME NEW w \in Listed(vs), w < v PROVE ~Reaches(vs, w, b)
    <3>1. Cumulative(vs, w) \in Nat /\ Cumulative(vs, w) <= Below(vs, v)
      BY <2>2, <1>1, CumulativeBelow
    <3> QED BY <3>1, <1>2, <1>4 DEF Reaches
  <2> QED BY <2>1, <2>2 DEF Selected
<1> QED BY <1>3, <1>4

\* Variants whose shares add up to the whole divide the buckets among them: each
\* bucket selects one, and each variant has as many as its share.
LEMMA SharesHold ==
  ASSUME variants \in VariantRows
  PROVE  SharesExact
<1> SUFFICES ASSUME Allocates(variants)
             PROVE  /\ \A b \in 0..(Whole - 1) : Cardinality(Selected(variants, b)) = 1
                    /\ \A v \in Listed(variants) :
                         Cardinality({b \in 0..(Whole - 1) : v \in Selected(variants, b)}) = Pct(variants, v)
  BY DEF SharesExact
<1>0. Whole \in Nat
  BY ExperimentAssumption
<1>1. ASSUME NEW b \in 0..(Whole - 1) PROVE Cardinality(Selected(variants, b)) = 1
  <2> DEFINE L == Listed(variants)
             R == {w \in L : Reaches(variants, w, b)}
  <2>1. L \in SUBSET Nat /\ IsFiniteSet(L)
    <3>1. L \in SUBSET VariantIDs
      BY DEF Listed
    <3> QED BY <3>1, ExperimentAssumption, FS_Subset
  <2>2. PICK k \in Nat : \A v \in L : v < k
    <3> HIDE DEF L
    <3> QED BY <2>1, Bounded
  <2>3. {w \in L : w < k} = L
    BY <2>2
  <2>4. Below(variants, k) = Whole
    BY <2>3 DEF Below, Allocates
  <2>5. b \in Nat /\ b < Below(variants, k)
    BY <2>4, <1>0
  <2>6. R # {} /\ R \in SUBSET Nat
    BY <2>1, <2>5, BelowReached
  <2>7. PICK v \in R : \A w \in R : v <= w
    <3> HIDE DEF R
    <3> QED BY <2>6, LeastNat
  <2>8. Selected(variants, b) = {v}
    <3>1. \A w \in R : w \in Nat
      BY <2>1
    <3>2. v \in Selected(variants, b)
      BY <2>7, <3>1 DEF Selected
    <3>3. ASSUME NEW w \in Selected(variants, b) PROVE w = v
      <4>1. w \in R /\ ~(v < w)
        BY <2>7 DEF Selected
      <4> QED BY <4>1, <2>7, <3>1
    <3> QED BY <3>2, <3>3
  <2> QED BY <2>8, FS_Singleton
<1>2. ASSUME NEW v \in Listed(variants)
      PROVE  Cardinality({b \in 0..(Whole - 1) : v \in Selected(variants, b)}) = Pct(variants, v)
  <2> DEFINE low == Below(variants, v)
             p == Pct(variants, v)
  <2>1. v \in Nat /\ v + 1 \in Nat
    BY ExperimentAssumption DEF Listed
  <2>2. low \in Nat /\ p \in Nat /\ low + p = Below(variants, v + 1)
    BY <2>1, BelowSteps
  <2>3. Below(variants, v + 1) <= Whole
    BY <2>1, BelowSteps
  <2>4. \A b \in Nat : v \in Selected(variants, b) <=> low <= b /\ b < low + p
    BY SelectedInterval
  <2> HIDE DEF low, p
  <2>5. {b \in 0..(Whole - 1) : v \in Selected(variants, b)} = low..(low + p - 1)
    BY <2>2, <2>3, <2>4, <1>0
  <2> DEFINE top == low + p - 1
  <2>6. low \in Int /\ top \in Int /\ top - low + 1 = p /\ (low > top <=> p = 0)
    BY <2>2
  <2>7. low..(low + p - 1) = low..top
    OBVIOUS
  <2> HIDE DEF top
  <2>8. Cardinality(low..top) = IF low > top THEN 0 ELSE top - low + 1
    BY <2>6, FS_Interval
  <2>9. Cardinality(low..top) = p
    BY <2>2, <2>6, <2>8
  <2> QED BY <2>5, <2>7, <2>9 DEF p
<1> QED BY <1>1, <1>2

-----------------------------------------------------------------------------
Requests ==
    [kind : {"none", "status", "rename", "variant"},
     pc : {"idle", "list", "update", "write", "invalidate", "edit"},
     seen : Statuses, to : Statuses, basis : SUBSET VariantRows]

\* A request about to write the status "running" has validated the variants it
\* names, and one about to write a variant has seen a draft.
Checked(m) ==
    /\ m.pc = "write" /\ m.to = "running" => \E vs \in m.basis : Allocates(vs)
    /\ \A vs, ws \in m.basis : vs = ws
    /\ m.pc = "edit" => m.seen = "draft"

RequestsChecked ==
    /\ manage \in [Managers -> Requests]
    /\ \A a \in Managers : Checked(manage[a])

StatusChecked ==
    /\ expStatus \in Statuses
    /\ variants \in VariantRows
    /\ asked \in 0..MaxRequests
    /\ RunningAllocates

\* What a reader holds, and what it stored, was read since the last Invalidate.
RouterInv ==
    /\ filling \in {"free", "locked", "running", "none"}
    /\ entry = {} \/ entry = {TRUE} \/ entry = {FALSE}
    /\ entry \subseteq since
    /\ expStatus = "running" => TRUE \in since
    /\ expStatus # "running" => FALSE \in since
    /\ filling = "running" => TRUE \in since
    /\ filling = "none" => FALSE \in since

ExpInv == RequestsChecked /\ StatusChecked /\ RouterInv

\* A request moves on or ends.
LEMMA RequestSet ==
  ASSUME RequestsChecked, NEW a \in Managers, NEW r \in Requests, Checked(r),
         manage' = [manage EXCEPT ![a] = r]
  PROVE  RequestsChecked'
<1>1. manage' \in [Managers -> Requests]
  BY DEF RequestsChecked
<1>2. ASSUME NEW b \in Managers PROVE Checked(manage[b])'
  <2>1. CASE b = a
    BY <2>1 DEF RequestsChecked, Checked
  <2>2. CASE b # a
    <3>1. manage'[b] = manage[b]
      BY <2>2 DEF RequestsChecked
    <3> QED BY <3>1 DEF RequestsChecked, Checked
  <2> QED BY <2>1, <2>2
<1> QED BY <1>1, <1>2 DEF RequestsChecked

\* A request that ends.
LEMMA RequestEnds ==
  ASSUME RequestsChecked, NEW a \in Managers, Ended(a)
  PROVE  RequestsChecked'
<1>1. NoRequest \in Requests
  BY DEF NoRequest, Requests, Statuses
<1>2. Checked(NoRequest)
  BY DEF NoRequest, Checked
<1>3. manage' = [manage EXCEPT ![a] = NoRequest]
  BY DEF Ended
<1> QED BY <1>1, <1>2, <1>3, RequestSet

\* A request that goes on with what it holds.
LEMMA RequestGoes ==
  ASSUME RequestsChecked, NEW a \in Managers, NEW pc \in {"update", "invalidate"}, Going(a, pc)
  PROVE  RequestsChecked'
<1> DEFINE r == [manage[a] EXCEPT !.pc = pc]
<1>1. manage[a] \in Requests /\ Checked(manage[a]) /\ manage \in [Managers -> Requests]
  BY DEF RequestsChecked
<1>2. r \in Requests /\ r.pc = pc /\ r.basis = manage[a].basis
  BY <1>1 DEF Requests
<1>3. Checked(r)
  BY <1>1, <1>2 DEF Checked
<1>4. manage' = [manage EXCEPT ![a] = r]
  BY <1>1 DEF Going
<1> HIDE DEF r
<1> QED BY <1>2, <1>3, <1>4, RequestSet

\* A new experiment.
LEMMA ExpInitInv == ExpInit => ExpInv
<1> SUFFICES ASSUME ExpInit PROVE ExpInv OBVIOUS
<1>1. NoRequest \in Requests
  BY DEF NoRequest, Requests, Statuses
<1>2. Checked(NoRequest)
  BY DEF NoRequest, Checked
<1>3. RequestsChecked
  BY <1>1, <1>2 DEF ExpInit, RequestsChecked
<1>4. variants \in VariantRows
  BY DEF ExpInit, VariantRows
<1>5. asked \in 0..MaxRequests
  BY ExperimentAssumption DEF ExpInit
<1>6. StatusChecked
  BY <1>4, <1>5 DEF ExpInit, StatusChecked, Statuses, RunningAllocates
<1>7. RouterInv
  BY DEF ExpInit, RouterInv
<1> QED BY <1>3, <1>6, <1>7 DEF ExpInv

\* A request begins with the status it read.
LEMMA BeginInv ==
  ASSUME ExpInv, NEW a \in Managers, NEW to \in Statuses,
         NEW kind \in {"status", "rename", "variant"}, NEW pc \in {"list", "update", "edit"},
         pc = "edit" => expStatus = "draft", Begin(a, kind, pc, to)
  PROVE  ExpInv'
<1> DEFINE r == [kind |-> kind, pc |-> pc, seen |-> expStatus, to |-> to, basis |-> {}]
<1>1. r \in Requests
  BY DEF ExpInv, StatusChecked, Requests
<1>2. Checked(r)
  BY DEF Checked
<1>3. manage' = [manage EXCEPT ![a] = r]
  BY DEF Begin
<1> HIDE DEF r
<1>4. RequestsChecked'
  BY <1>1, <1>2, <1>3, RequestSet DEF ExpInv
<1>5. asked' \in 0..MaxRequests
  BY ExperimentAssumption DEF Begin, ExpInv, StatusChecked
<1>6. UNCHANGED <<expStatus, variants, entry, filling, since, straddled, crossed>>
  BY DEF Begin
<1> QED BY <1>4, <1>5, <1>6 DEF ExpInv, StatusChecked, RouterInv, RunningAllocates

\* UpdateExperiment validates: a request that will write "running" goes on only
\* if the variants allocate the whole.
LEMMA ValidateVariantsInv ==
  ASSUME ExpInv, NEW a \in Managers, ValidateRunning(a)
  PROVE  ExpInv'
<1>1. UNCHANGED <<expStatus, variants, entry, filling, asked, since, straddled, crossed>>
  BY DEF ValidateRunning
<1>2. CASE manage[a].to = "running" /\ ~Allocates(variants)
  <2>1. RequestsChecked'
    BY <1>2, RequestEnds DEF ValidateRunning, ExpInv
  <2> QED BY <2>1, <1>1 DEF ExpInv, StatusChecked, RouterInv, RunningAllocates
<1>3. CASE ~(manage[a].to = "running" /\ ~Allocates(variants))
  <2> DEFINE basis == IF manage[a].to = "running" THEN {variants} ELSE {}
             r == [manage[a] EXCEPT !.pc = "write", !.basis = basis]
  <2>1. manage[a] \in Requests /\ manage \in [Managers -> Requests] /\ variants \in VariantRows
    BY DEF ExpInv, RequestsChecked, StatusChecked
  <2>2. manage' = [manage EXCEPT ![a].pc = "write", ![a].basis = basis]
    BY <1>3 DEF ValidateRunning
  <2>3. basis \in SUBSET VariantRows /\ (\A vs, ws \in basis : vs = ws)
        /\ (manage[a].to = "running" => \E vs \in basis : Allocates(vs))
    BY <1>3, <2>1
  <2> HIDE DEF basis
  <2>4. manage' = [manage EXCEPT ![a] = r]
    BY <2>1, <2>2
  <2>5. r \in Requests /\ r.pc = "write" /\ r.basis = basis /\ r.to = manage[a].to
    BY <2>1, <2>3 DEF Requests
  <2>6. Checked(r)
    BY <2>3, <2>5 DEF Checked
  <2> HIDE DEF r
  <2>7. RequestsChecked'
    BY <2>4, <2>5, <2>6, RequestSet DEF ExpInv
  <2> QED BY <2>7, <1>1 DEF ExpInv, StatusChecked, RouterInv, RunningAllocates
<1> QED BY <1>2, <1>3

\* The status is written: to "running" with the variants that were validated, or
\* the write straddles a change of them.
LEMMA WriteExperimentInv ==
  ASSUME ExpInv, NEW a \in Managers, WriteExperiment(a)
  PROVE  ExpInv'
<1>1. /\ manage[a].pc = "write" /\ StatusBecomes(manage[a].to)
      /\ straddled' = (straddled \/ \E vs \in manage[a].basis : vs # variants)
      /\ variants' = variants /\ entry' = entry /\ filling' = filling /\ asked' = asked
  BY DEF WriteExperiment
<1>2. manage[a] \in Requests /\ Checked(manage[a])
  BY DEF ExpInv, RequestsChecked
<1>3. expStatus' = manage[a].to /\ since' = since \cup {manage[a].to = "running"}
  BY <1>1 DEF StatusBecomes
<1>4. RequestsChecked'
  <2>1. CASE manage[a].kind = "status"
    BY <2>1, RequestGoes DEF WriteExperiment, ExpInv
  <2>2. CASE manage[a].kind # "status"
    BY <2>2, RequestEnds DEF WriteExperiment, ExpInv
  <2> QED BY <2>1, <2>2
<1>5. RunningAllocates'
  <2> SUFFICES ASSUME manage[a].to = "running", ~straddled' PROVE Allocates(variants)'
    BY <1>3 DEF RunningAllocates
  <2>1. PICK vs \in manage[a].basis : Allocates(vs)
    BY <1>1, <1>2 DEF Checked
  <2>2. vs = variants
    BY <1>1, <2>1
  <2>3. Allocates(variants)
    BY <2>1, <2>2
  <2> QED BY <2>3, <1>1
<1>6. StatusChecked'
  BY <1>1, <1>2, <1>3, <1>5 DEF ExpInv, StatusChecked, Requests
<1>7. RouterInv'
  <2>1. manage[a].to = "running" => (manage[a].to = "running") = TRUE
    OBVIOUS
  <2>2. manage[a].to # "running" => (manage[a].to = "running") = FALSE
    OBVIOUS
  <2>3. /\ manage[a].to = "running" => TRUE \in since'
        /\ manage[a].to # "running" => FALSE \in since'
        /\ since \subseteq since'
    BY <1>3, <2>1, <2>2
  <2> QED BY <2>3, <1>1, <1>3 DEF ExpInv, RouterInv
<1> QED BY <1>4, <1>6, <1>7 DEF ExpInv

\* Invalidate drops the entry, and what was read before it.
LEMMA InvalidateInv ==
  ASSUME ExpInv, NEW a \in Managers, InvalidateRouter(a)
  PROVE  ExpInv'
<1>1. /\ entry' = {} /\ filling = "free" /\ filling' = filling
      /\ since' = {expStatus = "running"} /\ expStatus' = expStatus
  BY DEF InvalidateRouter
<1>2. RequestsChecked'
  BY RequestEnds DEF InvalidateRouter, ExpInv
<1>3. RouterInv'
  <2>1. expStatus = "running" => (expStatus = "running") = TRUE
    OBVIOUS
  <2>2. expStatus # "running" => (expStatus = "running") = FALSE
    OBVIOUS
  <2> QED BY <1>1, <2>1, <2>2 DEF RouterInv
<1> QED BY <1>2, <1>3 DEF InvalidateRouter, ExpInv, StatusChecked, RunningAllocates

\* A variant is written while the experiment is a draft, or the write straddles a
\* change of the status.
LEMMA WriteVariantInv ==
  ASSUME ExpInv, NEW a \in Managers, WriteVariant(a)
  PROVE  ExpInv'
<1>1. /\ manage[a].pc = "edit"
      /\ straddled' = (straddled \/ (manage[a].seen = "draft" /\ expStatus # "draft"))
      /\ UNCHANGED <<expStatus, entry, filling, asked, since>>
  BY DEF WriteVariant
<1>2. RequestsChecked'
  BY RequestEnds DEF WriteVariant, ExpInv
<1>3. manage[a].seen = "draft"
  BY <1>1 DEF ExpInv, RequestsChecked, Checked
<1>4. variants' \in VariantRows
  BY DEF WriteVariant, AddVariant, UpdateVariant, DeleteVariant, VariantRows, ExpInv, StatusChecked
<1>5. RunningAllocates'
  BY <1>1, <1>3 DEF RunningAllocates
<1> QED BY <1>1, <1>2, <1>4, <1>5 DEF ExpInv, StatusChecked, RouterInv

\* A variant is written under another experiment: while its own is a draft, or
\* past the draft, which is recorded.
LEMMA WriteForeignInv ==
  ASSUME ExpInv, WriteForeign
  PROVE  ExpInv'
<1>1. /\ asked < MaxRequests /\ asked' = asked + 1 /\ crossed' = (crossed \/ expStatus # "draft")
      /\ UNCHANGED <<expStatus, manage, entry, filling, since, straddled>>
  BY DEF WriteForeign
<1>2. RequestsChecked'
  BY <1>1 DEF ExpInv, RequestsChecked, Checked
<1>3. variants' \in VariantRows
  BY DEF WriteForeign, UpdateVariant, DeleteVariant, VariantRows, ExpInv, StatusChecked
<1>4. asked' \in 0..MaxRequests
  BY <1>1, ExperimentAssumption DEF ExpInv, StatusChecked
<1>5. RunningAllocates'
  BY <1>1 DEF RunningAllocates
<1> QED BY <1>1, <1>2, <1>3, <1>4, <1>5 DEF ExpInv, StatusChecked, RouterInv

\* The router reads and stores under its lock.
LEMMA RouterStepInv ==
  ASSUME ExpInv, LockRouter \/ ReadRunning \/ StoreEntry \/ FillFails \/ EntryExpires
  PROVE  ExpInv'
<1>1. UNCHANGED <<expStatus, variants, manage, asked, since, straddled, crossed>>
  BY DEF LockRouter, ReadRunning, StoreEntry, FillFails, EntryExpires
<1>2. RequestsChecked' /\ StatusChecked'
  BY <1>1 DEF ExpInv, RequestsChecked, Checked, StatusChecked, RunningAllocates
<1>3. CASE LockRouter
  BY <1>1, <1>2, <1>3 DEF LockRouter, ExpInv, RouterInv
<1>4. CASE ReadRunning
  BY <1>1, <1>2, <1>4 DEF ReadRunning, ExpInv, RouterInv
<1>5. CASE StoreEntry
  <2>1. filling = "running" => (filling = "running") = TRUE
    OBVIOUS
  <2>2. filling # "running" => (filling = "running") = FALSE
    OBVIOUS
  <2>3. \/ filling = "running" /\ entry' = {TRUE}
        \/ filling = "none" /\ entry' = {FALSE}
    BY <1>5, <2>1, <2>2 DEF StoreEntry
  <2>4. filling' = "free"
    BY <1>5 DEF StoreEntry
  <2> QED BY <1>1, <1>2, <2>3, <2>4 DEF ExpInv, RouterInv
<1>6. CASE FillFails
  BY <1>1, <1>2, <1>6 DEF FillFails, ExpInv, RouterInv
<1>7. CASE EntryExpires
  BY <1>1, <1>2, <1>7 DEF EntryExpires, ExpInv, RouterInv
<1> QED BY <1>3, <1>4, <1>5, <1>6, <1>7

\* Every step keeps the invariant.
LEMMA ExpStepInv ==
  ASSUME ExpInv, [ExpNext]_expVars
  PROVE  ExpInv'
<1>1. ASSUME NEW a \in Managers, BeginStatus(a) PROVE ExpInv'
  <2>1. PICK to \in Targets \ {expStatus} : Begin(a, "status", "list", to)
    BY <1>1 DEF BeginStatus
  <2>2. to \in Statuses
    BY ExperimentAssumption
  <2> QED BY <2>1, <2>2, BeginInv
<1>2. ASSUME NEW a \in Managers, BeginRename(a) PROVE ExpInv'
  <2>1. expStatus \in Statuses
    BY DEF ExpInv, StatusChecked
  <2> QED BY <1>2, <2>1, BeginInv DEF BeginRename
<1>3. ASSUME NEW a \in Managers, BeginVariant(a) PROVE ExpInv'
  <2>1. expStatus \in Statuses
    BY DEF ExpInv, StatusChecked
  <2> QED BY <1>3, <2>1, BeginInv DEF BeginVariant
<1>4. ASSUME NEW a \in Managers, ListForStatus(a) PROVE ExpInv'
  <2>1. RequestsChecked'
    <3>1. Ended(a) \/ Going(a, "update")
      BY <1>4 DEF ListForStatus
    <3> QED BY <3>1, RequestEnds, RequestGoes DEF ExpInv
  <2> QED BY <1>4, <2>1 DEF ListForStatus, ExpInv, StatusChecked, RouterInv, RunningAllocates
<1>5. ASSUME NEW a \in Managers, RequestFails(a) PROVE ExpInv'
  <2>1. RequestsChecked'
    BY <1>5, RequestEnds DEF RequestFails, ExpInv
  <2> QED BY <1>5, <2>1 DEF RequestFails, ExpInv, StatusChecked, RouterInv, RunningAllocates
<1>6. CASE UNCHANGED expVars
  BY <1>6 DEF expVars, ExpInv, RequestsChecked, Checked, StatusChecked, RouterInv, RunningAllocates
<1> QED BY <1>1, <1>2, <1>3, <1>4, <1>5, <1>6, ValidateVariantsInv, WriteExperimentInv, InvalidateInv,
       WriteVariantInv, WriteForeignInv, RouterStepInv DEF ExpNext

\* The invariant says what a run checks.
LEMMA ExpInvSound == ExpInv => ExperimentRoutable
<1> SUFFICES ASSUME ExpInv PROVE ExperimentRoutable OBVIOUS
<1>1. \A a \in Managers : manage[a] \in Requests
  BY DEF ExpInv, RequestsChecked
<1>2. entry \in SUBSET BOOLEAN /\ Cardinality(entry) <= 1
  <2>1. Cardinality({}) = 0 /\ Cardinality({TRUE}) = 1 /\ Cardinality({FALSE}) = 1
    BY FS_EmptySet, FS_Singleton
  <2>2. Cardinality(entry) = 0 \/ Cardinality(entry) = 1
    BY <2>1 DEF ExpInv, RouterInv
  <2>3. Cardinality(entry) <= 1
    BY <2>2
  <2>4. entry \in SUBSET BOOLEAN
    BY DEF ExpInv, RouterInv
  <2> QED BY <2>3, <2>4
<1>3. ExpTypeOK
  BY <1>1, <1>2 DEF ExpInv, StatusChecked, RouterInv, ExpTypeOK, Requests, VariantRows
<1>4. RunningAllocates /\ RouterCurrent
  BY DEF ExpInv, StatusChecked, RouterInv, RouterCurrent
<1>5. SharesExact
  BY SharesHold DEF ExpInv, StatusChecked
<1> QED BY <1>3, <1>4, <1>5 DEF ExperimentRoutable

\* ExperimentRoutable for any managers, requests, variants and shares: a running
\* experiment's variants allocate the whole unless a write fell between another
\* request's check and its write, or a variant was changed or deleted under
\* another experiment while its own was no draft; of variants that do, each is selected for
\* as many buckets as its share, and each bucket selects one; and the router's
\* entry was true at some time since the last Invalidate.
THEOREM ExperimentsHold == ExpSpec => []ExperimentRoutable
<1>1. ExpInit => ExpInv
  BY ExpInitInv
<1>2. ExpInv /\ [ExpNext]_expVars => ExpInv'
  BY ExpStepInv
<1>3. ExpInv => ExperimentRoutable
  BY ExpInvSound
<1> QED BY <1>1, <1>2, <1>3, PTL DEF ExpSpec

-----------------------------------------------------------------------------
(* The joins of a query: the tree the search grows, the way back that PathJoins
   climbs, and the clauses emitted in the order of discovery *)

\* A set of numbers up to n can be put in order.
LEMMA OrderExists ==
  ASSUME NEW n \in Nat, NEW S \in SUBSET (1..n)
  PROVE  /\ IsFiniteSet(S) /\ Cardinality(S) \in Nat
         /\ \E s \in [1..Cardinality(S) -> S] :
              \A i, k \in 1..Cardinality(S) : i < k => s[i] < s[k]
<1> DEFINE U(m) == {x \in S : x <= m}
           Good(m) == /\ IsFiniteSet(U(m)) /\ Cardinality(U(m)) \in Nat
                      /\ \E s \in [1..Cardinality(U(m)) -> U(m)] :
                           \A i, k \in 1..Cardinality(U(m)) : i < k => s[i] < s[k]
           bad == {m \in Nat : ~Good(m)}
<1>0. \A x \in S : x \in Nat /\ x >= 1 /\ x <= n
  OBVIOUS
<1>1. bad = {}
  <2> SUFFICES ASSUME bad # {} PROVE FALSE OBVIOUS
  <2>1. bad \in SUBSET Nat OBVIOUS
  <2>2. PICK m \in bad : \A l \in bad : m <= l
    <3> HIDE DEF bad
    <3> QED BY <2>1, LeastNat
  <2>3. m \in Nat /\ ~Good(m)
    BY <2>2
  <2>4. CASE m = 0
    <3>0. \A x \in S : ~(x <= 0)
      BY <1>0
    <3>1. U(0) = {}
      BY <3>0
    <3>2. IsFiniteSet(U(0)) /\ Cardinality(U(0)) = 0
      BY <3>1, FS_EmptySet
    <3> DEFINE s == [i \in 1..0 |-> i]
    <3>3. s \in [1..0 -> U(0)] /\ \A i, k \in 1..0 : i < k => s[i] < s[k]
      OBVIOUS
    <3>4. 0 \in Nat
      OBVIOUS
    <3> HIDE DEF s, U
    <3>5. \E z \in [1..0 -> U(0)] : \A i, k \in 1..0 : i < k => z[i] < z[k]
      BY <3>3
    <3>6. Good(0)
      BY <3>2, <3>4, <3>5
    <3> QED BY <2>3, <2>4, <3>6
  <2>5. CASE m # 0
    <3> DEFINE l == m - 1
    <3>1. l \in Nat /\ m = l + 1
      BY <2>3, <2>5
    <3>2. l \notin bad
      <4> HIDE DEF bad
      <4> QED BY <2>1, <2>2, <3>1
    <3> HIDE DEF l
    <3>3. Good(l)
      BY <3>1, <3>2
    <3>4. CASE m \notin S
      <4>0. \A x \in S : x <= m <=> x <= l
        BY <1>0, <3>1, <3>4
      <4>1. U(m) = U(l)
        BY <4>0
      <4> HIDE DEF U
      <4> QED BY <2>3, <3>3, <4>1
    <3>5. CASE m \in S
      <4>1. U(m) = U(l) \cup {m} /\ m \notin U(l) /\ m \in U(m) /\ \A x \in U(l) : x < m /\ x \in U(m)
        <5>1. \A x \in S : x <= m <=> x <= l \/ x = m
          BY <1>0, <3>1
        <5>2. ~(m <= l) /\ m <= m /\ \A x \in S : x <= l => x < m
          BY <1>0, <3>1
        <5> QED BY <5>1, <5>2, <3>5
      <4> HIDE DEF U
      <4> DEFINE c == Cardinality(U(l))
      <4>2. IsFiniteSet(U(l)) /\ c \in Nat
        BY <3>3
      <4>3. IsFiniteSet(U(m)) /\ Cardinality(U(m)) = c + 1
        BY <4>1, <4>2, FS_AddElement
      <4>4. PICK s \in [1..c -> U(l)] : \A i, k \in 1..c : i < k => s[i] < s[k]
        BY <3>3
      <4> HIDE DEF c
      <4> DEFINE z == [i \in 1..(c + 1) |-> IF i = c + 1 THEN m ELSE s[i]]
      <4>5. \A i \in 1..(c + 1) : i # c + 1 => i \in 1..c
        BY <4>2
      <4>6. z \in [1..(c + 1) -> U(m)]
        BY <4>1, <4>4, <4>5
      <4>7. \A i, k \in 1..(c + 1) : i < k => z[i] < z[k]
        <5> SUFFICES ASSUME NEW i \in 1..(c + 1), NEW k \in 1..(c + 1), i < k
                     PROVE  z[i] < z[k]
          OBVIOUS
        <5>1. i \in 1..c /\ z[i] = s[i]
          BY <4>2, <4>5
        <5>2. CASE k = c + 1
          BY <5>1, <5>2, <4>1, <4>4
        <5>3. CASE k # c + 1
          BY <5>1, <5>3, <4>4, <4>5
        <5> QED BY <5>2, <5>3
      <4> HIDE DEF z
      <4>8. Good(m)
        BY <4>2, <4>3, <4>6, <4>7
      <4> QED BY <2>3, <4>8
    <3> QED BY <3>4, <3>5
  <2> QED BY <2>4, <2>5
<1>2. U(n) = S
  BY <1>0
<1>3. Good(n)
  BY <1>1
<1> HIDE DEF U
<1> QED BY <1>2, <1>3

\* InOrder enumerates a set, each member once.
LEMMA InOrderEnumerates ==
  ASSUME NEW n \in Nat, NEW S \in SUBSET (1..n)
  PROVE  /\ InOrder(S) \in Seq(S)
         /\ \A i, k \in 1..Len(InOrder(S)) : InOrder(S)[i] = InOrder(S)[k] => i = k
         /\ \A j \in S : \E i \in 1..Len(InOrder(S)) : InOrder(S)[i] = j
<1> DEFINE c == Cardinality(S)
           s == InOrder(S)
<1>1. IsFiniteSet(S) /\ c \in Nat
  BY OrderExists
<1>2. s \in [1..c -> S] /\ \A i, k \in 1..c : i < k => s[i] < s[k]
  BY OrderExists DEF InOrder
<1> HIDE DEF c, s
<1>3. s \in Seq(S) /\ Len(s) = c
  BY <1>1, <1>2
<1>4. \A i \in 1..c : s[i] \in Nat
  <2>1. S \subseteq Nat
    OBVIOUS
  <2> QED BY <1>2, <2>1
<1>5. \A i, k \in 1..c : s[i] = s[k] => i = k
  <2> SUFFICES ASSUME NEW i \in 1..c, NEW k \in 1..c, s[i] = s[k], i # k PROVE FALSE OBVIOUS
  <2>1. i < k \/ k < i
    BY <1>1
  <2>2. s[i] < s[k] \/ s[k] < s[i]
    BY <2>1, <1>2
  <2> QED BY <2>2, <1>4
<1>6. s \in Injection(1..c, S)
  BY <1>2, <1>5 DEF Injection, IsInjective
<1>7. Cardinality(1..c) = c /\ Cardinality(S) = c
  <2>1. c \in Int /\ 1 \in Int
    BY <1>1
  <2>2. Cardinality(1..c) = IF 1 > c THEN 0 ELSE c - 1 + 1
    BY <2>1, FS_Interval
  <2>3. Cardinality(1..c) = c
    BY <1>1, <2>2
  <2> QED BY <2>3 DEF c
<1>8. s \in Surjection(1..c, S)
  BY <1>1, <1>6, <1>7, FS_Injection
<1>9. \A j \in S : \E i \in 1..c : s[i] = j
  BY <1>8 DEF Surjection
<1> QED BY <1>3, <1>5, <1>9 DEF s

-----------------------------------------------------------------------------
\* The search as a tree: a table that was reached hangs on the table it was
\* found from by one join.
Reached == DOMAIN parent
Found == Reached \ {Base}
Prev(t) == (CHOOSE e \in parent[t] : TRUE).prev
Via(t) == (CHOOSE e \in parent[t] : TRUE).join

Links(j, u, t) ==
    \/ joins[j].from = u /\ joins[j].to = t
    \/ joins[j].from = t /\ joins[j].to = u

TreeInv ==
    /\ Base \in Reached /\ parent[Base] = {}
    /\ \A t \in Found :
         /\ parent[t] = {[prev |-> Prev(t), join |-> Via(t)]}
         /\ Prev(t) \in Reached
         /\ Via(t) \in 1..Len(joins)
         /\ Links(Via(t), Prev(t), t)
    /\ \A s, t \in Found : Via(s) = Via(t) => s = t
    /\ \A t \in Reached : Connected(t)

\* The joins still to be emitted: each once, each of a table, and after the
\* join of the table it hangs on.
OrderInv ==
    /\ \A k, l \in 1..Len(discovery) : discovery[k] = discovery[l] => k = l
    /\ \A k \in 1..Len(discovery) : \E t \in Found : discovery[k] = Via(t)
    /\ \A t \in Found, k, l \in 1..Len(discovery) :
         Prev(t) # Base /\ discovery[k] = Via(t) /\ discovery[l] = Via(Prev(t)) => l < k

Awaited(j) == \E k \in 1..Len(discovery) : discovery[k] = j
Explored(t) == \A j \in 1..Len(joins), s \in Tables : Links(j, t, s) => s \in Reached

\* While the search goes on, a table is queued or its neighbours are reached.
SearchInv ==
    /\ phase = "search" =>
         /\ \A t \in Found : Awaited(Via(t))
         /\ \A t \in Reached : Explored(t) \/ \E k \in 1..Len(queue) : queue[k] = t
         /\ \A k \in 1..Len(queue) : queue[k] \in Reached
    /\ phase # "search" => \A t \in Reached : Explored(t)
    /\ phase \in {"search", "refused"} => clauses = <<>>
    /\ phase = "refused" => \E t \in needed : t \notin Reached

\* The required joins lead from every needed table to the base, and none leads
\* nowhere.
RequiredInv ==
    /\ needed \subseteq Reached
    /\ \A t \in Found : t \in needed => Via(t) \in required
    /\ \A t \in Found : Via(t) \in required /\ Prev(t) # Base => Via(Prev(t)) \in required
    /\ \A t \in Found : Via(t) \in required =>
         t \in needed \/ \E s \in Found : Prev(s) = t /\ Via(s) \in required

\* The clauses so far: the required joins that are no longer listed, each as it
\* was found.
ClausesInv ==
    /\ \A t \in Found :
         (Via(t) \in required /\ ~Awaited(Via(t))) <=> \E i \in 1..Len(clauses) : clauses[i].added = t
    /\ \A i \in 1..Len(clauses) :
         clauses[i].added \in Found /\ clauses[i].onto = Prev(clauses[i].added)

JoinInv ==
    /\ JoinTypeOK /\ TreeInv /\ OrderInv /\ SearchInv
    /\ phase \in {"emit", "done"} => RequiredInv /\ ClausesInv
    /\ phase = "done" => discovery = <<>>
    /\ JoinsChain

-----------------------------------------------------------------------------
\* The two ways of writing that a join leads from a table to another.
LEMMA LinkedEnds ==
  ASSUME JoinTypeOK, NEW u \in Tables, NEW j \in 1..Len(joins)
  PROVE  /\ joins[j].from \in Tables /\ joins[j].to \in Tables
         /\ j \in JoinsAt(u) => OtherEnd(j, u) \in Tables /\ Links(j, u, OtherEnd(j, u))
         /\ \A s \in Tables : Links(j, u, s) => j \in JoinsAt(u) /\ OtherEnd(j, u) = s
<1>1. joins[j] \in [from : Tables, to : Tables]
  <2> DEFINE R == [from : Tables, to : Tables]
  <2>1. joins \in Seq(R)
    BY DEF JoinTypeOK
  <2> HIDE DEF R
  <2>2. joins[j] \in R
    BY <2>1
  <2> QED BY <2>2 DEF R
<1>2. joins[j].from \in Tables /\ joins[j].to \in Tables
  BY <1>1
<1> QED BY <1>2 DEF JoinsAt, OtherEnd, Links

\* The new neighbours of a table: each not reached before, each once, and all.
LEMMA NewNeighborsAre ==
  ASSUME JoinTypeOK, NEW u \in Tables
  PROVE  /\ NewNeighbors(u) \in Seq(1..Len(joins))
         /\ \A k \in 1..Len(NewNeighbors(u)) :
              /\ NewNeighbors(u)[k] \in JoinsAt(u)
              /\ OtherEnd(NewNeighbors(u)[k], u) \notin Reached
         /\ \A k, l \in 1..Len(NewNeighbors(u)) :
              OtherEnd(NewNeighbors(u)[k], u) = OtherEnd(NewNeighbors(u)[l], u) => k = l
         /\ \A j \in JoinsAt(u) :
              \/ OtherEnd(j, u) \in Reached
              \/ \E k \in 1..Len(NewNeighbors(u)) : OtherEnd(NewNeighbors(u)[k], u) = OtherEnd(j, u)
<1> DEFINE n == Len(joins)
           at == JoinsAt(u)
           End(j) == OtherEnd(j, u)
           first == {j \in at : /\ End(j) \notin Reached
                                /\ \A i \in at : i < j => End(i) # End(j)}
           found == NewNeighbors(u)
<1>1. n \in Nat
  BY DEF JoinTypeOK
<1>2. at \in SUBSET (1..n) /\ first \in SUBSET at
  BY DEF JoinsAt
<1>3. found = InOrder(first)
  BY DEF NewNeighbors, Reached
<1> HIDE DEF n, at, End, first, found
<1>4. first \in SUBSET (1..n) /\ at \in SUBSET Nat /\ first \in SUBSET Nat
  <2>1. 1..n \in SUBSET Nat
    BY <1>1
  <2> QED BY <1>2, <2>1
<1>5. /\ found \in Seq(first)
      /\ \A i, k \in 1..Len(found) : found[i] = found[k] => i = k
      /\ \A j \in first : \E i \in 1..Len(found) : found[i] = j
  BY <1>1, <1>3, <1>4, InOrderEnumerates
<1>6. \A k \in 1..Len(found) : found[k] \in first
  BY <1>5
<1>7. \A j \in first : j \in at /\ End(j) \notin Reached /\ \A i \in at : i < j => End(i) # End(j)
  BY DEF first
<1>8. found \in Seq(1..n)
  <2>1. Len(found) \in Nat /\ found \in [1..Len(found) -> first]
    BY <1>5
  <2> DEFINE D == 1..n
  <2>2. first \in SUBSET D
    BY <1>4
  <2> HIDE DEF D
  <2>3. found \in Seq(D)
    BY <1>5, <2>1, <2>2
  <2> QED BY <2>3 DEF D
<1>9. ASSUME NEW k \in 1..Len(found), NEW l \in 1..Len(found), End(found[k]) = End(found[l])
      PROVE  k = l
  <2>1. found[k] \in first /\ found[l] \in first
    BY <1>6
  <2>2. ~(found[k] < found[l]) /\ ~(found[l] < found[k])
    BY <2>1, <1>7, <1>9
  <2>3. found[k] \in Nat /\ found[l] \in Nat
    BY <2>1, <1>4
  <2>4. found[k] = found[l]
    BY <2>2, <2>3
  <2> QED BY <2>4, <1>5
<1>10. ASSUME NEW j \in at, End(j) \notin Reached
       PROVE  \E k \in 1..Len(found) : End(found[k]) = End(j)
  <2> DEFINE same == {i \in at : End(i) = End(j)}
  <2>1. same \in SUBSET Nat /\ same # {}
    BY <1>4
  <2>2. PICK i \in same : \A m \in same : i <= m
    <3> HIDE DEF same
    <3> QED BY <2>1, LeastNat
  <2>3. i \in at /\ End(i) = End(j) /\ i \in Nat
    BY <2>1, <2>2
  <2>4. \A m \in at : m < i => End(m) # End(i)
    <3> SUFFICES ASSUME NEW m \in at, m < i, End(m) = End(i) PROVE FALSE OBVIOUS
    <3>1. m \in same /\ m \in Nat
      BY <2>1, <2>3
    <3> QED BY <3>1, <2>2, <2>3
  <2>5. i \in first
    BY <2>3, <2>4, <1>10 DEF first
  <2> QED BY <2>3, <2>5, <1>5
<1> QED BY <1>6, <1>7, <1>8, <1>9, <1>10 DEF n, at, End, found

\* What Visit does, in terms of the tables it finds.
VisitFinds(u, found, tables) ==
    /\ u \in Reached
    /\ found \in Seq(1..Len(joins)) /\ tables \in Seq(Tables) /\ Len(tables) = Len(found)
    /\ \A k \in 1..Len(found) : Links(found[k], u, tables[k]) /\ tables[k] \notin Reached
    /\ \A k, l \in 1..Len(found) : tables[k] = tables[l] => k = l
    /\ \A j \in 1..Len(joins), s \in Tables :
         Links(j, u, s) => s \in Reached \/ \E k \in 1..Len(found) : tables[k] = s
    /\ \A t : t \in DOMAIN parent' <=> t \in Reached \/ \E k \in 1..Len(found) : t = tables[k]
    /\ \A t \in Reached : parent'[t] = parent[t]
    /\ \A k \in 1..Len(found) : parent'[tables[k]] = {[prev |-> u, join |-> found[k]]}

\* Visit as the tables and joins it finds.
LEMMA VisitIs ==
  ASSUME JoinInv, Visit
  PROVE  \E found, tables :
           /\ queue # <<>> /\ VisitFinds(Head(queue), found, tables)
           /\ queue' = Tail(queue) \o tables /\ discovery' = discovery \o found
<1> DEFINE u == Head(queue)
           found == NewNeighbors(u)
           tables == [k \in 1..Len(found) |-> OtherEnd(found[k], u)]
<1>1. JoinTypeOK /\ phase = "search" /\ queue # <<>>
  BY DEF Visit, JoinInv
<1>2. u \in Reached /\ u \in Tables
  <2>1. queue \in Seq(Tables) /\ Reached \subseteq Tables
    BY <1>1 DEF JoinTypeOK, Reached
  <2>2. 1 \in 1..Len(queue) /\ u = queue[1]
    BY <1>1, <2>1
  <2>3. \A k \in 1..Len(queue) : queue[k] \in Reached
    BY <1>1 DEF JoinInv, SearchInv
  <2> QED BY <2>1, <2>2, <2>3
<1>3. /\ queue' = Tail(queue) \o tables /\ discovery' = discovery \o found
      /\ parent' = [t \in DOMAIN parent \cup ToSet(tables) |->
           IF t \in DOMAIN parent THEN parent[t]
           ELSE {[prev |-> u, join |-> found[k]] : k \in {i \in 1..Len(found) : tables[i] = t}}]
  BY DEF Visit
<1> HIDE DEF u
<1>4. /\ found \in Seq(1..Len(joins))
      /\ \A k \in 1..Len(found) : found[k] \in JoinsAt(u) /\ OtherEnd(found[k], u) \notin Reached
      /\ \A k, l \in 1..Len(found) : OtherEnd(found[k], u) = OtherEnd(found[l], u) => k = l
      /\ \A j \in JoinsAt(u) : \/ OtherEnd(j, u) \in Reached
                               \/ \E k \in 1..Len(found) : OtherEnd(found[k], u) = OtherEnd(j, u)
  BY <1>1, <1>2, NewNeighborsAre
<1> HIDE DEF found
<1>5. Len(found) \in Nat /\ \A k \in 1..Len(found) : found[k] \in 1..Len(joins)
  BY <1>4
<1>6. \A k \in 1..Len(found) : tables[k] = OtherEnd(found[k], u) /\ tables[k] \in Tables
                               /\ Links(found[k], u, tables[k])
  BY <1>1, <1>2, <1>4, <1>5, LinkedEnds
<1>7. tables \in Seq(Tables) /\ Len(tables) = Len(found) /\ DOMAIN tables = 1..Len(found)
  BY <1>5, <1>6
<1>8. \A j \in 1..Len(joins), s \in Tables :
        Links(j, u, s) => s \in Reached \/ \E k \in 1..Len(found) : tables[k] = s
  BY <1>1, <1>2, <1>4, <1>6, LinkedEnds
<1> HIDE DEF tables
<1>9. \A t : t \in ToSet(tables) <=> \E k \in 1..Len(found) : t = tables[k]
  BY <1>7 DEF ToSet
<1>10. \A k, l \in 1..Len(found) : tables[k] = tables[l] => k = l
  BY <1>4, <1>6
<1>11. \A k \in 1..Len(found) : tables[k] \notin Reached
  BY <1>4, <1>6
<1>12. \A k \in 1..Len(found) : parent'[tables[k]] = {[prev |-> u, join |-> found[k]]}
  <2> SUFFICES ASSUME NEW k \in 1..Len(found)
               PROVE  parent'[tables[k]] = {[prev |-> u, join |-> found[k]]}
    OBVIOUS
  <2>1. tables[k] \in ToSet(tables) /\ tables[k] \notin DOMAIN parent
    BY <1>9, <1>11 DEF Reached
  <2>2. parent'[tables[k]] = {[prev |-> u, join |-> found[l]] : l \in {i \in 1..Len(found) : tables[i] = tables[k]}}
    BY <1>3, <2>1
  <2>3. {i \in 1..Len(found) : tables[i] = tables[k]} = {k}
    BY <1>10
  <2> QED BY <2>2, <2>3
<1>13. \A t \in Reached : parent'[t] = parent[t]
  BY <1>3 DEF Reached
<1>14. \A t : t \in DOMAIN parent' <=> t \in Reached \/ \E k \in 1..Len(found) : t = tables[k]
  BY <1>3, <1>9 DEF Reached
<1>15. VisitFinds(u, found, tables)
  BY <1>2, <1>4, <1>6, <1>7, <1>8, <1>10, <1>11, <1>12, <1>13, <1>14 DEF VisitFinds
<1> QED BY <1>1, <1>3, <1>15 DEF u

\* How the tree grows when a table is visited.
LEMMA VisitGrows ==
  ASSUME JoinInv, Visit, NEW u, NEW found, NEW tables, VisitFinds(u, found, tables)
  PROVE  /\ \A t : t \in Reached' <=> t \in Reached \/ \E k \in 1..Len(found) : t = tables[k]
         /\ \A t : t \in Found' <=> t \in Found \/ \E k \in 1..Len(found) : t = tables[k]
         /\ \A t \in Found : Prev(t)' = Prev(t) /\ Via(t)' = Via(t)
         /\ \A k \in 1..Len(found) : Prev(tables[k])' = u /\ Via(tables[k])' = found[k]
         /\ \A s \in Found, k \in 1..Len(found) : Via(s) # found[k]
         /\ \A k, l \in 1..Len(found) : found[k] = found[l] => k = l
<1>1. JoinTypeOK /\ TreeInv
  BY DEF JoinInv
<1>2. \A t : t \in Reached' <=> t \in Reached \/ \E k \in 1..Len(found) : t = tables[k]
  BY DEF VisitFinds, Reached
<1>3. \A k \in 1..Len(found) : tables[k] # Base
  BY <1>1 DEF VisitFinds, TreeInv
<1>4. \A t : t \in Found' <=> t \in Found \/ \E k \in 1..Len(found) : t = tables[k]
  BY <1>2, <1>3 DEF Found
<1>5. \A t \in Found : Prev(t)' = Prev(t) /\ Via(t)' = Via(t)
  BY DEF VisitFinds, Found, Prev, Via
<1>6. ASSUME NEW k \in 1..Len(found) PROVE Prev(tables[k])' = u /\ Via(tables[k])' = found[k]
  <2>1. parent'[tables[k]] = {[prev |-> u, join |-> found[k]]}
    BY DEF VisitFinds
  <2> DEFINE way == [prev |-> u, join |-> found[k]]
             this == CHOOSE e \in parent'[tables[k]] : TRUE
  <2>2. this \in parent'[tables[k]]
    BY <2>1
  <2>3. this = way
    BY <2>1, <2>2
  <2>4. way.prev = u /\ way.join = found[k]
    OBVIOUS
  <2>5. Prev(tables[k])' = this.prev /\ Via(tables[k])' = this.join
    BY DEF Prev, Via
  <2> HIDE DEF way, this
  <2> QED BY <2>3, <2>4, <2>5
<1>7. ASSUME NEW s \in Found, NEW k \in 1..Len(found), Via(s) = found[k] PROVE FALSE
  <2>1. Links(Via(s), Prev(s), s) /\ Prev(s) \in Reached /\ s \in Reached
    BY <1>1 DEF TreeInv, Found
  <2>2. Links(found[k], u, tables[k]) /\ tables[k] \notin Reached /\ u \in Reached
    BY DEF VisitFinds
  <2> QED BY <1>7, <2>1, <2>2 DEF Links
<1>8. ASSUME NEW k \in 1..Len(found), NEW l \in 1..Len(found), found[k] = found[l] PROVE k = l
  <2>1. /\ Links(found[k], u, tables[k]) /\ tables[k] \notin Reached /\ u \in Reached
        /\ Links(found[l], u, tables[l]) /\ tables[l] \notin Reached
    BY DEF VisitFinds
  <2>2. tables[k] = tables[l]
    BY <1>8, <2>1 DEF Links
  <2> QED BY <2>2 DEF VisitFinds
<1> QED BY <1>2, <1>4, <1>5, <1>6, <1>7, <1>8

\* A visit keeps the tree.
LEMMA VisitTree ==
  ASSUME JoinInv, Visit, NEW u, NEW found, NEW tables, VisitFinds(u, found, tables)
  PROVE  TreeInv'
<1>0. JoinTypeOK /\ TreeInv /\ joins' = joins
  BY DEF JoinInv, Visit
<1>1. /\ \A t : t \in Reached' <=> t \in Reached \/ \E k \in 1..Len(found) : t = tables[k]
      /\ \A t : t \in Found' <=> t \in Found \/ \E k \in 1..Len(found) : t = tables[k]
      /\ \A t \in Found : Prev(t)' = Prev(t) /\ Via(t)' = Via(t)
      /\ \A k \in 1..Len(found) : Prev(tables[k])' = u /\ Via(tables[k])' = found[k]
      /\ \A s \in Found, k \in 1..Len(found) : Via(s) # found[k]
      /\ \A k, l \in 1..Len(found) : found[k] = found[l] => k = l
  BY VisitGrows
<1>2. (Base \in Reached /\ parent[Base] = {})'
  BY <1>0, <1>1 DEF TreeInv, VisitFinds
<1>3. \A j, s, t : Links(j, s, t)' <=> Links(j, s, t)
  BY <1>0 DEF Links
<1>4. ASSUME NEW t \in Found'
      PROVE  (/\ parent[t] = {[prev |-> Prev(t), join |-> Via(t)]}
              /\ Prev(t) \in Reached
              /\ Via(t) \in 1..Len(joins)
              /\ Links(Via(t), Prev(t), t))'
  <2>1. CASE t \in Found
    <3>1. Prev(t)' = Prev(t) /\ Via(t)' = Via(t) /\ parent'[t] = parent[t]
      BY <1>1, <2>1 DEF VisitFinds, Found
    <3>2. /\ parent[t] = {[prev |-> Prev(t), join |-> Via(t)]} /\ Prev(t) \in Reached
          /\ Via(t) \in 1..Len(joins) /\ Links(Via(t), Prev(t), t)
      BY <1>0, <2>1 DEF TreeInv
    <3>3. Prev(t) \in Reached'
      BY <3>2, <1>1
    <3>4. Links(Via(t), Prev(t), t)'
      BY <3>1, <3>2, <1>0 DEF Links
    <3> QED BY <3>1, <3>2, <3>3, <3>4, <1>0
  <2>2. ASSUME NEW k \in 1..Len(found), t = tables[k]
        PROVE (/\ parent[t] = {[prev |-> Prev(t), join |-> Via(t)]}
              /\ Prev(t) \in Reached
              /\ Via(t) \in 1..Len(joins)
              /\ Links(Via(t), Prev(t), t))'
    <3>1. Prev(t)' = u /\ Via(t)' = found[k]
      BY <1>1, <2>2
    <3>2. /\ parent'[t] = {[prev |-> u, join |-> found[k]]} /\ u \in Reached
          /\ Links(found[k], u, t)
      BY <2>2 DEF VisitFinds
    <3>3. found[k] \in 1..Len(joins)
      <4> DEFINE D == 1..Len(joins)
      <4>1. found \in Seq(D)
        BY DEF VisitFinds
      <4> HIDE DEF D
      <4>2. found[k] \in D
        BY <4>1
      <4> QED BY <4>2 DEF D
    <3>4. u \in Reached'
      BY <3>2, <1>1
    <3>5. Links(Via(t), Prev(t), t)'
      BY <3>1, <3>2, <1>0 DEF Links
    <3> QED BY <3>1, <3>2, <3>3, <3>4, <3>5, <1>0
  <2> QED BY <2>1, <2>2, <1>1
<1>5. ASSUME NEW s \in Found', NEW t \in Found', Via(s)' = Via(t)' PROVE s = t
  <2>1. CASE s \in Found /\ t \in Found
    BY <2>1, <1>5, <1>1, <1>0 DEF TreeInv
  <2>2. ASSUME s \in Found, NEW k \in 1..Len(found), t = tables[k] PROVE FALSE
    BY <2>2, <1>5, <1>1
  <2>3. ASSUME t \in Found, NEW k \in 1..Len(found), s = tables[k] PROVE FALSE
    BY <2>3, <1>5, <1>1
  <2>4. ASSUME NEW k \in 1..Len(found), s = tables[k], NEW l \in 1..Len(found), t = tables[l] PROVE s = t
    BY <2>4, <1>5, <1>1
  <2> QED BY <2>1, <2>2, <2>3, <2>4, <1>1
<1>6. ASSUME NEW t \in Reached' PROVE Connected(t)'
  <2>1. Connected(t)
    <3>1. CASE t \in Reached
      BY <3>1, <1>0 DEF TreeInv
    <3>2. ASSUME NEW k \in 1..Len(found), t = tables[k] PROVE Connected(t)
      <4>1. Connected(u) /\ Links(found[k], u, t)
        BY <3>2, <1>0 DEF TreeInv, VisitFinds
      <4>2. found[k] \in 1..Len(joins)
        <5> DEFINE D == 1..Len(joins)
        <5>1. found \in Seq(D)
          BY DEF VisitFinds
        <5> HIDE DEF D
        <5>2. found[k] \in D
          BY <5>1
        <5> QED BY <5>2 DEF D
      <4> QED BY <4>1, <4>2 DEF Connected, Links
    <3> QED BY <3>1, <3>2, <1>1
  <2> QED BY <2>1, <1>0 DEF Connected
<1> QED BY <1>2, <1>4, <1>5, <1>6 DEF TreeInv

\* A sequence with another one behind it.
LEMMA Behind ==
  ASSUME NEW S, NEW p \in Seq(S), NEW q \in Seq(S)
  PROVE  /\ p \o q \in Seq(S) /\ Len(p \o q) = Len(p) + Len(q)
         /\ \A k \in 1..Len(p) : k \in 1..Len(p \o q) /\ (p \o q)[k] = p[k]
         /\ \A k \in 1..Len(q) : Len(p) + k \in 1..Len(p \o q) /\ (p \o q)[Len(p) + k] = q[k]
         /\ \A k \in 1..Len(p \o q) :
              k \in 1..Len(p) \/ \E i \in 1..Len(q) : k = Len(p) + i
<1>1. p \o q \in Seq(S) /\ Len(p \o q) = Len(p) + Len(q) /\ Len(p) \in Nat /\ Len(q) \in Nat
  OBVIOUS
<1>2. \A k \in 1..Len(p) : k \in 1..Len(p \o q) /\ (p \o q)[k] = p[k]
  BY <1>1
<1>3. \A k \in 1..Len(q) : Len(p) + k \in 1..Len(p \o q) /\ (p \o q)[Len(p) + k] = q[k]
  BY <1>1
<1>4. ASSUME NEW k \in 1..Len(p \o q), k \notin 1..Len(p)
      PROVE  \E i \in 1..Len(q) : k = Len(p) + i
  <2>1. k - Len(p) \in 1..Len(q) /\ k = Len(p) + (k - Len(p))
    BY <1>1, <1>4
  <2> QED BY <2>1
<1> QED BY <1>1, <1>2, <1>3, <1>4

\* A visit keeps the types.
LEMMA VisitType ==
  ASSUME JoinInv, Visit, NEW u, NEW found, NEW tables, VisitFinds(u, found, tables),
         queue # <<>>, queue' = Tail(queue) \o tables, discovery' = discovery \o found
  PROVE  JoinTypeOK'
<1>0. /\ JoinTypeOK /\ TreeInv
      /\ UNCHANGED <<joins, needed, phase, required, unreachable, clauses>>
  BY DEF JoinInv, Visit
<1> DEFINE D == 1..Len(joins)
           R == [from : Tables, to : Tables]
           P == [prev : Tables, join : D]
           C == [added : Tables, onto : Tables]
<1>1. /\ joins \in Seq(R) /\ needed \in SUBSET Tables
      /\ phase \in {"search", "emit", "done", "refused"}
      /\ queue \in Seq(Tables) /\ Reached \in SUBSET Tables
      /\ \A t \in Reached : parent[t] \in SUBSET P
      /\ discovery \in Seq(D) /\ required \in SUBSET D /\ unreachable \in SUBSET Tables
      /\ clauses \in Seq(C)
  BY <1>0 DEF JoinTypeOK, Reached
<1>2. /\ found \in Seq(D) /\ tables \in Seq(Tables) /\ u \in Reached /\ Len(tables) = Len(found)
      /\ \A t : t \in DOMAIN parent' <=> t \in Reached \/ \E k \in 1..Len(found) : t = tables[k]
      /\ \A t \in Reached : parent'[t] = parent[t]
      /\ \A k \in 1..Len(found) : parent'[tables[k]] = {[prev |-> u, join |-> found[k]]}
  BY DEF VisitFinds
<1>3. \A k \in 1..Len(found) : [prev |-> u, join |-> found[k]] \in P
  <2> SUFFICES ASSUME NEW k \in 1..Len(found) PROVE [prev |-> u, join |-> found[k]] \in P
    OBVIOUS
  <2> HIDE DEF D
  <2>1. u \in Tables /\ found[k] \in D
    BY <1>1, <1>2
  <2> QED BY <2>1
<1> HIDE DEF D, R, P, C
<1>4. \A k \in 1..Len(found) : tables[k] \in Tables
  BY <1>2
<1>5. DOMAIN parent' \in SUBSET Tables /\ \A t \in DOMAIN parent' : parent'[t] \in SUBSET P
  <2>1. DOMAIN parent' \in SUBSET Tables
    <3> SUFFICES ASSUME NEW t \in DOMAIN parent' PROVE t \in Tables
      OBVIOUS
    <3>1. t \in Reached \/ \E k \in 1..Len(found) : t = tables[k]
      BY <1>2
    <3> QED BY <3>1, <1>1, <1>4
  <2>2. ASSUME NEW t \in DOMAIN parent' PROVE parent'[t] \in SUBSET P
    <3>1. CASE t \in Reached
      BY <3>1, <1>1, <1>2
    <3>2. ASSUME NEW k \in 1..Len(found), t = tables[k] PROVE parent'[t] \in SUBSET P
      <4>1. parent'[t] = {[prev |-> u, join |-> found[k]]}
        BY <3>2, <1>2
      <4> QED BY <4>1, <1>3
    <3> QED BY <3>1, <3>2, <1>2
  <2> QED BY <2>1, <2>2
<1>6. queue' \in Seq(Tables)
  <2>1. Tail(queue) \in Seq(Tables)
    BY <1>1
  <2> QED BY <2>1, <1>2
<1>7. discovery' \in Seq(D)
  BY <1>1, <1>2
<1> QED BY <1>0, <1>1, <1>5, <1>6, <1>7 DEF JoinTypeOK, D, R, P, C

\* A visit lists the joins it finds behind the others.
LEMMA VisitOrder ==
  ASSUME JoinInv, Visit, NEW u, NEW found, NEW tables, VisitFinds(u, found, tables),
         discovery' = discovery \o found
  PROVE  /\ OrderInv'
         /\ \A t \in Found' : Awaited(Via(t))'
<1> DEFINE m == Len(discovery)
           d == discovery'
           D == 1..Len(joins)
<1>0. JoinTypeOK /\ TreeInv /\ OrderInv /\ SearchInv /\ phase = "search"
  BY DEF JoinInv, Visit
<1>1. /\ \A t : t \in Reached' <=> t \in Reached \/ \E k \in 1..Len(found) : t = tables[k]
      /\ \A t : t \in Found' <=> t \in Found \/ \E k \in 1..Len(found) : t = tables[k]
      /\ \A t \in Found : Prev(t)' = Prev(t) /\ Via(t)' = Via(t)
      /\ \A k \in 1..Len(found) : Prev(tables[k])' = u /\ Via(tables[k])' = found[k]
      /\ \A s \in Found, k \in 1..Len(found) : Via(s) # found[k]
      /\ \A k, l \in 1..Len(found) : found[k] = found[l] => k = l
  BY VisitGrows
<1>2. discovery \in Seq(D) /\ found \in Seq(D)
  BY <1>0 DEF JoinTypeOK, VisitFinds
<1> HIDE DEF D
<1>3. /\ m \in Nat /\ Len(d) \in Nat
      /\ \A k \in 1..m : k \in 1..Len(d) /\ d[k] = discovery[k]
      /\ \A k \in 1..Len(found) : m + k \in 1..Len(d) /\ d[m + k] = found[k]
      /\ \A k \in 1..Len(d) : k \in 1..m \/ \E i \in 1..Len(found) : k = m + i
  <2>1. d = discovery \o found /\ m \in Nat
    BY <1>2
  <2> DEFINE p == discovery \o found
  <2>2. /\ p \in Seq(D)
        /\ \A k \in 1..Len(discovery) : k \in 1..Len(p) /\ p[k] = discovery[k]
        /\ \A k \in 1..Len(found) : Len(discovery) + k \in 1..Len(p) /\ p[Len(discovery) + k] = found[k]
        /\ \A k \in 1..Len(p) :
             k \in 1..Len(discovery) \/ \E i \in 1..Len(found) : k = Len(discovery) + i
    BY ONLY <1>2, Behind
  <2>3. Len(p) \in Nat /\ d = p
    BY <2>1, <2>2
  <2> HIDE DEF p, d
  <2> QED BY <2>1, <2>2, <2>3
<1>4. /\ \A k, l \in 1..m : discovery[k] = discovery[l] => k = l
      /\ \A k \in 1..m : \E t \in Found : discovery[k] = Via(t)
      /\ \A t \in Found, k, l \in 1..m :
           Prev(t) # Base /\ discovery[k] = Via(t) /\ discovery[l] = Via(Prev(t)) => l < k
      /\ \A t \in Found : \E k \in 1..m : discovery[k] = Via(t)
  BY <1>0 DEF OrderInv, SearchInv, Awaited
<1> HIDE DEF m, d
\* Whether a join is an old one or a new one says where it stands.
<1>5. ASSUME NEW k \in 1..Len(d), NEW t \in Found, d[k] = Via(t)
      PROVE  k \in 1..m /\ discovery[k] = Via(t)
  <2>1. ASSUME NEW i \in 1..Len(found), k = m + i PROVE FALSE
    <3>1. d[k] = found[i]
      BY <2>1, <1>3
    <3> QED BY <3>1, <1>5, <1>1
  <2>2. k \in 1..m
    BY <2>1, <1>3
  <2> QED BY <2>2, <1>3, <1>5
<1>6. ASSUME NEW k \in 1..Len(d), NEW i \in 1..Len(found), d[k] = found[i]
      PROVE  k = m + i
  <2>1. k \notin 1..m
    <3> SUFFICES ASSUME k \in 1..m PROVE FALSE OBVIOUS
    <3>1. PICK t \in Found : discovery[k] = Via(t)
      BY <1>4
    <3>2. d[k] = discovery[k]
      BY <1>3
    <3> QED BY <3>1, <3>2, <1>6, <1>1
  <2>2. PICK l \in 1..Len(found) : k = m + l
    BY <2>1, <1>3
  <2>3. found[l] = found[i]
    BY <1>6, <1>3, <2>2
  <2> QED BY <2>2, <2>3, <1>1
<1>7. ASSUME NEW k \in 1..Len(d)
      PROVE  (\E t \in Found : d[k] = Via(t)) \/ (\E i \in 1..Len(found) : d[k] = found[i])
  <2>1. CASE k \in 1..m
    BY <2>1, <1>3, <1>4
  <2>2. ASSUME NEW i \in 1..Len(found), k = m + i PROVE d[k] = found[i]
    BY <2>2, <1>3
  <2> QED BY <2>1, <2>2, <1>3
<1>8. ASSUME NEW k \in 1..Len(d), NEW l \in 1..Len(d), d[k] = d[l] PROVE k = l
  <2>1. ASSUME NEW t \in Found, d[k] = Via(t) PROVE k = l
    <3>1. k \in 1..m /\ discovery[k] = Via(t)
      BY <2>1, <1>5
    <3>2. l \in 1..m /\ discovery[l] = Via(t)
      BY <2>1, <1>5, <1>8
    <3> QED BY <3>1, <3>2, <1>4
  <2>2. ASSUME NEW i \in 1..Len(found), d[k] = found[i] PROVE k = l
    BY <2>2, <1>6, <1>8
  <2> QED BY <2>1, <2>2, <1>7
<1>9. ASSUME NEW k \in 1..Len(d) PROVE \E t \in Found' : d[k] = Via(t)'
  <2>1. ASSUME NEW t \in Found, d[k] = Via(t) PROVE t \in Found' /\ d[k] = Via(t)'
    BY <2>1, <1>1
  <2>2. ASSUME NEW i \in 1..Len(found), d[k] = found[i] PROVE tables[i] \in Found' /\ d[k] = Via(tables[i])'
    BY <2>2, <1>1
  <2> QED BY <2>1, <2>2, <1>7
<1>10. ASSUME NEW t \in Found', NEW k \in 1..Len(d), NEW l \in 1..Len(d),
              Prev(t)' # Base, d[k] = Via(t)', d[l] = Via(Prev(t))'
       PROVE  l < k
  <2>1. CASE t \in Found
    <3>1. Prev(t)' = Prev(t) /\ Via(t)' = Via(t) /\ Prev(t) \in Found
      BY <2>1, <1>1, <1>10, <1>0 DEF TreeInv, Found
    <3>2. Via(Prev(t))' = Via(Prev(t))
      <4>1. Via(Prev(t))' = (CHOOSE e \in parent'[Prev(t)'] : TRUE).join
        BY DEF Via
      <4>2. parent'[Prev(t)'] = parent[Prev(t)]
        BY <3>1 DEF VisitFinds, Found
      <4> QED BY <4>1, <4>2 DEF Via
    <3> QED BY <2>1, <3>1, <3>2, <1>4, <1>5, <1>10
  <2>2. ASSUME NEW i \in 1..Len(found), t = tables[i] PROVE l < k
    <3>1. Prev(t)' = u /\ Via(t)' = found[i] /\ u \in Reached /\ u \in Found
      BY <2>2, <1>1, <1>10 DEF VisitFinds, Found
    <3>2. Via(Prev(t))' = Via(u)
      <4>1. Via(Prev(t))' = (CHOOSE e \in parent'[Prev(t)'] : TRUE).join
        BY DEF Via
      <4>2. parent'[Prev(t)'] = parent[u]
        BY <3>1 DEF VisitFinds, Found
      <4> QED BY <4>1, <4>2 DEF Via
    <3>3. l \in 1..m
      BY <3>1, <3>2, <1>5, <1>10
    <3>4. k = m + i
      BY <3>1, <1>6, <1>10
    <3>5. Len(found) \in Nat
      BY <1>2
    <3> QED BY <3>3, <3>4, <3>5, <1>3
  <2> QED BY <2>1, <2>2, <1>1
<1>11. ASSUME NEW t \in Found' PROVE \E k \in 1..Len(d) : d[k] = Via(t)'
  <2>1. CASE t \in Found
    BY <2>1, <1>1, <1>3, <1>4
  <2>2. ASSUME NEW i \in 1..Len(found), t = tables[i] PROVE m + i \in 1..Len(d) /\ d[m + i] = Via(t)'
    BY <2>2, <1>1, <1>3
  <2> QED BY <2>1, <2>2, <1>1
<1>12. OrderInv'
  BY <1>8, <1>9, <1>10 DEF OrderInv, d
<1> QED BY <1>11, <1>12 DEF Awaited, d

\* A visit explores the table it takes from the queue and queues those it finds.
LEMMA VisitSearch ==
  ASSUME JoinInv, Visit, NEW u, NEW found, NEW tables, VisitFinds(u, found, tables),
         queue # <<>>, u = Head(queue), queue' = Tail(queue) \o tables
  PROVE  /\ \A t \in Reached' : Explored(t)' \/ \E k \in 1..Len(queue') : queue'[k] = t
         /\ \A k \in 1..Len(queue') : queue'[k] \in Reached'
<1> DEFINE rest == Tail(queue)
           q == queue'
<1>0. JoinTypeOK /\ SearchInv /\ phase = "search" /\ joins' = joins
  BY DEF JoinInv, Visit
<1>1. \A t : t \in Reached' <=> t \in Reached \/ \E k \in 1..Len(found) : t = tables[k]
  BY VisitGrows
<1>2. /\ queue \in Seq(Tables) /\ tables \in Seq(Tables) /\ Len(tables) = Len(found)
      /\ \A j \in 1..Len(joins), s \in Tables :
           Links(j, u, s) => s \in Reached \/ \E k \in 1..Len(found) : tables[k] = s
  BY <1>0 DEF JoinTypeOK, VisitFinds
<1>3. /\ rest \in Seq(Tables) /\ Len(queue) = Len(rest) + 1 /\ Len(rest) \in Nat /\ u = queue[1]
      /\ \A k \in 1..Len(rest) : rest[k] = queue[k + 1] /\ k + 1 \in 1..Len(queue)
  BY <1>2
<1>4. /\ \A t \in Reached : Explored(t) \/ \E k \in 1..Len(queue) : queue[k] = t
      /\ \A k \in 1..Len(queue) : queue[k] \in Reached
  BY <1>0 DEF SearchInv
<1>5. /\ \A k \in 1..Len(rest) : k \in 1..Len(q) /\ q[k] = rest[k]
      /\ \A k \in 1..Len(found) : Len(rest) + k \in 1..Len(q) /\ q[Len(rest) + k] = tables[k]
      /\ \A k \in 1..Len(q) : k \in 1..Len(rest) \/ \E i \in 1..Len(found) : k = Len(rest) + i
  <2>1. q = rest \o tables
    OBVIOUS
  <2>2. rest \in Seq(Tables) /\ tables \in Seq(Tables) /\ Len(tables) = Len(found)
    BY <1>2, <1>3
  <2> HIDE DEF rest, q
  <2> DEFINE p == rest \o tables
  <2>3. /\ \A k \in 1..Len(rest) : k \in 1..Len(p) /\ p[k] = rest[k]
        /\ \A k \in 1..Len(tables) : Len(rest) + k \in 1..Len(p) /\ p[Len(rest) + k] = tables[k]
        /\ \A k \in 1..Len(p) : k \in 1..Len(rest) \/ \E i \in 1..Len(tables) : k = Len(rest) + i
    BY ONLY <2>2, Behind
  <2> HIDE DEF p
  <2>4. q = p
    BY <2>1 DEF p
  <2> QED BY ONLY <2>2, <2>3, <2>4
<1> HIDE DEF rest, q
<1>6. \A t \in Tables : Explored(t) => Explored(t)'
  BY <1>0, <1>1 DEF Explored, Links
<1>7. Explored(u)'
  BY <1>0, <1>1, <1>2 DEF Explored, Links
<1>8. ASSUME NEW t \in Reached' PROVE Explored(t)' \/ \E k \in 1..Len(q) : q[k] = t
  <2>1. CASE t \in Reached /\ Explored(t)
    <3>1. t \in Tables
      BY <2>1, <1>0 DEF JoinTypeOK, Reached
    <3> QED BY <2>1, <3>1, <1>6
  <2>2. ASSUME NEW k \in 1..Len(queue), queue[k] = t PROVE Explored(t)' \/ \E i \in 1..Len(q) : q[i] = t
    <3>1. CASE k = 1
      <4>1. t = u
        BY <3>1, <2>2, <1>3
      <4> QED BY <4>1, <1>7
    <3>2. CASE k # 1
      <4>1. k - 1 \in 1..Len(rest) /\ (k - 1) + 1 = k
        BY <3>2, <1>3
      <4>2. rest[k - 1] = t
        BY <4>1, <2>2, <1>3
      <4> QED BY <4>1, <4>2, <1>5
    <3> QED BY <3>1, <3>2
  <2>3. ASSUME NEW k \in 1..Len(found), t = tables[k] PROVE \E i \in 1..Len(q) : q[i] = t
    BY <2>3, <1>5
  <2> QED BY <2>1, <2>2, <2>3, <1>1, <1>4
<1>9. ASSUME NEW k \in 1..Len(q) PROVE q[k] \in Reached'
  <2>1. CASE k \in 1..Len(rest)
    <3>1. q[k] = queue[k + 1] /\ k + 1 \in 1..Len(queue)
      BY <2>1, <1>3, <1>5
    <3>2. q[k] \in Reached
      BY <3>1, <1>4
    <3> QED BY <3>2, <1>1
  <2>2. ASSUME NEW i \in 1..Len(found), k = Len(rest) + i PROVE q[k] \in Reached'
    <3>1. q[k] = tables[i]
      BY <2>2, <1>5
    <3> QED BY <3>1, <1>1
  <2> QED BY <2>1, <2>2, <1>5
<1> QED BY <1>8, <1>9 DEF q

\* The search step.
LEMMA VisitKeeps == ASSUME JoinInv, Visit PROVE JoinInv'
<1>1. PICK u, found, tables :
        /\ queue # <<>> /\ u = Head(queue) /\ VisitFinds(u, found, tables)
        /\ queue' = Tail(queue) \o tables /\ discovery' = discovery \o found
  BY VisitIs
<1>2. phase = "search" /\ phase' = phase /\ clauses' = clauses
  BY DEF Visit
<1>3. JoinTypeOK'
  BY <1>1, VisitType
<1>4. TreeInv'
  BY <1>1, VisitTree
<1>5. OrderInv' /\ \A t \in Found' : Awaited(Via(t))'
  BY <1>1, VisitOrder
<1>6. /\ \A t \in Reached' : Explored(t)' \/ \E k \in 1..Len(queue') : queue'[k] = t
      /\ \A k \in 1..Len(queue') : queue'[k] \in Reached'
  BY <1>1, VisitSearch
<1>7. SearchInv'
  <2>1. clauses = <<>>
    BY <1>2 DEF JoinInv, SearchInv
  <2>2. clauses' = <<>> /\ phase' = "search"
    BY <2>1, <1>2
  <2> QED BY <2>2, <1>5, <1>6 DEF SearchInv
<1>8. JoinsChain'
  BY <1>2 DEF JoinInv, JoinsChain
<1>9. ~(phase' \in {"emit", "done"}) /\ phase' # "done"
  BY <1>2
<1> QED BY <1>3, <1>4, <1>5, <1>7, <1>8, <1>9 DEF JoinInv

-----------------------------------------------------------------------------
\* The climb of PathJoins: from a table, n times to the tables found from.
JoinsOf(S) == {e.join : e \in UNION {parent[s] : s \in S}}
AboveAll(S) == S \cup {e.prev : e \in UNION {parent[s] : s \in S}}
Climbs(t, m, g) == g = [n \in 0..m |-> IF n = 0 THEN {t} ELSE AboveAll(g[n - 1])]

\* PathJoins is the end of a climb.
LEMMA PathJoinsClimb ==
  ASSUME NEW t
  PROVE  PathJoins(t) = JoinsOf((CHOOSE g : Climbs(t, Len(joins), g))[Len(joins)])
BY DEF PathJoins, JoinsOf, AboveAll, Climbs

\* The steps of a climb.
LEMMA ClimbAt ==
  ASSUME NEW t, NEW m \in Nat, NEW g, Climbs(t, m, g)
  PROVE  g[0] = {t} /\ \A n \in 0..m : n # 0 => g[n] = AboveAll(g[n - 1])
<1> DEFINE f == [i \in 0..m |-> IF i = 0 THEN {t} ELSE AboveAll(g[i - 1])]
<1>1. g = f
  BY DEF Climbs
<1>2. f[0] = {t} /\ \A n \in 0..m : n # 0 => f[n] = AboveAll(g[n - 1])
  OBVIOUS
<1> HIDE DEF f
<1>3. \A n : g[n] = f[n]
  BY <1>1
<1> QED BY <1>2, <1>3

\* There is a climb of any height.
LEMMA ClimbExists ==
  ASSUME NEW t, NEW m \in Nat
  PROVE  \E g : Climbs(t, m, g)
<1> DEFINE bad == {n \in Nat : ~\E g : Climbs(t, n, g)}
<1>1. bad = {}
  <2> SUFFICES ASSUME bad # {} PROVE FALSE OBVIOUS
  <2>1. bad \in SUBSET Nat OBVIOUS
  <2>2. PICK n \in bad : \A l \in bad : n <= l
    <3> HIDE DEF bad
    <3> QED BY <2>1, LeastNat
  <2>3. n \in Nat /\ ~\E g : Climbs(t, n, g)
    BY <2>2
  <2>4. CASE n = 0
    <3> DEFINE g == [i \in 0..0 |-> {t}]
    <3>1. Climbs(t, 0, g)
      BY DEF Climbs
    <3> QED BY <2>3, <2>4, <3>1
  <2>5. CASE n # 0
    <3>1. n - 1 \in Nat /\ n - 1 \notin bad
      <4> HIDE DEF bad
      <4> QED BY <2>1, <2>2, <2>3, <2>5
    <3>2. PICK g : Climbs(t, n - 1, g)
      BY <3>1
    <3> DEFINE h == [i \in 0..n |-> IF i = 0 THEN {t} ELSE AboveAll(g[i - 1])]
    <3>3. \A i \in 0..(n - 1) : i \in 0..n /\ h[i] = g[i]
      <4> SUFFICES ASSUME NEW i \in 0..(n - 1) PROVE i \in 0..n /\ h[i] = g[i]
        OBVIOUS
      <4>1. g[i] = IF i = 0 THEN {t} ELSE AboveAll(g[i - 1])
        <5> DEFINE l == n - 1
        <5>0. l \in Nat
          BY <3>1
        <5>1. Climbs(t, l, g) /\ i \in 0..l
          BY <3>2
        <5> HIDE DEF l
        <5>2. g[0] = {t} /\ \A k \in 0..l : k # 0 => g[k] = AboveAll(g[k - 1])
          BY ONLY <5>0, <5>1, ClimbAt
        <5> QED BY <5>1, <5>2
      <4>2. i \in 0..n
        BY <2>3
      <4> QED BY <4>1, <4>2
    <3>4. \A i \in 0..n : i # 0 => i - 1 \in 0..(n - 1)
      BY <2>3
    <3>5. \A i \in 0..n : i # 0 => h[i - 1] = g[i - 1]
      BY <3>3, <3>4
    <3>6. Climbs(t, n, h)
      BY <3>5 DEF Climbs
    <3> QED BY <2>3, <3>6
  <2> QED BY <2>4, <2>5
<1> QED BY <1>1

\* One step of the climb, in terms of the tree.
LEMMA ClimbStep ==
  ASSUME TreeInv, NEW S \in SUBSET Reached
  PROVE  /\ \A x : x \in AboveAll(S) <=> x \in S \/ \E y \in S \ {Base} : x = Prev(y)
         /\ \A j : j \in JoinsOf(S) <=> \E y \in S \ {Base} : j = Via(y)
         /\ AboveAll(S) \in SUBSET Reached
<1>1. \A e : e \in UNION {parent[s] : s \in S} <=> \E s \in S : e \in parent[s]
  OBVIOUS
<1>2. \A y \in S \ {Base} : y \in Found
  BY DEF Found
<1>3. \A y \in S \ {Base} : \A e : e \in parent[y] <=> e = [prev |-> Prev(y), join |-> Via(y)]
  BY <1>2 DEF TreeInv
<1>4. \A e : e \notin parent[Base]
  BY DEF TreeInv
<1> DEFINE E == UNION {parent[s] : s \in S}
           Way(y) == [prev |-> Prev(y), join |-> Via(y)]
<1>5. /\ \A e : e \in E <=> \E y \in S \ {Base} : e = Way(y)
      /\ \A y : Way(y).prev = Prev(y) /\ Way(y).join = Via(y)
  BY <1>1, <1>3, <1>4
<1> HIDE DEF E, Way
<1>6. \A x : x \in {e.prev : e \in E} <=> \E y \in S \ {Base} : x = Prev(y)
  BY <1>5
<1>7. \A x : x \in {e.join : e \in E} <=> \E y \in S \ {Base} : x = Via(y)
  BY <1>5
<1>8. \A y \in S \ {Base} : Prev(y) \in Reached
  BY <1>2 DEF TreeInv
<1>9. \A x : x \in AboveAll(S) <=> x \in S \/ \E y \in S \ {Base} : x = Prev(y)
  BY <1>6 DEF AboveAll, E
<1>10. \A j : j \in JoinsOf(S) <=> \E y \in S \ {Base} : j = Via(y)
  BY <1>7 DEF JoinsOf, E
<1> QED BY <1>8, <1>9, <1>10

\* The place of a table in the order of discovery: its parent comes before.
Place(t) == IF t = Base THEN 0 ELSE CHOOSE k \in 1..Len(discovery) : discovery[k] = Via(t)

\* Every table has a place, below the number of joins.
LEMMA Places ==
  ASSUME JoinTypeOK, TreeInv, OrderInv, \A t \in Found : Awaited(Via(t))
  PROVE  /\ Len(discovery) \in Nat /\ Len(joins) \in Nat /\ Len(discovery) <= Len(joins)
         /\ \A t \in Reached : Place(t) \in 0..Len(discovery) /\ (Place(t) = 0 => t = Base)
         /\ \A t \in Found : Place(Prev(t)) < Place(t)
<1> DEFINE N == Len(joins)
           M == Len(discovery)
           D == 1..N
<1>1. N \in Nat /\ discovery \in Seq(D)
  BY DEF JoinTypeOK
<1> HIDE DEF N, D
<1>2. M \in Nat /\ discovery \in [1..M -> D]
  BY <1>1
<1> HIDE DEF M
<1>3. M <= N
  <2>1. discovery \in Injection(1..M, D)
    BY <1>2 DEF Injection, IsInjective, OrderInv, M
  <2>2. /\ IsFiniteSet(1..M) /\ Cardinality(1..M) = IF 1 > M THEN 0 ELSE M - 1 + 1
        /\ IsFiniteSet(1..N) /\ Cardinality(1..N) = IF 1 > N THEN 0 ELSE N - 1 + 1
    BY <1>1, <1>2, FS_Interval
  <2>3. Cardinality(1..M) = M /\ Cardinality(D) = N /\ IsFiniteSet(D)
    BY <2>2, <1>1, <1>2 DEF D
  <2>4. Cardinality(1..M) <= Cardinality(D)
    BY <2>1, <2>2, <2>3, FS_Injection
  <2> QED BY <2>3, <2>4
<1>4. ASSUME NEW t \in Found
      PROVE  t # Base /\ Place(t) \in 1..M /\ discovery[Place(t)] = Via(t)
  <2>1. \E k \in 1..M : discovery[k] = Via(t)
    BY DEF Awaited, M
  <2>2. t # Base
    BY DEF Found
  <2> QED BY <2>1, <2>2 DEF Place, M
<1>5. Place(Base) = 0
  BY DEF Place
<1>6. ASSUME NEW t \in Reached PROVE Place(t) \in 0..M /\ (Place(t) = 0 => t = Base)
  <2>1. CASE t = Base
    BY <2>1, <1>2, <1>5
  <2>2. CASE t # Base
    <3>1. t \in Found
      BY <2>2 DEF Found
    <3> QED BY <3>1, <1>2, <1>4
  <2> QED BY <2>1, <2>2
<1>7. ASSUME NEW t \in Found PROVE Place(Prev(t)) < Place(t)
  <2>1. CASE Prev(t) = Base
    BY <2>1, <1>2, <1>4, <1>5
  <2>2. CASE Prev(t) # Base
    <3>1. Prev(t) \in Found
      BY <2>2 DEF TreeInv, Found
    <3>2. /\ Place(t) \in 1..M /\ discovery[Place(t)] = Via(t)
          /\ Place(Prev(t)) \in 1..M /\ discovery[Place(Prev(t))] = Via(Prev(t))
      BY <3>1, <1>4
    <3> QED BY <2>2, <3>2 DEF OrderInv, M
  <2> QED BY <2>1, <2>2
<1> QED BY <1>1, <1>2, <1>3, <1>6, <1>7 DEF M, N

\* The climb reaches the base: it collects, with a table, all it hangs on.
LEMMA PathJoinsAre ==
  ASSUME JoinTypeOK, TreeInv, OrderInv, \A t \in Found : Awaited(Via(t)), NEW t \in Reached
  PROVE  \E W \in SUBSET Reached :
           /\ t \in W
           /\ \A j : j \in PathJoins(t) <=> \E s \in W \ {Base} : j = Via(s)
           /\ \A x \in W \ {Base} : Prev(x) \in W
           /\ \A x \in W : x = t \/ \E y \in W \ {Base} : Prev(y) = x
<1> DEFINE N == Len(joins)
           M == Len(discovery)
<1>1. /\ M \in Nat /\ N \in Nat /\ M <= N
      /\ \A s \in Reached : Place(s) \in 0..M /\ (Place(s) = 0 => s = Base)
      /\ \A s \in Found : Place(Prev(s)) < Place(s)
  BY Places
<1>2. PICK g : Climbs(t, N, g) /\ g = CHOOSE f : Climbs(t, N, f)
  <2>1. \E f : Climbs(t, N, f)
    BY <1>1, ClimbExists
  <2>2. Climbs(t, N, CHOOSE f : Climbs(t, N, f))
    BY <2>1
  <2> QED BY <2>2
<1>3. PathJoins(t) = JoinsOf(g[N])
  BY <1>2, PathJoinsClimb
<1> HIDE DEF N, M
<1>4. g[0] = {t} /\ \A n \in 0..N : n # 0 => g[n] = AboveAll(g[n - 1])
  <2>1. N \in Nat
    BY <1>1
  <2>2. Climbs(t, N, g)
    BY <1>2
  <2> QED BY ONLY <2>1, <2>2, ClimbAt
<1> DEFINE Ok(n) ==
             /\ g[n] \in SUBSET Reached
             /\ t \in g[n]
             /\ \A x \in g[n] : x = t \/ \E y \in g[n] \ {Base} : Prev(y) = x
             /\ \A k \in 0..n : g[k] \subseteq g[n]
             /\ \A x \in g[n] : \E k \in 0..n : x \in g[k] /\ Place(x) + k <= M
           bad == {n \in 0..N : ~Ok(n)}
<1>5. bad = {}
  <2> SUFFICES ASSUME bad # {} PROVE FALSE OBVIOUS
  <2>1. bad \in SUBSET Nat
    BY <1>1
  <2>2. PICK n \in bad : \A l \in bad : n <= l
    <3> HIDE DEF bad
    <3> QED BY <2>1, LeastNat
  <2>3. n \in 0..N /\ ~Ok(n) /\ n \in Nat
    BY <2>1, <2>2
  <2>4. CASE n = 0
    <3>1. g[0] \in SUBSET Reached /\ t \in g[0] /\ \A x \in g[0] : x = t
      BY <1>4
    <3>2. \A k \in 0..0 : g[k] \subseteq g[0]
      OBVIOUS
    <3>3. \A x \in g[0] : 0 \in 0..0 /\ x \in g[0] /\ Place(x) + 0 <= M
      BY <3>1, <1>1
    <3>4. Ok(0)
      BY <3>1, <3>2, <3>3
    <3> QED BY <2>3, <2>4, <3>4
  <2>5. CASE n # 0
    <3> DEFINE l == n - 1
    <3>1. l \in 0..N /\ l \in Nat /\ n = l + 1 /\ l \notin bad
      <4> HIDE DEF bad
      <4> QED BY <2>1, <2>2, <2>3, <2>5, <1>1
    <3>2. Ok(l)
      BY <3>1
    <3>3. g[n] = AboveAll(g[l])
      BY <1>4, <2>3, <2>5
    <3> HIDE DEF l
    <3>4. /\ \A x : x \in g[n] <=> x \in g[l] \/ \E y \in g[l] \ {Base} : x = Prev(y)
          /\ g[n] \in SUBSET Reached
      BY <3>2, <3>3, ClimbStep
    <3>5. t \in g[n] /\ g[l] \subseteq g[n]
      BY <3>2, <3>4
    <3>6. \A x \in g[n] : x = t \/ \E y \in g[n] \ {Base} : Prev(y) = x
      BY <3>2, <3>4, <3>5
    <3>7. \A k \in 0..n : g[k] \subseteq g[n]
      <4> SUFFICES ASSUME NEW k \in 0..n PROVE g[k] \subseteq g[n] OBVIOUS
      <4>1. k = n \/ k \in 0..l
        BY <3>1
      <4> QED BY <4>1, <3>2, <3>5
    <3>8. ASSUME NEW x \in g[n] PROVE \E k \in 0..n : x \in g[k] /\ Place(x) + k <= M
      <4>1. CASE x \in g[l]
        <5>1. PICK k \in 0..l : x \in g[k] /\ Place(x) + k <= M
          BY <4>1, <3>2
        <5>2. k \in 0..n
          BY <3>1
        <5> QED BY <5>1, <5>2
      <4>2. ASSUME NEW y \in g[l] \ {Base}, x = Prev(y)
            PROVE  \E k \in 0..n : x \in g[k] /\ Place(x) + k <= M
        <5>1. PICK k \in 0..l : y \in g[k] /\ Place(y) + k <= M
          BY <3>2
        <5>2. y \in Reached /\ y \in Found
          BY <3>2 DEF Found
        <5>3. Prev(y) \in Reached
          BY <5>2 DEF TreeInv
        <5>4. Place(x) < Place(y) /\ Place(x) \in 0..M /\ Place(y) \in 0..M
          BY <5>2, <5>3, <4>2, <1>1
        <5>5. k + 1 \in 0..n /\ k + 1 \in 0..N /\ k + 1 # 0 /\ (k + 1) - 1 = k
          BY <3>1, <2>3, <1>1
        <5>6. Place(x) + (k + 1) <= M
          BY <5>1, <5>4, <3>1, <1>1
        <5>7. g[k] \subseteq g[l] /\ g[k] \in SUBSET Reached
          BY <3>2
        <5>8. g[k + 1] = AboveAll(g[k])
          BY <5>5, <1>4
        <5>9. x \in g[k + 1]
          BY <5>1, <5>7, <5>8, <4>2, ClimbStep
        <5> QED BY <5>5, <5>6, <5>9
      <4> QED BY <4>1, <4>2, <3>4
    <3>9. Ok(n)
      BY <3>4, <3>5, <3>6, <3>7, <3>8
    <3> QED BY <2>3, <3>9
  <2> QED BY <2>4, <2>5
<1>6. Ok(N)
  <2>1. N \in 0..N
    BY <1>1
  <2> QED BY <2>1, <1>5
<1>7. ASSUME NEW x \in g[N] \ {Base} PROVE Prev(x) \in g[N]
  <2>1. PICK k \in 0..N : x \in g[k] /\ Place(x) + k <= M
    BY <1>6
  <2>2. x \in Reached /\ g[k] \subseteq g[N] /\ g[k] \in SUBSET Reached
    BY <1>6
  <2>3. Place(x) \in 0..M /\ Place(x) # 0
    BY <2>2, <1>1
  <2>4. k + 1 \in 0..N /\ k + 1 # 0 /\ (k + 1) - 1 = k
    BY <2>1, <2>3, <1>1
  <2>5. g[k + 1] = AboveAll(g[k])
    BY <2>4, <1>4
  <2>6. Prev(x) \in g[k + 1]
    BY <2>1, <2>2, <2>5, ClimbStep
  <2>7. g[k + 1] \subseteq g[N]
    BY <2>4, <1>6
  <2> QED BY <2>6, <2>7
<1>8. \A j : j \in PathJoins(t) <=> \E s \in g[N] \ {Base} : j = Via(s)
  BY <1>3, <1>6, ClimbStep
<1> QED BY <1>6, <1>7, <1>8

-----------------------------------------------------------------------------
\* After the search the tree stays.
LEMMA SameTree ==
  ASSUME UNCHANGED <<joins, parent>>
  PROVE  /\ Reached' = Reached /\ Found' = Found
         /\ \A t : Prev(t)' = Prev(t) /\ Via(t)' = Via(t)
         /\ \A t : Via(Prev(t))' = Via(Prev(t))
         /\ TreeInv => TreeInv'
         /\ \A t : Explored(t) => Explored(t)'
<1>1. joins' = joins /\ parent' = parent
  OBVIOUS
<1>2. Reached' = Reached /\ Found' = Found
  BY <1>1 DEF Reached, Found
<1>3. \A t : Prev(t)' = Prev(t) /\ Via(t)' = Via(t) /\ Via(Prev(t))' = Via(Prev(t))
  BY <1>1 DEF Prev, Via
<1>4. \A t : Connected(t)' <=> Connected(t)
  BY <1>1 DEF Connected
<1>5. TreeInv => TreeInv'
  BY <1>1, <1>2, <1>3, <1>4 DEF TreeInv, Links
<1>6. \A t : Explored(t) => Explored(t)'
  BY <1>1, <1>2 DEF Explored, Links
<1> QED BY <1>2, <1>3, <1>5, <1>6

\* The joins collected for the needed tables.
LEMMA CollectRequires ==
  ASSUME JoinInv, Collect
  PROVE  /\ required' \in SUBSET (1..Len(joins))
         /\ \A t \in Found : t \in needed => Via(t) \in required'
         /\ \A t \in Found : Via(t) \in required' /\ Prev(t) # Base => Via(Prev(t)) \in required'
         /\ \A t \in Found : Via(t) \in required' =>
              t \in needed \/ \E s \in Found : Prev(s) = t /\ Via(s) \in required'
<1>0. /\ JoinTypeOK /\ TreeInv /\ OrderInv /\ \A t \in Found : Awaited(Via(t))
      /\ required' = UNION {PathJoins(t) : t \in needed \cap Reached}
  BY DEF JoinInv, SearchInv, Collect, Reached
<1>1. \A j : j \in required' <=> \E n \in needed \cap Reached : j \in PathJoins(n)
  BY <1>0
<1>2. ASSUME NEW n \in needed \cap Reached
      PROVE  \E W \in SUBSET Reached :
               /\ n \in W
               /\ \A j : j \in PathJoins(n) <=> \E s \in W \ {Base} : j = Via(s)
               /\ \A x \in W \ {Base} : Prev(x) \in W
               /\ \A x \in W : x = n \/ \E y \in W \ {Base} : Prev(y) = x
  BY <1>0, PathJoinsAre
<1>3. \A W \in SUBSET Reached : \A s \in W \ {Base} : s \in Found
  BY DEF Found
<1>4. required' \in SUBSET (1..Len(joins))
  <2> SUFFICES ASSUME NEW j \in required' PROVE j \in 1..Len(joins)
    OBVIOUS
  <2>1. PICK n \in needed \cap Reached : j \in PathJoins(n)
    BY <1>1
  <2>2. PICK s \in Found : j = Via(s)
    BY <2>1, <1>2, <1>3
  <2> QED BY <2>2, <1>0 DEF TreeInv
<1>5. ASSUME NEW t \in Found, t \in needed PROVE Via(t) \in required'
  <2>1. t \in needed \cap Reached /\ t # Base
    BY <1>5 DEF Found
  <2>2. Via(t) \in PathJoins(t)
    BY <2>1, <1>2
  <2> QED BY <2>1, <2>2, <1>1
<1>6. ASSUME NEW t \in Found, Via(t) \in required'
      PROVE  /\ Prev(t) # Base => Via(Prev(t)) \in required'
             /\ t \in needed \/ \E s \in Found : Prev(s) = t /\ Via(s) \in required'
  <2>1. PICK n \in needed \cap Reached : Via(t) \in PathJoins(n)
    BY <1>1, <1>6
  <2>2. PICK W \in SUBSET Reached :
               /\ \A j : j \in PathJoins(n) <=> \E s \in W \ {Base} : j = Via(s)
               /\ \A x \in W \ {Base} : Prev(x) \in W
               /\ \A x \in W : x = n \/ \E y \in W \ {Base} : Prev(y) = x
    BY <1>2
  <2>3. PICK s \in W \ {Base} : Via(t) = Via(s)
    BY <2>1, <2>2
  <2>4. s = t
    BY <2>3, <1>0, <1>3 DEF TreeInv
  <2>5. t \in W \ {Base} /\ Prev(t) \in W
    BY <2>2, <2>3, <2>4
  <2>6. ASSUME NEW y \in W \ {Base} PROVE Via(y) \in required' /\ y \in Found
    <3>1. Via(y) \in PathJoins(n)
      BY <2>2
    <3> QED BY <3>1, <1>1, <1>3
  <2>7. Prev(t) # Base => Via(Prev(t)) \in required'
    BY <2>5, <2>6
  <2>8. t = n \/ \E y \in W \ {Base} : Prev(y) = t
    BY <2>2, <2>5
  <2>9. n \in needed
    OBVIOUS
  <2> QED BY <2>6, <2>7, <2>8, <2>9
<1> QED BY <1>4, <1>5, <1>6

\* The end of the search.
LEMMA CollectKeeps == ASSUME JoinInv, Collect PROVE JoinInv'
<1>0. /\ JoinTypeOK /\ TreeInv /\ OrderInv /\ SearchInv /\ JoinsChain
      /\ phase = "search" /\ queue = <<>>
      /\ unreachable' = needed \ (needed \cap Reached)
      /\ phase' = IF unreachable' = {} THEN "emit" ELSE "refused"
      /\ UNCHANGED <<joins, needed, queue, parent, discovery, clauses>>
  BY DEF JoinInv, Collect, Reached
<1>1. /\ required' \in SUBSET (1..Len(joins))
      /\ \A t \in Found : t \in needed => Via(t) \in required'
      /\ \A t \in Found : Via(t) \in required' /\ Prev(t) # Base => Via(Prev(t)) \in required'
      /\ \A t \in Found : Via(t) \in required' =>
           t \in needed \/ \E s \in Found : Prev(s) = t /\ Via(s) \in required'
  BY CollectRequires
<1>2. /\ Reached' = Reached /\ Found' = Found
      /\ \A t : Prev(t)' = Prev(t) /\ Via(t)' = Via(t)
      /\ \A t : Via(Prev(t))' = Via(Prev(t))
      /\ TreeInv' /\ \A t : Explored(t) => Explored(t)'
  <2>1. UNCHANGED <<joins, parent>>
    BY <1>0
  <2> QED BY <2>1, <1>0, SameTree
<1>3. phase' \in {"emit", "refused"} /\ (phase' = "emit" <=> needed \subseteq Reached)
  BY <1>0
<1>4. JoinTypeOK'
  <2>1. unreachable' \in SUBSET Tables
    BY <1>0 DEF JoinTypeOK
  <2>2. phase' \in {"search", "emit", "done", "refused"}
    BY <1>3
  <2> QED BY <1>0, <1>1, <2>1, <2>2 DEF JoinTypeOK
<1>5. OrderInv'
  BY <1>0, <1>2 DEF OrderInv
<1>6. SearchInv'
  <2>1. clauses' = <<>>
    BY <1>0 DEF SearchInv
  <2>2. \A t \in Reached : Explored(t)
    <3>1. \A k : k \notin 1..Len(queue)
      BY <1>0
    <3> QED BY <3>1, <1>0 DEF SearchInv
  <2>3. \A t \in Reached' : Explored(t)'
    BY <2>2, <1>2
  <2>4. phase' = "refused" => \E t \in needed' : t \notin Reached'
    BY <1>0, <1>2, <1>3
  <2>5. phase' # "search"
    BY <1>3
  <2> QED BY <2>1, <2>3, <2>4, <2>5 DEF SearchInv
<1>7. phase' = "emit" => RequiredInv'
  BY <1>0, <1>1, <1>2, <1>3 DEF RequiredInv
<1>8. ClausesInv'
  <2>1. \A t \in Found : Awaited(Via(t))
    BY <1>0 DEF SearchInv
  <2>2. \A t \in Found' : Awaited(Via(t))'
    BY <2>1, <1>0, <1>2 DEF Awaited
  <2>3. clauses' = <<>>
    BY <1>0 DEF SearchInv
  <2>4. \A i : i \notin 1..Len(clauses')
    BY <2>3
  <2> QED BY <2>2, <2>4 DEF ClausesInv
<1>9. JoinsChain'
  BY <1>0 DEF JoinsChain
<1>10. phase' # "done"
  BY <1>3
<1> QED BY <1>2, <1>4, <1>5, <1>6, <1>7, <1>8, <1>9, <1>10 DEF JoinInv

-----------------------------------------------------------------------------
\* What is listed after the first join is taken off.
LEMMA TakenOff ==
  ASSUME JoinTypeOK, OrderInv, discovery # <<>>, discovery' = Tail(discovery)
  PROVE  /\ 1 \in 1..Len(discovery) /\ Head(discovery) = discovery[1]
         /\ discovery' \in Seq(1..Len(joins))
         /\ \A k \in 1..Len(discovery') : k + 1 \in 1..Len(discovery) /\ discovery'[k] = discovery[k + 1]
         /\ \A j : Awaited(j)' <=> Awaited(j) /\ j # Head(discovery)
<1> DEFINE D == 1..Len(joins)
<1>1. discovery \in Seq(D)
  BY DEF JoinTypeOK
<1> HIDE DEF D
<1>2. /\ 1 \in 1..Len(discovery) /\ Head(discovery) = discovery[1] /\ Len(discovery) \in Nat
      /\ discovery' \in Seq(D) /\ Len(discovery) = Len(discovery') + 1 /\ Len(discovery') \in Nat
      /\ \A k \in 1..Len(discovery') : k + 1 \in 1..Len(discovery) /\ discovery'[k] = discovery[k + 1]
  BY <1>1
<1>3. ASSUME NEW j, Awaited(j)' PROVE Awaited(j) /\ j # Head(discovery)
  <2>1. PICK k \in 1..Len(discovery') : discovery'[k] = j
    BY <1>3 DEF Awaited
  <2>2. k + 1 \in 1..Len(discovery) /\ discovery[k + 1] = j /\ k + 1 # 1
    BY <2>1, <1>2
  <2>3. Awaited(j)
    BY <2>2 DEF Awaited
  <2>4. j # Head(discovery)
    BY <2>2, <1>2 DEF OrderInv
  <2> QED BY <2>3, <2>4
<1>4. ASSUME NEW j, Awaited(j), j # Head(discovery) PROVE Awaited(j)'
  <2>1. PICK k \in 1..Len(discovery) : discovery[k] = j
    BY <1>4 DEF Awaited
  <2>2. k # 1
    BY <2>1, <1>2, <1>4
  <2>3. k - 1 \in 1..Len(discovery') /\ (k - 1) + 1 = k
    BY <2>2, <1>2
  <2>4. discovery'[k - 1] = j
    BY <2>1, <2>3, <1>2
  <2> QED BY <2>3, <2>4 DEF Awaited
<1> QED BY <1>2, <1>3, <1>4 DEF D

\* The clause a required join becomes: its table, hung on the one it was found
\* from, whichever way the join was declared.
LEMMA ClauseOf ==
  ASSUME JoinInv, BuildJoin, NEW t \in Found, Head(discovery) = Via(t)
  PROVE  /\ Via(t) \notin required => clauses' = clauses
         /\ Via(t) \in required =>
              /\ Prev(t) \in Joined /\ t \notin Joined
              /\ clauses' = Append(clauses, [added |-> t, onto |-> Prev(t)])
<1>0. /\ JoinTypeOK /\ TreeInv /\ OrderInv /\ RequiredInv /\ ClausesInv /\ discovery # <<>>
      /\ discovery' = Tail(discovery)
  BY DEF JoinInv, BuildJoin
<1> DEFINE p == Prev(t)
           j == joins[Via(t)]
<1>1. Via(t) \notin required => clauses' = clauses
  BY DEF BuildJoin
<1>2. ASSUME Via(t) \in required
      PROVE  p \in Joined /\ t \notin Joined /\ clauses' = Append(clauses, [added |-> t, onto |-> p])
  <2>1. 1 \in 1..Len(discovery) /\ discovery[1] = Via(t)
    BY <1>0, TakenOff
  <2>2. p \in Joined
    <3>1. CASE p = Base
      BY <3>1 DEF Joined
    <3>2. CASE p # Base
      <4>1. p \in Found
        BY <3>2, <1>0 DEF TreeInv, Found
      <4>2. Via(p) \in required
        BY <3>2, <1>0, <1>2 DEF RequiredInv
      <4>3. ~Awaited(Via(p))
        <5> SUFFICES ASSUME NEW l \in 1..Len(discovery), discovery[l] = Via(p) PROVE FALSE
          BY DEF Awaited
        <5>1. l < 1
          BY <2>1, <3>2, <1>0 DEF OrderInv
        <5> QED BY <5>1
      <4> QED BY <4>1, <4>2, <4>3, <1>0 DEF ClausesInv, Joined
    <3> QED BY <3>1, <3>2
  <2>3. t \notin Joined
    <3>1. t # Base
      BY DEF Found
    <3>2. Awaited(Via(t))
      BY <2>1 DEF Awaited
    <3>3. ~\E i \in 1..Len(clauses) : clauses[i].added = t
      BY <3>2, <1>0 DEF ClausesInv
    <3> QED BY <3>1, <3>3 DEF Joined
  <2>4. (j.from = p /\ j.to = t) \/ (j.from = t /\ j.to = p)
    BY <1>0 DEF TreeInv, Links
  <2>5. clauses' = IF Via(t) \notin required \/ (j.from \in Joined /\ j.to \in Joined) THEN clauses
                   ELSE IF j.to \in Joined
                   THEN Append(clauses, [added |-> j.from, onto |-> j.to])
                   ELSE Append(clauses, [added |-> j.to, onto |-> j.from])
    BY DEF BuildJoin
  <2> HIDE DEF p, j
  <2> QED BY <1>2, <2>2, <2>3, <2>4, <2>5
<1> QED BY <1>1, <1>2

\* A join emitted, or passed over.
LEMMA BuildJoinKeeps == ASSUME JoinInv, BuildJoin PROVE JoinInv'
<1>0. /\ JoinTypeOK /\ TreeInv /\ OrderInv /\ SearchInv /\ RequiredInv /\ ClausesInv /\ JoinsChain
      /\ phase = "emit" /\ discovery # <<>> /\ discovery' = Tail(discovery)
      /\ UNCHANGED <<joins, needed, phase, queue, parent, required, unreachable>>
  BY DEF JoinInv, BuildJoin
<1>1. /\ 1 \in 1..Len(discovery) /\ Head(discovery) = discovery[1]
      /\ discovery' \in Seq(1..Len(joins))
      /\ \A k \in 1..Len(discovery') : k + 1 \in 1..Len(discovery) /\ discovery'[k] = discovery[k + 1]
      /\ \A j : Awaited(j)' <=> Awaited(j) /\ j # Head(discovery)
  BY <1>0, TakenOff
<1>2. PICK t \in Found : Head(discovery) = Via(t)
  BY <1>0, <1>1 DEF OrderInv
<1>3. /\ Via(t) \notin required => clauses' = clauses
      /\ Via(t) \in required =>
           /\ Prev(t) \in Joined /\ t \notin Joined
           /\ clauses' = Append(clauses, [added |-> t, onto |-> Prev(t)])
  BY <1>2, ClauseOf
<1>4. /\ Reached' = Reached /\ Found' = Found
      /\ \A s : Prev(s)' = Prev(s) /\ Via(s)' = Via(s)
      /\ \A s : Via(Prev(s))' = Via(Prev(s))
      /\ TreeInv' /\ \A s : Explored(s) => Explored(s)'
  <2>1. UNCHANGED <<joins, parent>>
    BY <1>0
  <2> QED BY <2>1, <1>0, SameTree
<1> DEFINE C == [added : Tables, onto : Tables]
           c == [added |-> t, onto |-> Prev(t)]
           n == Len(clauses)
<1>5. c \in C /\ c.added = t /\ c.onto = Prev(t)
  <2>1. t \in Tables /\ Prev(t) \in Tables
    BY <1>0 DEF JoinTypeOK, TreeInv, Found, Reached
  <2> QED BY <2>1
<1>6. clauses \in Seq(C)
  BY <1>0 DEF JoinTypeOK
<1> HIDE DEF C, c
<1>7. n \in Nat
  BY <1>6
<1>8. ASSUME NEW s \in Found PROVE Awaited(Via(s))' <=> Awaited(Via(s)) /\ s # t
  <2>1. PICK j : j = Via(s)
    OBVIOUS
  <2>2. Awaited(j)' <=> Awaited(j) /\ j # Via(t)
    BY <1>1, <1>2
  <2>3. j # Via(t) <=> s # t
    BY <2>1, <1>0 DEF TreeInv
  <2>4. Via(s)' = j
    BY <2>1, <1>4
  <2>5. Awaited(Via(s))' <=> Awaited(j)'
    BY <2>4 DEF Awaited
  <2> QED BY <2>1, <2>2, <2>3, <2>5
<1> DEFINE Emitted ==
              /\ clauses' \in Seq(C) /\ JoinsChain'
              /\ \A s \in Found : (Via(s) \in required /\ ~Awaited(Via(s))')
                                    <=> \E i \in 1..Len(clauses') : clauses'[i].added = s
              /\ \A i \in 1..Len(clauses') :
                   clauses'[i].added \in Found /\ clauses'[i].onto = Prev(clauses'[i].added)
<1>9. ASSUME Via(t) \in required PROVE Emitted
  <2>1. clauses' = Append(clauses, c) /\ Prev(t) \in Joined /\ t \notin Joined
    BY <1>3, <1>9 DEF c
  <2>2. /\ clauses' \in Seq(C) /\ Len(clauses') = n + 1
        /\ \A i \in 1..n : clauses'[i] = clauses[i] /\ i \in 1..(n + 1)
        /\ clauses'[n + 1] = c /\ n + 1 \in 1..(n + 1)
        /\ \A i \in 1..(n + 1) : i \in 1..n \/ i = n + 1
    BY <1>5, <1>6, <1>7, <2>1
  <2>3. \A s : (\E i \in 1..Len(clauses') : clauses'[i].added = s) <=>
               (\E i \in 1..n : clauses[i].added = s) \/ s = t
    BY <2>2, <1>5
  <2>4. ASSUME NEW s \in Found
        PROVE  (Via(s) \in required /\ ~Awaited(Via(s))') <=> \E i \in 1..Len(clauses') : clauses'[i].added = s
    <3>1. CASE s = t
      BY <3>1, <1>8, <1>9, <2>3
    <3>2. CASE s # t
      <4>1. Awaited(Via(s))' <=> Awaited(Via(s))
        BY <3>2, <1>8
      <4>2. (Via(s) \in required /\ ~Awaited(Via(s))) <=> \E i \in 1..n : clauses[i].added = s
        BY <1>0 DEF ClausesInv
      <4> QED BY <4>1, <4>2, <3>2, <2>3
    <3> QED BY <3>1, <3>2
  <2>5. ASSUME NEW i \in 1..Len(clauses')
        PROVE  clauses'[i].added \in Found /\ clauses'[i].onto = Prev(clauses'[i].added)
    <3>1. CASE i \in 1..n
      BY <3>1, <2>2, <1>0 DEF ClausesInv
    <3>2. CASE i = n + 1
      BY <3>2, <2>2, <1>5
    <3> QED BY <3>1, <3>2, <2>2
  <2>6. ASSUME NEW i \in 1..Len(clauses')
        PROVE  LET before == {Base} \cup {clauses'[k].added : k \in 1..(i - 1)} IN
               clauses'[i].onto \in before /\ clauses'[i].added \notin before
    <3>1. ASSUME NEW k \in 1..(i - 1) PROVE k \in 1..n /\ clauses'[k] = clauses[k]
      <4>1. k \in 1..n
        BY <2>2, <1>7
      <4> QED BY <4>1, <2>2
    <3>2. {clauses'[k].added : k \in 1..(i - 1)} = {clauses[k].added : k \in 1..(i - 1)}
      BY <3>1
    <3>3. CASE i \in 1..n
      <4>1. clauses'[i] = clauses[i]
        BY <3>3, <2>2
      <4> QED BY <4>1, <3>2, <3>3, <1>0 DEF JoinsChain
    <3>4. CASE i = n + 1
      <4>1. i - 1 = n /\ clauses'[i] = c
        BY <3>4, <2>2, <1>7
      <4>2. {Base} \cup {clauses[k].added : k \in 1..(i - 1)} = Joined
        BY <4>1 DEF Joined
      <4> QED BY <4>1, <4>2, <3>2, <2>1, <1>5
    <3> QED BY <3>3, <3>4, <2>2
  <2>7. JoinsChain'
    BY <2>6 DEF JoinsChain
  <2> QED BY <2>2, <2>4, <2>5, <2>7
<1>10. ASSUME Via(t) \notin required PROVE Emitted
  <2>1. clauses' = clauses
    BY <1>3, <1>10
  <2>2. ASSUME NEW s \in Found
        PROVE  (Via(s) \in required /\ ~Awaited(Via(s))') <=> \E i \in 1..Len(clauses') : clauses'[i].added = s
    <3>1. (Via(s) \in required /\ ~Awaited(Via(s))) <=> \E i \in 1..n : clauses[i].added = s
      BY <1>0 DEF ClausesInv
    <3>2. CASE s = t
      BY <3>1, <3>2, <2>1, <1>10
    <3>3. CASE s # t
      BY <3>1, <3>3, <2>1, <1>8
    <3> QED BY <3>2, <3>3
  <2>3. \A i \in 1..Len(clauses') :
          clauses'[i].added \in Found /\ clauses'[i].onto = Prev(clauses'[i].added)
    BY <2>1, <1>0 DEF ClausesInv
  <2>4. JoinsChain'
    BY <2>1, <1>0 DEF JoinsChain
  <2> QED BY <2>1, <2>2, <2>3, <2>4, <1>6
<1> HIDE DEF Emitted
<1>11. Emitted
  BY <1>9, <1>10
<1>12. ClausesInv'
  <2>1. \A s \in Found' : (Via(s) \in required /\ ~Awaited(Via(s)))'
                             <=> \E i \in 1..Len(clauses') : clauses'[i].added = s
    BY <1>0, <1>4, <1>11 DEF Emitted
  <2>2. \A i \in 1..Len(clauses') :
            clauses'[i].added \in Found' /\ clauses'[i].onto = Prev(clauses[i].added)'
    BY <1>0, <1>4, <1>11 DEF Prev, Emitted
  <2> QED BY <2>1, <2>2 DEF ClausesInv
<1>13. JoinTypeOK'
  BY <1>0, <1>1, <1>11 DEF JoinTypeOK, C, Emitted
<1>14. OrderInv'
  <2>1. ASSUME NEW k \in 1..Len(discovery'), NEW l \in 1..Len(discovery'), discovery'[k] = discovery'[l]
        PROVE  k = l
    <3>1. k + 1 = l + 1
      BY <2>1, <1>0, <1>1 DEF OrderInv
    <3>2. k \in Int /\ l \in Int
      OBVIOUS
    <3> QED BY <3>1, <3>2
  <2>2. \A k \in 1..Len(discovery') : \E s \in Found' : discovery'[k] = Via(s)'
    BY <1>0, <1>1, <1>4 DEF OrderInv
  <2>3. ASSUME NEW s \in Found', NEW k \in 1..Len(discovery'), NEW l \in 1..Len(discovery'),
               Prev(s)' # Base, discovery'[k] = Via(s)', discovery'[l] = Via(Prev(s))'
        PROVE  l < k
    <3>1. s \in Found /\ Prev(s) # Base /\ discovery[k + 1] = Via(s) /\ discovery[l + 1] = Via(Prev(s))
      BY <2>3, <1>1, <1>4
    <3>2. k + 1 \in 1..Len(discovery) /\ l + 1 \in 1..Len(discovery)
      BY <1>1
    <3>3. l + 1 < k + 1
      BY <3>1, <3>2, <1>0 DEF OrderInv
    <3>4. k \in Int /\ l \in Int
      OBVIOUS
    <3> QED BY <3>3, <3>4
  <2> QED BY <2>1, <2>2, <2>3 DEF OrderInv
<1>15. phase' = "emit" /\ SearchInv'
  BY <1>0, <1>4 DEF SearchInv
<1>16. RequiredInv'
  BY <1>0, <1>4 DEF RequiredInv
<1> QED BY <1>4, <1>11, <1>12, <1>13, <1>14, <1>15, <1>16 DEF JoinInv, Emitted

\* A step that leaves the search and the clauses alone.
LEMMA SameClauses ==
  ASSUME JoinInv, UNCHANGED <<joins, needed, parent, discovery, required, clauses>>
  PROVE  /\ TreeInv' /\ OrderInv' /\ JoinsChain'
         /\ RequiredInv => RequiredInv'
         /\ ClausesInv => ClausesInv'
         /\ Reached' = Reached /\ \A t : Explored(t) => Explored(t)'
         /\ (\A t \in Found : Awaited(Via(t))) => \A t \in Found' : Awaited(Via(t))'
<1>0. /\ joins' = joins /\ needed' = needed /\ parent' = parent /\ discovery' = discovery
      /\ required' = required /\ clauses' = clauses /\ TreeInv /\ OrderInv /\ JoinsChain
  BY DEF JoinInv
<1>1. /\ Reached' = Reached /\ Found' = Found
      /\ \A s : Prev(s)' = Prev(s) /\ Via(s)' = Via(s)
      /\ \A s : Via(Prev(s))' = Via(Prev(s))
      /\ TreeInv' /\ \A s : Explored(s) => Explored(s)'
  BY <1>0, SameTree
<1>2. JoinsChain'
  BY <1>0 DEF JoinsChain
<1>3. OrderInv'
  BY <1>0, <1>1 DEF OrderInv
<1>4. RequiredInv => RequiredInv'
  BY <1>0, <1>1 DEF RequiredInv
<1>5. ASSUME NEW s \in Found PROVE Awaited(Via(s))' <=> Awaited(Via(s))
  BY <1>0, <1>1 DEF Awaited
<1>6. ASSUME ClausesInv PROVE ClausesInv'
  <2>1. \A i \in 1..Len(clauses) : Prev(clauses[i].added)' = Prev(clauses[i].added)
    BY <1>0 DEF Prev
  <2>2. \A s \in Found' : (Via(s) \in required /\ ~Awaited(Via(s)))'
                             <=> \E i \in 1..Len(clauses') : clauses'[i].added = s
    BY <1>0, <1>1, <1>5, <1>6 DEF ClausesInv
  <2> QED BY <1>0, <1>1, <1>6, <2>1, <2>2 DEF ClausesInv
<1>7. (\A t \in Found : Awaited(Via(t))) => \A t \in Found' : Awaited(Via(t))'
  BY <1>1, <1>5
<1> QED BY <1>1, <1>2, <1>3, <1>4, <1>6, <1>7

\* The last join.
LEMMA BuildDoneKeeps == ASSUME JoinInv, BuildDone PROVE JoinInv'
<1>0. /\ JoinTypeOK /\ SearchInv /\ RequiredInv /\ ClausesInv
      /\ phase = "emit" /\ discovery = <<>> /\ phase' = "done"
      /\ UNCHANGED <<joins, needed, queue, parent, discovery, required, unreachable, clauses>>
  BY DEF JoinInv, BuildDone
<1>1. /\ TreeInv' /\ OrderInv' /\ JoinsChain' /\ RequiredInv' /\ ClausesInv'
      /\ Reached' = Reached /\ \A t : Explored(t) => Explored(t)'
  BY <1>0, SameClauses
<1>2. JoinTypeOK' /\ discovery' = <<>>
  BY <1>0 DEF JoinTypeOK
<1>3. SearchInv'
  BY <1>0, <1>1 DEF SearchInv
<1> QED BY <1>1, <1>2, <1>3 DEF JoinInv

-----------------------------------------------------------------------------

\* Only the base is reached, and queued.
LEMMA JoinInitInv == JoinInit => JoinInv
<1> SUFFICES ASSUME JoinInit PROVE JoinInv OBVIOUS
<1> DEFINE R == [from : Tables, to : Tables]
<1>1. joins \in SeqOf(R, MaxJoins) /\ phase = "search" /\ queue = <<Base>>
      /\ parent = [t \in {Base} |-> {}] /\ discovery = <<>> /\ required = {} /\ unreachable = {}
      /\ clauses = <<>>
  BY DEF JoinInit
<1>2. needed \in SUBSET Tables
  BY JoinAssumption DEF JoinInit, NeededTables
<1> HIDE DEF R
<1>3. joins \in Seq(R)
  <2>1. PICK m \in 0..MaxJoins : joins \in [1..m -> R]
    BY <1>1 DEF SeqOf
  <2> QED BY <2>1
<1>4. Reached = {Base} /\ Found = {} /\ parent[Base] = {}
  BY <1>1 DEF Reached, Found
<1>5. JoinTypeOK
  BY <1>1, <1>2, <1>3, <1>4, JoinAssumption DEF JoinTypeOK, R, Reached
<1>6. TreeInv
  BY <1>4 DEF TreeInv, Connected
<1>7. \A k : k \notin 1..Len(discovery) /\ k \notin 1..Len(clauses)
  BY <1>1
<1>8. OrderInv /\ JoinsChain
  BY <1>7 DEF OrderInv, JoinsChain
<1>9. SearchInv
  <2>1. 1 \in 1..Len(queue) /\ queue[1] = Base /\ \A k \in 1..Len(queue) : queue[k] = Base
    BY <1>1
  <2> QED BY <2>1, <1>1, <1>4 DEF SearchInv
<1> QED BY <1>1, <1>5, <1>6, <1>8, <1>9 DEF JoinInv

\* Every step keeps the invariant.
LEMMA JoinStepInv == JoinInv /\ [JoinNext]_joinVars => JoinInv'
<1> SUFFICES ASSUME JoinInv, [JoinNext]_joinVars PROVE JoinInv' OBVIOUS
<1>1. CASE Visit
  BY <1>1, VisitKeeps
<1>2. CASE Collect
  BY <1>2, CollectKeeps
<1>3. CASE BuildJoin
  BY <1>3, BuildJoinKeeps
<1>4. CASE BuildDone
  BY <1>4, BuildDoneKeeps
<1>5. CASE UNCHANGED joinVars
  <2>1. /\ joins' = joins /\ needed' = needed /\ phase' = phase /\ queue' = queue
        /\ parent' = parent /\ discovery' = discovery /\ required' = required
        /\ unreachable' = unreachable /\ clauses' = clauses
    BY <1>5 DEF joinVars
  <2>2. /\ TreeInv' /\ OrderInv' /\ JoinsChain'
        /\ RequiredInv => RequiredInv'
        /\ ClausesInv => ClausesInv'
        /\ Reached' = Reached /\ \A t : Explored(t) => Explored(t)'
        /\ (\A t \in Found : Awaited(Via(t))) => \A t \in Found' : Awaited(Via(t))'
    BY <2>1, SameClauses
  <2>3. JoinTypeOK'
    BY <2>1 DEF JoinInv, JoinTypeOK
  <2>4. SearchInv'
    BY <2>1, <2>2 DEF JoinInv, SearchInv
  <2> QED BY <2>1, <2>2, <2>3, <2>4 DEF JoinInv
<1> QED BY <1>1, <1>2, <1>3, <1>4, <1>5 DEF JoinNext

\* What the invariant says of a finished and of a refused query.
LEMMA JoinInvSound == JoinInv => JoinsCorrect
<1> SUFFICES ASSUME JoinInv PROVE JoinsCorrect OBVIOUS
<1>0. JoinTypeOK /\ TreeInv /\ OrderInv /\ SearchInv /\ JoinsChain
  BY DEF JoinInv
<1>1. ASSUME phase = "refused" PROVE \E t \in needed : ~Connected(t)
  <2>1. PICK t \in needed : t \notin Reached
    BY <1>0, <1>1 DEF SearchInv
  <2>2. \A s \in Reached : Explored(s)
    BY <1>0, <1>1 DEF SearchInv
  <2>3. Reached \in SUBSET Tables /\ Base \in Reached
    BY <1>0 DEF JoinTypeOK, TreeInv, Reached
  <2>4. ASSUME NEW i \in 1..Len(joins) PROVE joins[i].from \in Reached <=> joins[i].to \in Reached
    <3>1. joins[i].from \in Tables /\ joins[i].to \in Tables
      BY <1>0, <2>3, LinkedEnds
    <3>2. Links(i, joins[i].from, joins[i].to) /\ Links(i, joins[i].to, joins[i].from)
      BY DEF Links
    <3> QED BY <3>1, <3>2, <2>2 DEF Explored
  <2> QED BY <2>1, <2>3, <2>4 DEF Connected
<1>2. ASSUME phase = "done" PROVE \A t \in needed : Connected(t)
  BY <1>0, <1>2 DEF JoinInv, RequiredInv, TreeInv
<1>3. ASSUME phase = "done"
      PROVE  /\ needed \subseteq Joined
             /\ \A i \in 1..Len(clauses) :
                  \/ clauses[i].added \in needed
                  \/ \E k \in (i + 1)..Len(clauses) : clauses[k].onto = clauses[i].added
  <2>0. RequiredInv /\ ClausesInv /\ discovery = <<>>
    BY <1>3 DEF JoinInv
  <2>1. \A j : ~Awaited(j)
    BY <2>0 DEF Awaited
  <2>2. \A t \in Found : Via(t) \in required <=> \E i \in 1..Len(clauses) : clauses[i].added = t
    BY <2>0, <2>1 DEF ClausesInv
  <2>3. needed \subseteq Joined
    BY <2>0, <2>2 DEF RequiredInv, Joined, Found
  <2>4. ASSUME NEW i \in 1..Len(clauses), clauses[i].added \notin needed
        PROVE  \E k \in (i + 1)..Len(clauses) : clauses[k].onto = clauses[i].added
    <3> DEFINE t == clauses[i].added
    <3>1. t \in Found /\ t # Base
      BY <2>0 DEF ClausesInv, Found
    <3>2. Via(t) \in required
      BY <3>1, <2>2
    <3>3. PICK s \in Found : Prev(s) = t /\ Via(s) \in required
      BY <3>1, <3>2, <2>0, <2>4 DEF RequiredInv
    <3>4. PICK k \in 1..Len(clauses) : clauses[k].added = s
      BY <3>3, <2>2
    <3>5. clauses[k].onto = t
      BY <3>3, <3>4, <2>0 DEF ClausesInv
    <3>6. PICK m \in 1..(k - 1) : clauses[m].added = t
      <4>1. clauses[k].onto \in {Base} \cup {clauses[l].added : l \in 1..(k - 1)}
        BY <1>0 DEF JoinsChain
      <4> QED BY <4>1, <3>1, <3>5
    <3>7. m \notin 1..(i - 1)
      <4>1. clauses[i].added \notin {Base} \cup {clauses[l].added : l \in 1..(i - 1)}
        BY <1>0 DEF JoinsChain
      <4> QED BY <4>1, <3>6
    <3>8. Len(clauses) \in Nat
      BY <1>0 DEF JoinTypeOK
    <3>9. k \in (i + 1)..Len(clauses)
      BY <3>6, <3>7, <3>8
    <3> QED BY <3>5, <3>9
  <2> QED BY <2>3, <2>4
<1> QED BY <1>0, <1>1, <1>2, <1>3 DEF JoinsCorrect, RefusedIffUnconnected, JoinsSuffice

\* JoinsCorrect for any tables, joins and needed tables: a query is refused exactly
\* when it needs a table that the joins do not connect to the base, each JOIN adds
\* a new table to those before it, and the finished query joins what it needs and
\* nothing idle, though the search follows joins in both directions, keeps one way
\* to a table and emits in the order of discovery.
THEOREM JoinsHold == JoinSpec => []JoinsCorrect
<1>1. JoinInv => JoinsCorrect
  BY JoinInvSound
<1> QED BY <1>1, JoinInitInv, JoinStepInv, PTL DEF JoinSpec
=============================================================================
