-------------------------- MODULE SemanticPublish --------------------------
(***************************************************************************)
(* Drafts, published versions and rollbacks of one semantic model or       *)
(* composite (internal/semantic/repository.go, composite_publish.go,       *)
(* composite_repository.go).  The draft lives in one                       *)
(* table per part; a publish reads the parts with one query each,          *)
(* validates what it read and writes it as the next snapshot in a later    *)
(* transaction; snapshots are unique per version.                          *)
(***************************************************************************)
EXTENDS Naturals

CONSTANTS
    Publishers,    \* publish and rollback requests
    Editors,       \* requests that edit the draft
    Parts,         \* dimensions, metrics, joins
    Values,        \* contents of a part
    First,         \* content of a part of a new model
    ValidContexts, \* contexts that pass validation
    NoContext,
    MaxVersion     \* bound on the versions

Contexts == [Parts -> Values]
Versions == 1..MaxVersion

ASSUME PublishAssumption ==
    /\ MaxVersion \in Nat
    /\ First \in Values
    /\ ValidContexts \subseteq Contexts
    /\ NoContext \notin Contexts

VARIABLES
    draft,         \* part -> content
    status,        \* "draft" or "published"
    version,       \* version of the header row
    snapshot,      \* version -> context, or NoContext
    publish,       \* publisher -> where it is and what it has read
    editing,       \* editors that wrote a part and not yet the status
    unflagged      \* the draft was left unlike the version it is said to be

pubVars == <<draft, status, version, snapshot, publish, editing, unflagged>>

NotPublishing == [pc |-> "idle", base |-> 0, target |-> 0, got |-> NoContext, left |-> {}]

\* A publish that read the header at version base and has parts left to read,
\* and a publish or a rollback (target > 0) that has all it will write.
Reading(base, got, left) ==
    [pc |-> "read", base |-> base, target |-> 0, got |-> got, left |-> left]
Writing(base, target, got) ==
    [pc |-> "write", base |-> base, target |-> target, got |-> got, left |-> {}]

PubInit ==
    /\ draft = [p \in Parts |-> First]
    /\ status = "draft"
    /\ version = 0
    /\ snapshot = [v \in Versions |-> NoContext]
    /\ publish = [u \in Publishers |-> NotPublishing]
    /\ editing = {}
    /\ unflagged = FALSE

----------------------------------------------------------------------------
\* Mutant: the edit does not mark the model.
EditUnmarked(e, p, x) ==
    /\ draft[p] # x
    /\ draft' = [draft EXCEPT ![p] = x]
    /\ UNCHANGED <<status, version, snapshot, publish, editing, unflagged>>

\* CreateDimension, UpdateDimension, DeleteDimension and their like for
\* metrics, joins and enum mappings: the row is written ...
EditPart(e, p, x) ==
    /\ e \notin editing
    /\ draft[p] # x
    /\ draft' = [draft EXCEPT ![p] = x]
    /\ editing' = editing \cup {e}
    /\ UNCHANGED <<status, version, snapshot, publish, unflagged>>

\* ... and MarkModelDraft follows, in a statement of its own; it may fail.
MarkModelDraft(e) ==
    /\ e \in editing
    /\ status' \in {status, "draft"}
    /\ unflagged' = (unflagged \/ status' # "draft")
    /\ editing' = editing \ {e}
    /\ UNCHANGED <<draft, version, snapshot, publish>>

\* UpdateJoinDescription: validation does not look at it, and no mark follows.
DescribeJoin(p, x) ==
    /\ draft[p] # x
    /\ draft' = [draft EXCEPT ![p] = x]
    /\ draft' \in ValidContexts <=> draft \in ValidContexts
    /\ unflagged' = (unflagged \/ status = "published")
    /\ UNCHANGED <<status, version, snapshot, publish, editing>>

----------------------------------------------------------------------------
\* PublishModel, PublishComposite: GetFullModel reads the header ...
BeginPublish(u) ==
    /\ publish[u].pc = "idle"
    /\ publish' = [publish EXCEPT ![u] = Reading(version, draft, Parts)]
    /\ UNCHANGED <<draft, status, version, snapshot, editing, unflagged>>

\* ... and the parts by concurrent queries.
ReadPart(u, p) ==
    /\ publish[u].pc = "read"
    /\ p \in publish[u].left
    /\ publish' = [publish EXCEPT ![u] =
         Reading(publish[u].base, [publish[u].got EXCEPT ![p] = draft[p]],
                 publish[u].left \ {p})]
    /\ UNCHANGED <<draft, status, version, snapshot, editing, unflagged>>

\* Mutant: the draft is validated and not what was read of it.
ValidateDraft(u) ==
    /\ publish[u].pc = "read"
    /\ publish[u].left = {}
    /\ publish' = [publish EXCEPT ![u] =
         IF draft \in ValidContexts THEN Writing(publish[u].base, 0, publish[u].got)
         ELSE NotPublishing]
    /\ UNCHANGED <<draft, status, version, snapshot, editing, unflagged>>

\* ValidateContext on what was read; an invalid context is not published.
Validate(u) ==
    /\ publish[u].pc = "read"
    /\ publish[u].left = {}
    /\ publish' = [publish EXCEPT ![u] =
         IF publish[u].got \in ValidContexts THEN Writing(publish[u].base, 0, publish[u].got)
         ELSE NotPublishing]
    /\ UNCHANGED <<draft, status, version, snapshot, editing, unflagged>>

\* RollbackModel, RollbackComposite: the version is read, then the snapshot of
\* the target (the one before, unless named).
BeginRollback(u, target) ==
    /\ publish[u].pc = "idle"
    /\ target \in Versions
    /\ publish' = [publish EXCEPT ![u] =
         [pc |-> "target", base |-> version, target |-> target, got |-> NoContext, left |-> {}]]
    /\ UNCHANGED <<draft, status, version, snapshot, editing, unflagged>>

\* Mutant: it takes the snapshot of the version the header names.
ReadServed(u) ==
    /\ publish[u].pc = "target" /\ publish[u].base > 0
    /\ LET got == snapshot[publish[u].base] IN
       publish' = [publish EXCEPT ![u] =
         IF got = NoContext THEN NotPublishing
         ELSE Writing(publish[u].base, publish[u].target, got)]
    /\ UNCHANGED <<draft, status, version, snapshot, editing, unflagged>>

ReadTarget(u) ==
    /\ publish[u].pc = "target"
    /\ LET got == snapshot[publish[u].target] IN
       publish' = [publish EXCEPT ![u] =
         IF got = NoContext THEN NotPublishing
         ELSE Writing(publish[u].base, publish[u].target, got)]
    /\ UNCHANGED <<draft, status, version, snapshot, editing, unflagged>>

\* Mutants: the header is updated although the snapshot was refused; there is no
\* unique index.
WriteVersionTorn(u) ==
    LET next == publish[u].base + 1 IN
    /\ publish[u].pc = "write"
    /\ next \in Versions
    /\ version' = next
    /\ status' = "published"
    /\ unflagged' = TRUE
    /\ snapshot' = IF snapshot[next] = NoContext THEN [snapshot EXCEPT ![next] = publish[u].got]
                   ELSE snapshot
    /\ publish' = [publish EXCEPT ![u] = NotPublishing]
    /\ UNCHANGED <<draft, editing>>

WriteVersionOver(u) ==
    LET next == publish[u].base + 1 IN
    /\ publish[u].pc = "write"
    /\ next \in Versions
    /\ version' = next
    /\ status' = "published"
    /\ unflagged' = TRUE
    /\ snapshot' = [snapshot EXCEPT ![next] = publish[u].got]
    /\ publish' = [publish EXCEPT ![u] = NotPublishing]
    /\ UNCHANGED <<draft, editing>>

\* writePublishedVersionTx, writeCompositeVersionTx: the INSERT of a version
\* that exists violates UNIQUE(model_id, version) and undoes the transaction.
WriteVersion(u) ==
    LET next == publish[u].base + 1 IN
    /\ publish[u].pc = "write"
    /\ next \in Versions
    /\ IF snapshot[next] = NoContext
       THEN /\ snapshot' = [snapshot EXCEPT ![next] = publish[u].got]
            /\ version' = next
            /\ status' = "published"
            /\ unflagged' = (publish[u].target > 0 \/ publish[u].got # draft)
       ELSE UNCHANGED <<snapshot, version, status, unflagged>>
    /\ publish' = [publish EXCEPT ![u] = NotPublishing]
    /\ UNCHANGED <<draft, editing>>

\* A statement fails, the client goes away or the process stops.
PublishStops(u) ==
    /\ publish[u].pc \in {"read", "target", "write"}
    /\ publish' = [publish EXCEPT ![u] = NotPublishing]
    /\ UNCHANGED <<draft, status, version, snapshot, editing, unflagged>>

----------------------------------------------------------------------------
PubNext ==
    \/ \E e \in Editors : MarkModelDraft(e) \/ \E p \in Parts, x \in Values : EditPart(e, p, x)
    \/ \E p \in Parts, x \in Values : DescribeJoin(p, x)
    \/ \E u \in Publishers :
         \/ BeginPublish(u)
         \/ \E p \in Parts : ReadPart(u, p)
         \/ Validate(u)
         \/ \E t \in Versions : BeginRollback(u, t)
         \/ ReadTarget(u)
         \/ WriteVersion(u)
         \/ PublishStops(u)

PubSpec == PubInit /\ [][PubNext]_pubVars

----------------------------------------------------------------------------
PubTypeOK ==
    /\ draft \in Contexts
    /\ status \in {"draft", "published"}
    /\ version \in 0..MaxVersion
    /\ snapshot \in [Versions -> Contexts \cup {NoContext}]
    /\ publish \in [Publishers ->
         [pc : {"idle", "read", "target", "write"}, base : 0..MaxVersion,
          target : 0..MaxVersion, got : Contexts \cup {NoContext}, left : SUBSET Parts]]
    /\ editing \in SUBSET Editors
    /\ unflagged \in BOOLEAN

\* The snapshots are those of the versions up to the header's, without a gap,
\* however many requests publish and roll back at once.
VersionsDense == \A v \in Versions : snapshot[v] # NoContext <=> v <= version

\* Every version ever published, by publishing or by rolling back, is a
\* context that passed validation, although the draft is edited while it is
\* read and after.
PublishedValid == \A v \in Versions : snapshot[v] # NoContext => snapshot[v] \in ValidContexts

\* A published version is never replaced: of two requests that computed the
\* same next version one is refused.
NoVersionReplaced ==
    [][\A v \in Versions : snapshot[v] # NoContext => snapshot'[v] = snapshot[v]]_pubVars

\* A rollback to the version before restores exactly what was served before
\* the version that is served when it takes effect: a version published after
\* the rollback looked makes it fail instead.
RollbackUndoesLast ==
    [][\A u \in Publishers :
         (publish[u].pc = "write" /\ publish[u].target > 0
            /\ publish[u].target = publish[u].base - 1
            /\ publish'[u] = NotPublishing /\ version' # version)
         => snapshot'[version'] = snapshot[version - 1]]_pubVars

\* A model said to be published has the draft that was published, or an edit is
\* about to mark it; the exceptions are a rollback (which leaves the draft
\* alone), a mark that failed, an edit between a publish's read and its write,
\* and a join that was given another description.
DraftFlagged ==
    status = "published" =>
        draft = snapshot[version] \/ editing # {} \/ unflagged

\* The state of a model makes sense whatever is published, rolled back and
\* edited at once: dense versions, each validated, and a draft that differs from
\* what is served is flagged.
PublishSound == VersionsDense /\ PublishedValid /\ DraftFlagged

\* The history of a model is never rewritten, and the version a rollback adds
\* to it is the one before the last.
HistoryKept == NoVersionReplaced /\ RollbackUndoesLast
=============================================================================
