--------------------------- MODULE Conversations ---------------------------
(***************************************************************************)
(* One saved conversation and the browser tabs that edit it                *)
(* (internal/http/handlers/ai_conversations.go,                            *)
(* internal/metadata/ai_conversations.go).  A save carries an idempotency  *)
(* key and the version it builds on; it is answered from the ledger of     *)
(* keys, or applied in a transaction that locks the row.  A tab that gets  *)
(* no answer sends the same save again.                                    *)
(***************************************************************************)
EXTENDS Naturals, FiniteSets

CONSTANTS
    Tabs,
    Messages,     \* remote_ids
    Keys,         \* idempotency keys
    NoSave,
    MaxStragglers \* bound on the saves that go on after they were sent again

VARIABLES
    conv,         \* the row and its messages
    ledger,       \* key -> {} or {the payload, and the version it made}
    tab,          \* tab -> what it holds, and the save under way
    straggler,    \* saves sent again whose first send is still in the transaction
    acked,        \* keys of saves that were answered with 201
    gone          \* keys of saves of a conversation that was deleted

convVars == <<conv, ledger, tab, straggler, acked, gone>>

NoConversation == [version |-> 0, msgs |-> {}]

ConvInit ==
    /\ conv = NoConversation
    /\ ledger = [k \in Keys |-> {}]
    /\ tab = [t \in Tabs |-> [pc |-> "idle", version |-> 0, msgs |-> {}, key |-> NoSave, reply |-> 0]]
    /\ straggler = {}
    /\ acked = {} /\ gone = {}

Exists == conv.version > 0

\* The user writes a message.
Compose(t, m) ==
    /\ tab[t].pc = "idle"
    /\ \A u \in Tabs : m \notin tab[u].msgs
    /\ m \notin conv.msgs
    /\ tab' = [tab EXCEPT ![t].msgs = @ \cup {m}]
    /\ UNCHANGED <<conv, ledger, straggler, acked, gone>>

\* ListAIConversations; unsaved messages stay.
LoadConversation(t) ==
    /\ tab[t].pc = "idle"
    /\ Exists
    /\ tab' = [tab EXCEPT ![t].version = conv.version, ![t].msgs = @ \cup conv.msgs]
    /\ UNCHANGED <<conv, ledger, straggler, acked, gone>>

\* CreateConversation: a save with a key no other save has.
SaveConversation(t, k) ==
    /\ tab[t].pc = "idle"
    /\ ledger[k] = {}
    /\ \A u \in Tabs : tab[u].key # k
    /\ \A save \in straggler : save.key # k
    /\ tab' = [tab EXCEPT ![t].pc = "sent", ![t].key = k]
    /\ UNCHANGED <<conv, ledger, straggler, acked, gone>>

SaveRefused(t) == tab' = [tab EXCEPT ![t].pc = "idle", ![t].key = NoSave]

\* checkIdempotencyLedger, on a key that is there: the conversation of the
\* request is sent back, or the key is refused for another payload.
Replay(t) ==
    /\ tab[t].pc = "sent"
    /\ \E e \in ledger[tab[t].key] :
         IF e.msgs = tab[t].msgs
         THEN tab' = [tab EXCEPT ![t].pc = "answered", ![t].reply = tab[t].version]
         ELSE SaveRefused(t)
    /\ UNCHANGED <<conv, ledger, straggler, acked, gone>>

\* checkIdempotencyLedger, on a new key.
KeyIsNew(t) ==
    /\ tab[t].pc = "sent"
    /\ ledger[tab[t].key] = {}
    /\ tab' = [tab EXCEPT ![t].pc = "checked"]
    /\ UNCHANGED <<conv, ledger, straggler, acked, gone>>

\* Mutant: the key is not reserved.
MayApplyAnyKey(save) == Exists => conv.version = save.version

\* upsertConversationInTx: the version the save builds on must be the row's,
\* unless there is no row; reserveIdempotencyKey needs the key to be new.
MayApply(save) ==
    /\ Exists => conv.version = save.version
    /\ ledger[save.key] = {}

\* upsertConversationInTx, reserveIdempotencyKey, upsertMessagesInTx and the
\* commit: the row is locked from the first to the last.
Apply(save) ==
    /\ MayApply(save)
    /\ conv' = [version |-> conv.version + 1, msgs |-> conv.msgs \cup save.msgs]
    /\ ledger' = [ledger EXCEPT ![save.key] = @ \cup {[msgs |-> save.msgs, version |-> conv'.version]}]
    /\ UNCHANGED <<acked, gone>>

ApplySnapshot(t) ==
    /\ tab[t].pc = "checked"
    /\ Apply(tab[t])
    /\ tab' = [tab EXCEPT ![t].pc = "answered", ![t].reply = conv'.version]
    /\ UNCHANGED straggler

\* Mutant: the conflict is answered with 201.
RefuseSilently(t) ==
    /\ tab[t].pc = "checked"
    /\ ~MayApply(tab[t])
    /\ tab' = [tab EXCEPT ![t].pc = "answered", ![t].reply = tab[t].version]
    /\ UNCHANGED <<conv, ledger, straggler, acked, gone>>

\* ErrConversationVersionConflict, or the key was taken meanwhile: 409 or 500.
RefuseSnapshot(t) ==
    /\ tab[t].pc = "checked"
    /\ ~MayApply(tab[t])
    /\ SaveRefused(t)
    /\ UNCHANGED <<conv, ledger, straggler, acked, gone>>

\* The tab takes the version of the answer over.
ReceiveAnswer(t) ==
    /\ tab[t].pc = "answered"
    /\ acked' = acked \cup {tab[t].key}
    /\ tab' = [tab EXCEPT ![t].pc = "idle", ![t].version = tab[t].reply, ![t].key = NoSave,
                         ![t].reply = 0]
    /\ UNCHANGED <<conv, ledger, straggler, gone>>

\* The request or its answer is lost, or it takes too long: the tab sends the
\* save again, while the first send may go on.
SendAgain(t) ==
    /\ tab[t].pc \in {"sent", "checked", "answered"}
    /\ straggler' \in {straggler} \cup
         (IF tab[t].pc = "checked" /\ Cardinality(straggler) < MaxStragglers
          THEN {straggler \cup {[key |-> tab[t].key, version |-> tab[t].version, msgs |-> tab[t].msgs]}}
          ELSE {})
    /\ tab' = [tab EXCEPT ![t].pc = "sent", ![t].reply = 0]
    /\ UNCHANGED <<conv, ledger, acked, gone>>

\* The first send ends, applied or refused; nobody hears of it.
StragglerEnds(save) ==
    /\ straggler' = straggler \ {save}
    /\ UNCHANGED tab
    /\ Apply(save) \/ UNCHANGED <<conv, ledger, acked, gone>>

\* DeleteConversation: the ledger's rows go with it.
DeleteConversation ==
    /\ Exists
    /\ conv' = NoConversation
    /\ gone' = gone \cup {k \in Keys : ledger[k] # {}}
    /\ ledger' = [k \in Keys |-> {}]
    /\ UNCHANGED <<tab, straggler, acked>>

ConvNext ==
    \/ \E t \in Tabs :
         \/ \E m \in Messages : Compose(t, m)
         \/ LoadConversation(t)
         \/ \E k \in Keys : SaveConversation(t, k)
         \/ Replay(t)
         \/ KeyIsNew(t)
         \/ ApplySnapshot(t)
         \/ RefuseSnapshot(t)
         \/ ReceiveAnswer(t)
         \/ SendAgain(t)
    \/ \E save \in straggler : StragglerEnds(save)
    \/ DeleteConversation

ConvSpec == ConvInit /\ [][ConvNext]_convVars

----------------------------------------------------------------------------
ConvTypeOK ==
    /\ conv \in [version : Nat, msgs : SUBSET Messages]
    /\ ledger \in [Keys -> SUBSET [msgs : SUBSET Messages, version : Nat]]
    /\ tab \in [Tabs -> [pc : {"idle", "sent", "checked", "answered"}, version : Nat,
                         msgs : SUBSET Messages, key : Keys \cup {NoSave}, reply : Nat]]
    /\ straggler \in SUBSET [key : Keys, version : Nat, msgs : SUBSET Messages]
    /\ acked \in SUBSET Keys /\ gone \in SUBSET Keys

\* A save that is sent twice is applied once: every version of the conversation
\* was made by one key, and every key made one.
AppliedOnce ==
    /\ \A k \in Keys : Cardinality(ledger[k]) <= 1
    /\ conv.version = Cardinality({k \in Keys : ledger[k] # {}})
    /\ \A j, k \in Keys : \A d \in ledger[j], e \in ledger[k] : d.version = e.version => j = k

\* What a tab was told is saved is saved, whichever of its sends was answered
\* and however the other tabs save meanwhile.
AckedIsStored ==
    \A k \in acked \ gone : \E e \in ledger[k] : e.msgs \subseteq conv.msgs

\* "a retried request with the same body returns the stored response": the
\* version a save is answered with is the one it made.
RetryReturnsStored ==
    \A t \in Tabs : tab[t].pc = "answered" =>
        \A e \in ledger[tab[t].key] : tab[t].reply = e.version

\* Saves take effect exactly once and none that was confirmed is lost, through
\* lost answers, retries, first sends that arrive late and other tabs.
SavesExactlyOnce == ConvTypeOK /\ AppliedOnce /\ AckedIsStored
=============================================================================
