-------------------------- MODULE Services_Proofs ---------------------------
(***************************************************************************)
(* Proofs about the lockout, the cache of composite models, the answers,   *)
(* the audit log, the drift reports and the scheduled reports, for any     *)
(* number of attempts, readers, requests, producers, checks and runners    *)
(* and any bounds.                                                         *)
(***************************************************************************)
EXTENDS LoginLockout, CompositeCache, AIAnswer, AuditWriter, DriftReports, ReportScheduler,
    WellFoundedInduction, NaturalsInduction, FiniteSetTheorems, SequenceTheorems, TLAPS

-----------------------------------------------------------------------------
(* Lockout: the failures counted and the attempts that may still add one *)

LockPlaces == {"idle", "verify", "record", "expire", "expire_mail", "mail"}

\* Attempts that were let in, and those whose failure is not counted yet.
Verifying == {a \in Attempts : attempt[a] = "verify"}
Recording == {a \in Attempts : attempt[a] = "record"}

\* What was tried is counted, about to be counted or excused; and it leaves room
\* below the bound for the attempts that were let in.
TriedInv ==
    /\ tried <= failures + Cardinality(Recording) + unguarded
    /\ tried + Cardinality(Verifying) < Threshold + Cardinality(Attempts) + unguarded

LockInv ==
    /\ LockTypeOK
    /\ TriedInv
    /\ LockedHasMail

\* Two disjoint sets of attempts count no more than all of them.
LEMMA TwoParts ==
  ASSUME NEW S \in SUBSET Attempts, NEW T \in SUBSET Attempts, S \cap T = {}
  PROVE  /\ Cardinality(S) \in Nat /\ Cardinality(T) \in Nat /\ Cardinality(Attempts) \in Nat
         /\ Cardinality(S) + Cardinality(T) <= Cardinality(Attempts)
<1>1. IsFiniteSet(S) /\ IsFiniteSet(T) /\ IsFiniteSet(Attempts)
  BY LockoutAssumption, FS_Subset
<1>2. Cardinality(S) \in Nat /\ Cardinality(T) \in Nat /\ Cardinality(Attempts) \in Nat
  BY <1>1, FS_CardinalityType
<1>3. Cardinality(S \cup T) = Cardinality(S) + Cardinality(T) - Cardinality({})
  BY <1>1, FS_Union
<1>4. S \cup T \in SUBSET Attempts
  OBVIOUS
<1>5. Cardinality(S \cup T) <= Cardinality(Attempts)
  BY <1>4, LockoutAssumption, FS_Subset
<1>6. Cardinality({}) = 0
  BY FS_EmptySet
<1> QED
  BY <1>2, <1>3, <1>5, <1>6

\* The numbers of a state.
LEMMA LockNumbers ==
  ASSUME LockTypeOK
  PROVE  /\ Cardinality(Verifying) \in Nat /\ Cardinality(Recording) \in Nat
         /\ Cardinality(Attempts) \in Nat /\ Threshold \in Nat \ {0}
         /\ Cardinality(Verifying) + Cardinality(Recording) <= Cardinality(Attempts)
         /\ failures \in Nat /\ tried \in Nat /\ unguarded \in Nat
<1>1. Verifying \in SUBSET Attempts /\ Recording \in SUBSET Attempts /\ Verifying \cap Recording = {}
  BY DEF Verifying, Recording
<1>2. /\ Cardinality(Verifying) \in Nat /\ Cardinality(Recording) \in Nat /\ Cardinality(Attempts) \in Nat
      /\ Cardinality(Verifying) + Cardinality(Recording) <= Cardinality(Attempts)
  BY <1>1, TwoParts
<1> QED
  BY <1>2, LockoutAssumption DEF LockTypeOK

\* A set of attempts with one more or one less.
LEMMA OneAttempt ==
  ASSUME NEW S \in SUBSET Attempts, NEW a \in Attempts
  PROVE  /\ a \in S => Cardinality(S \ {a}) = Cardinality(S) - 1
         /\ a \notin S => Cardinality(S \cup {a}) = Cardinality(S) + 1
<1>1. IsFiniteSet(S)
  BY LockoutAssumption, FS_Subset
<1> QED
  BY <1>1, FS_RemoveElement, FS_AddElement

\* How many verify and how many record, when one attempt moves.
LEMMA PlacesMove ==
  ASSUME LockTypeOK, NEW a \in Attempts, NEW l \in LockPlaces, At(a, l)
  PROVE  /\ attempt' \in [Attempts -> LockPlaces]
         /\ Cardinality(Verifying') = Cardinality(Verifying)
              - (IF attempt[a] = "verify" THEN 1 ELSE 0) + (IF l = "verify" THEN 1 ELSE 0)
         /\ Cardinality(Recording') = Cardinality(Recording)
              - (IF attempt[a] = "record" THEN 1 ELSE 0) + (IF l = "record" THEN 1 ELSE 0)
<1>1. attempt' = [attempt EXCEPT ![a] = l] /\ attempt \in [Attempts -> LockPlaces]
  BY DEF At, LockTypeOK, LockPlaces
<1>2. attempt' \in [Attempts -> LockPlaces]
  BY <1>1
<1>3. Verifying \in SUBSET Attempts /\ Recording \in SUBSET Attempts
      /\ Cardinality(Verifying) \in Nat /\ Cardinality(Recording) \in Nat
  BY LockNumbers DEF Verifying, Recording
<1>4. Cardinality(Verifying') = Cardinality(Verifying)
        - (IF attempt[a] = "verify" THEN 1 ELSE 0) + (IF l = "verify" THEN 1 ELSE 0)
  <2>1. CASE (attempt[a] = "verify") = (l = "verify")
    <3>1. Verifying' = Verifying
      BY <1>1, <2>1 DEF Verifying
    <3> QED
      BY <1>3, <2>1, <3>1
  <2>2. CASE attempt[a] = "verify" /\ l # "verify"
    <3>1. Verifying' = Verifying \ {a} /\ a \in Verifying
      BY <1>1, <2>2 DEF Verifying
    <3> QED
      BY <1>3, <2>2, <3>1, OneAttempt
  <2>3. CASE attempt[a] # "verify" /\ l = "verify"
    <3>1. Verifying' = Verifying \cup {a} /\ a \notin Verifying
      BY <1>1, <2>3 DEF Verifying
    <3> QED
      BY <1>3, <2>3, <3>1, OneAttempt
  <2> QED
    BY <2>1, <2>2, <2>3
<1>5. Cardinality(Recording') = Cardinality(Recording)
        - (IF attempt[a] = "record" THEN 1 ELSE 0) + (IF l = "record" THEN 1 ELSE 0)
  <2>1. CASE (attempt[a] = "record") = (l = "record")
    <3>1. Recording' = Recording
      BY <1>1, <2>1 DEF Recording
    <3> QED
      BY <1>3, <2>1, <3>1
  <2>2. CASE attempt[a] = "record" /\ l # "record"
    <3>1. Recording' = Recording \ {a} /\ a \in Recording
      BY <1>1, <2>2 DEF Recording
    <3> QED
      BY <1>3, <2>2, <3>1, OneAttempt
  <2>3. CASE attempt[a] # "record" /\ l = "record"
    <3>1. Recording' = Recording \cup {a} /\ a \notin Recording
      BY <1>1, <2>3 DEF Recording
    <3> QED
      BY <1>3, <2>3, <3>1, OneAttempt
  <2> QED
    BY <2>1, <2>2, <2>3
<1> QED
  BY <1>2, <1>4, <1>5

\* Nothing tried and nobody let in.
LEMMA LockInitInv == LockInit => LockInv
<1> SUFFICES ASSUME LockInit PROVE LockInv
  OBVIOUS
<1>1. failures = 0 /\ tried = 0 /\ unguarded = 0 /\ unlock = "none" /\ counter \in {"login", "mfa"}
      /\ Verifying = {} /\ Recording = {} /\ attempt \in [Attempts -> LockPlaces]
  BY DEF LockInit, Verifying, Recording, LockPlaces
<1>2. expiring \in BOOLEAN /\ missed \in BOOLEAN /\ token \in BOOLEAN
  BY DEF LockInit
<1>3. LockTypeOK
  BY <1>1, <1>2 DEF LockTypeOK, LockPlaces
<1>4. Cardinality({}) = 0 /\ Cardinality(Attempts) \in Nat /\ Threshold \in Nat \ {0}
  BY <1>3, FS_EmptySet, LockNumbers
<1>5. TriedInv /\ ~(failures >= Threshold)
  BY <1>1, <1>4 DEF TriedInv
<1> QED
  BY <1>3, <1>5 DEF LockInv, LockedHasMail, Locked

\* The key is gone, and nothing is locked or tried.
LEMMA KeyGoneInv ==
  ASSUME LockInv, KeyGone, counter' = counter, token' \in BOOLEAN,
         \/ UNCHANGED attempt
         \/ \E a \in Attempts : At(a, "idle")
  PROVE  LockInv'
<1>1. LockTypeOK /\ failures' = 0 /\ tried' = 0 /\ unguarded' = 0 /\ unlock' = "none"
      /\ expiring' \in BOOLEAN /\ missed' \in BOOLEAN
  BY DEF LockInv, KeyGone
<1>2. attempt' \in [Attempts -> LockPlaces]
  BY <1>1, PlacesMove DEF LockTypeOK, LockPlaces
<1>3. LockTypeOK'
  BY <1>1, <1>2 DEF LockTypeOK, LockPlaces
<1>4. /\ Cardinality(Verifying') \in Nat /\ Cardinality(Recording') \in Nat
      /\ Cardinality(Attempts) \in Nat /\ Threshold \in Nat \ {0}
      /\ Cardinality(Verifying') + Cardinality(Recording') <= Cardinality(Attempts)
  <2>1. Verifying' \in SUBSET Attempts /\ Recording' \in SUBSET Attempts /\ Verifying' \cap Recording' = {}
    BY DEF Verifying, Recording
  <2> QED
    BY <2>1, TwoParts, LockoutAssumption
<1>5. TriedInv' /\ ~(failures' >= Threshold)
  BY <1>1, <1>4 DEF TriedInv
<1> QED
  BY <1>3, <1>5 DEF LockInv, LockedHasMail, Locked

\* An attempt moves, and the room it needs below the bound is there.
LEMMA AttemptMovesInv ==
  ASSUME LockInv, NEW a \in Attempts, NEW l \in LockPlaces, At(a, l), counter' = counter,
         failures' \in Nat, tried' \in Nat, unguarded' \in Nat,
         expiring' \in BOOLEAN, missed' \in BOOLEAN, token' \in BOOLEAN,
         unlock' \in {"none", "due", "sent", "lost"}, LockedHasMail',
         tried' <= failures' + Cardinality(Recording) + unguarded'
                     - (IF attempt[a] = "record" THEN 1 ELSE 0) + (IF l = "record" THEN 1 ELSE 0),
         tried' + Cardinality(Verifying)
           - (IF attempt[a] = "verify" THEN 1 ELSE 0) + (IF l = "verify" THEN 1 ELSE 0)
             < Threshold + Cardinality(Attempts) + unguarded'
  PROVE  LockInv'
<1>1. LockTypeOK
  BY DEF LockInv
<1>2. /\ attempt' \in [Attempts -> LockPlaces]
      /\ Cardinality(Verifying') = Cardinality(Verifying)
           - (IF attempt[a] = "verify" THEN 1 ELSE 0) + (IF l = "verify" THEN 1 ELSE 0)
      /\ Cardinality(Recording') = Cardinality(Recording)
           - (IF attempt[a] = "record" THEN 1 ELSE 0) + (IF l = "record" THEN 1 ELSE 0)
  BY <1>1, PlacesMove
<1>3. /\ Cardinality(Verifying) \in Nat /\ Cardinality(Recording) \in Nat
      /\ Cardinality(Attempts) \in Nat /\ Threshold \in Nat
  BY <1>1, LockNumbers
<1>4. TriedInv'
  BY <1>2, <1>3 DEF TriedInv
<1>5. LockTypeOK'
  BY <1>1, <1>2 DEF LockTypeOK, LockPlaces
<1> QED
  BY <1>4, <1>5 DEF LockInv

\* The numbers of a state and what is known of them.
LEMMA LockFacts ==
  ASSUME LockInv
  PROVE  /\ Cardinality(Verifying) \in Nat /\ Cardinality(Recording) \in Nat
         /\ Cardinality(Attempts) \in Nat /\ Threshold \in Nat \ {0}
         /\ Cardinality(Verifying) + Cardinality(Recording) <= Cardinality(Attempts)
         /\ failures \in Nat /\ tried \in Nat /\ unguarded \in Nat
         /\ tried <= failures + Cardinality(Recording) + unguarded
         /\ tried + Cardinality(Verifying) < Threshold + Cardinality(Attempts) + unguarded
         /\ expiring \in BOOLEAN /\ missed \in BOOLEAN /\ token \in BOOLEAN
         /\ unlock \in {"none", "due", "sent", "lost"} /\ LockedHasMail
<1>1. LockTypeOK /\ TriedInv /\ LockedHasMail
  BY DEF LockInv
<1> QED
  BY <1>1, LockNumbers DEF LockTypeOK, TriedInv

\* The mail that is owed is not forgotten while the count stays.
LEMMA MailKept ==
  ASSUME LockInv, UNCHANGED <<counter, failures>>, unlock # "none" => unlock' # "none"
  PROVE  LockedHasMail'
BY DEF LockInv, LockedHasMail, Locked

\* An attempt is let in below the threshold, or uncounted.
LEMMA CheckInv ==
  ASSUME LockInv, NEW a \in Attempts, CheckLockout(a) \/ CheckFailsOpen(a)
  PROVE  LockInv'
<1>1. /\ attempt[a] = "idle" /\ At(a, "verify") /\ "verify" \in LockPlaces
      /\ UNCHANGED <<counter, failures, expiring, missed, tried, unlock, token>>
      /\ (unguarded' = unguarded /\ ~(failures >= Threshold)) \/ unguarded' = unguarded + 1
  BY DEF CheckLockout, CheckFailsOpen, Locked, keyVars, LockPlaces
<1>2. LockedHasMail'
  BY <1>1, MailKept
<1>3. unguarded' \in Nat /\ tried' \in Nat /\ failures' \in Nat
  BY <1>1, LockFacts
<1>4. tried' <= failures' + Cardinality(Recording) + unguarded'
  BY <1>1, LockFacts
<1>5. tried' + Cardinality(Verifying) + 1 < Threshold + Cardinality(Attempts) + unguarded'
  <2>1. Cardinality(Verifying) + Cardinality(Recording) < Cardinality(Attempts)
    <3>1. /\ Verifying \in SUBSET Attempts /\ a \notin Verifying /\ Recording \in SUBSET Attempts
          /\ Verifying \cup {a} \in SUBSET Attempts /\ (Verifying \cup {a}) \cap Recording = {}
      BY <1>1 DEF Verifying, Recording
    <3>2. Cardinality(Verifying \cup {a}) = Cardinality(Verifying) + 1
      BY <3>1, OneAttempt
    <3>3. Cardinality(Verifying \cup {a}) + Cardinality(Recording) <= Cardinality(Attempts)
      BY <3>1, TwoParts
    <3> QED
      BY <3>2, <3>3, LockFacts
  <2>2. CASE unguarded' = unguarded /\ ~(failures >= Threshold)
    BY <1>1, <2>1, <2>2, LockFacts
  <2>3. CASE unguarded' = unguarded + 1
    BY <1>1, <2>3, LockFacts
  <2> QED
    BY <1>1, <2>2, <2>3
<1>6. /\ tried' <= failures' + Cardinality(Recording) + unguarded'
           - (IF attempt[a] = "record" THEN 1 ELSE 0) + (IF "verify" = "record" THEN 1 ELSE 0)
      /\ tried' + Cardinality(Verifying)
           - (IF attempt[a] = "verify" THEN 1 ELSE 0) + (IF "verify" = "verify" THEN 1 ELSE 0)
             < Threshold + Cardinality(Attempts) + unguarded'
  BY <1>1, <1>3, <1>4, <1>5, LockFacts
<1>7. expiring' \in BOOLEAN /\ missed' \in BOOLEAN /\ token' \in BOOLEAN
      /\ unlock' \in {"none", "due", "sent", "lost"} /\ counter' = counter
  BY <1>1, LockFacts
<1> QED
  BY <1>1, <1>2, <1>3, <1>6, <1>7, AttemptMovesInv

\* A wrong secret is tried by an attempt that was let in.
LEMMA VerifyFailsInv ==
  ASSUME LockInv, NEW a \in Attempts, VerifyFails(a)
  PROVE  LockInv'
<1>1. /\ attempt[a] = "verify" /\ At(a, "record") /\ "record" \in LockPlaces /\ tried' = tried + 1
      /\ UNCHANGED <<counter, failures, expiring, missed, unguarded, unlock, token>>
  BY DEF VerifyFails, LockPlaces
<1>2. LockedHasMail'
  BY <1>1, MailKept
<1>3. unguarded' \in Nat /\ tried' \in Nat /\ failures' \in Nat
  BY <1>1, LockFacts
<1>4. /\ tried' <= failures' + Cardinality(Recording) + unguarded'
           - (IF attempt[a] = "record" THEN 1 ELSE 0) + (IF "record" = "record" THEN 1 ELSE 0)
      /\ tried' + Cardinality(Verifying)
           - (IF attempt[a] = "verify" THEN 1 ELSE 0) + (IF "record" = "verify" THEN 1 ELSE 0)
             < Threshold + Cardinality(Attempts) + unguarded'
  BY <1>1, <1>3, LockFacts
<1>5. expiring' \in BOOLEAN /\ missed' \in BOOLEAN /\ token' \in BOOLEAN
      /\ unlock' \in {"none", "due", "sent", "lost"} /\ counter' = counter
  BY <1>1, LockFacts
<1> QED
  BY <1>1, <1>2, <1>3, <1>4, <1>5, AttemptMovesInv

\* A failure is counted.
LEMMA RecordInv ==
  ASSUME LockInv, NEW a \in Attempts, RecordLoginFailure(a) \/ RecordMFAFailure(a)
  PROVE  LockInv'
<1>1. /\ attempt[a] = "record" /\ failures' = failures + 1
      /\ UNCHANGED <<counter, expiring, missed, tried, unguarded, token>>
  BY DEF RecordLoginFailure, RecordMFAFailure
<1>2. PICK l \in {"expire", "expire_mail"} : At(a, l)
  BY DEF RecordLoginFailure, RecordMFAFailure
<1>3. unlock' \in {"none", "due", "sent", "lost"}
  BY LockFacts DEF RecordLoginFailure, RecordMFAFailure
<1>4. LockedHasMail'
  <2> SUFFICES ASSUME counter = "login", failures' >= Threshold PROVE unlock' # "none"
    BY <1>1 DEF LockedHasMail, Locked
  <2>1. unlock' = IF failures' = Threshold THEN "due" ELSE unlock
    BY DEF RecordLoginFailure, RecordMFAFailure
  <2>2. failures' # Threshold => failures >= Threshold
    BY <1>1, LockFacts
  <2> QED
    BY <2>1, <2>2 DEF LockInv, LockedHasMail, Locked
<1>5. unguarded' \in Nat /\ tried' \in Nat /\ failures' \in Nat /\ l \in LockPlaces
  BY <1>1, LockFacts DEF LockPlaces
<1>6. /\ tried' <= failures' + Cardinality(Recording) + unguarded'
           - (IF attempt[a] = "record" THEN 1 ELSE 0) + (IF l = "record" THEN 1 ELSE 0)
      /\ tried' + Cardinality(Verifying)
           - (IF attempt[a] = "verify" THEN 1 ELSE 0) + (IF l = "verify" THEN 1 ELSE 0)
             < Threshold + Cardinality(Attempts) + unguarded'
  BY <1>1, <1>2, <1>5, LockFacts
<1>7. expiring' \in BOOLEAN /\ missed' \in BOOLEAN /\ token' \in BOOLEAN /\ counter' = counter
  BY <1>1, LockFacts
<1> QED
  BY <1>2, <1>3, <1>4, <1>5, <1>6, <1>7, AttemptMovesInv

\* A step that tries and counts nothing; a failure that is not recorded is
\* excused.
LEMMA QuietInv ==
  ASSUME LockInv, NEW a \in Attempts, NEW l \in {"idle", "mail"}, At(a, l),
         UNCHANGED <<counter, failures, tried>>,
         \/ unguarded' = unguarded /\ attempt[a] # "record"
         \/ unguarded' = unguarded + 1,
         expiring' \in BOOLEAN, missed' \in BOOLEAN, token' \in BOOLEAN,
         unlock' \in {"none", "due", "sent", "lost"}, unlock # "none" => unlock' # "none"
  PROVE  LockInv'
<1>1. LockedHasMail'
  BY MailKept
<1>2. unguarded' \in Nat /\ tried' \in Nat /\ failures' \in Nat /\ l \in LockPlaces
  BY LockFacts DEF LockPlaces
<1>3. /\ tried' <= failures' + Cardinality(Recording) + unguarded'
           - (IF attempt[a] = "record" THEN 1 ELSE 0) + (IF l = "record" THEN 1 ELSE 0)
      /\ tried' + Cardinality(Verifying)
           - (IF attempt[a] = "verify" THEN 1 ELSE 0) + (IF l = "verify" THEN 1 ELSE 0)
             < Threshold + Cardinality(Attempts) + unguarded'
  BY <1>2, LockFacts
<1> QED
  BY <1>1, <1>2, <1>3, AttemptMovesInv

\* No attempt moves and the key stays, but for tries that are excused.
LEMMA KeyStaysInv ==
  ASSUME LockInv, UNCHANGED <<counter, failures, expiring, missed, attempt, unlock>>,
         token' \in BOOLEAN,
         \/ UNCHANGED <<tried, unguarded>>
         \/ tried' = tried + 1 /\ unguarded' = unguarded + 1
  PROVE  LockInv'
<1>1. Verifying' = Verifying /\ Recording' = Recording
  BY DEF Verifying, Recording
<1>2. LockTypeOK'
  BY DEF LockInv, LockTypeOK
<1>3. TriedInv'
  BY <1>1, LockFacts DEF TriedInv
<1> QED
  BY <1>2, <1>3, MailKept DEF LockInv

\* Every step of the attempts and of the clock keeps the invariant.
LEMMA LockNextInv == LockInv /\ [LockNext]_lockVars => LockInv'
<1> SUFFICES ASSUME LockInv, [LockNext]_lockVars PROVE LockInv'
  OBVIOUS
<1>1. /\ expiring \in BOOLEAN /\ missed \in BOOLEAN /\ token \in BOOLEAN
      /\ unlock \in {"none", "due", "sent", "lost"}
  BY LockFacts
<1>2. CASE UNCHANGED lockVars \/ MFALoginFails
  BY <1>1, <1>2, KeyStaysInv DEF lockVars, MFALoginFails
<1>3. ASSUME NEW a \in Attempts, VerifySucceeds(a) PROVE LockInv'
  <2>1. attempt[a] = "verify" /\ At(a, "idle") /\ UNCHANGED <<counter, token>>
    BY <1>3 DEF VerifySucceeds
  <2>2. CASE KeyGone
    BY <1>1, <2>1, <2>2, KeyGoneInv
  <2>3. CASE UNCHANGED keyVars
    BY <1>1, <2>1, <2>3, QuietInv DEF keyVars
  <2> QED
    BY <1>3, <2>2, <2>3 DEF VerifySucceeds
<1>4. ASSUME NEW a \in Attempts, SetExpiry(a) \/ SetExpiryFails(a) PROVE LockInv'
  <2>1. expiring' \in BOOLEAN /\ missed' \in BOOLEAN
    <3>1. CASE SetExpiry(a)
      <4>1. (expiring' = (failures > 0)) /\ missed' = missed
        BY <3>1 DEF SetExpiry
      <4>2. (failures > 0) \in BOOLEAN
        BY LockFacts
      <4> QED
        BY <1>1, <4>1, <4>2
    <3>2. CASE SetExpiryFails(a)
      BY <1>1, <3>2, Zenon DEF SetExpiryFails
    <3> QED
      BY <1>4, <3>1, <3>2
  <2>2. attempt[a] # "record"
    BY <1>4 DEF SetExpiry, SetExpiryFails
  <2>3. PICK l \in {"idle", "mail"} : At(a, l)
    <3>1. At(a, IF attempt[a] = "expire_mail" THEN "mail" ELSE "idle")
      BY <1>4 DEF SetExpiry, SetExpiryFails
    <3> QED
      BY <3>1
  <2>4. UNCHANGED <<counter, failures, tried, unguarded, unlock, token>>
    BY <1>4 DEF SetExpiry, SetExpiryFails
  <2> QED
    BY <1>1, <2>1, <2>2, <2>3, <2>4, QuietInv
<1>5. ASSUME NEW a \in Attempts, MailUnlock(a) PROVE LockInv'
  <2>1. /\ token' \in BOOLEAN /\ unlock' \in {"none", "due", "sent", "lost"}
        /\ unlock # "none" => unlock' # "none"
    BY <1>1, <1>5 DEF MailUnlock
  <2>2. /\ At(a, "idle") /\ attempt[a] # "record"
        /\ UNCHANGED <<counter, failures, expiring, missed, tried, unguarded>>
    BY <1>5 DEF MailUnlock
  <2> QED
    BY <1>1, <2>1, <2>2, QuietInv
<1>6. ASSUME NEW a \in Attempts, AttemptStops(a) PROVE LockInv'
  <2>1. missed' \in BOOLEAN
    BY <1>1, <1>6 DEF AttemptStops
  <2>2. unlock' \in {"none", "due", "sent", "lost"} /\ (unlock # "none" => unlock' # "none")
    BY <1>1, <1>6 DEF AttemptStops
  <2>3. /\ At(a, "idle") /\ UNCHANGED <<counter, failures, expiring, tried, token>>
        /\ (unguarded' = unguarded /\ attempt[a] # "record") \/ unguarded' = unguarded + 1
    BY <1>6 DEF AttemptStops
  <2> QED
    BY <1>1, <2>1, <2>2, <2>3, QuietInv
<1>7. CASE KeyExpires
  BY <1>1, <1>7, KeyGoneInv DEF KeyExpires
<1>8. CASE UnlockAccount
  <2>1. token' \in BOOLEAN /\ UNCHANGED <<counter, attempt>>
    BY <1>8 DEF UnlockAccount
  <2>2. CASE KeyGone
    BY <2>1, <2>2, KeyGoneInv
  <2>3. CASE UNCHANGED keyVars
    BY <2>1, <2>3, KeyStaysInv DEF keyVars
  <2> QED
    BY <1>8, <2>2, <2>3 DEF UnlockAccount
<1> QED
  BY <1>2, <1>3, <1>4, <1>5, <1>6, <1>7, <1>8, CheckInv, VerifyFailsInv, RecordInv DEF LockNext

\* A lock comes in time and with its mail, for any threshold, any number of
\* attempts that overlap, and beside any number that the counter does not hold
\* back: those a failed GET or INCR lets through, and the second steps of logins.
THEOREM LockoutCorrect == LockSpec => []LockoutSound
<1>1. LockInv => LockoutSound
  <2> SUFFICES ASSUME LockInv PROVE LockoutSound
    OBVIOUS
  <2>1. AttemptsBounded
    BY LockFacts DEF AttemptsBounded
  <2> QED
    BY <2>1 DEF LockInv, LockoutSound
<1> QED
  BY <1>1, LockInitInv, LockNextInv, PTL DEF LockSpec

-----------------------------------------------------------------------------
(* Composite models: an entry is old only for a reason *)

CompEntries == [at : 1..MaxLatest, missed : BOOLEAN]

\* An entry, in the cache or on its way there, is old only for a reason.
Excused(x) == x.at < latest => x.missed \/ rollout # {}

CompInv ==
    /\ CompTypeOK
    /\ \A x \in cached : Excused(x)
    /\ \A r \in Readers : \A x \in reading[r] : Excused(x)

\* What an invalidation passed by is marked.
LEMMA MissedEntries ==
  ASSUME NEW S \in SUBSET CompEntries
  PROVE  Missed(S) \in SUBSET CompEntries /\ \A x \in Missed(S) : x.missed
BY DEF Missed, CompEntries

\* Nothing published, nothing cached.
LEMMA CompInitInv == CompInit => CompInv
BY CompositeAssumption DEF CompInit, CompInv, CompTypeOK

\* Every publish, invalidation and read keeps the invariant.
LEMMA CompNextInv == CompInv /\ [CompNext]_compVars => CompInv'
<1> SUFFICES ASSUME CompInv, [CompNext]_compVars PROVE CompInv'
  OBVIOUS
<1>1. /\ latest \in 0..MaxLatest /\ MaxLatest \in Nat /\ rollout \in SUBSET Rollouts
      /\ cached \in SUBSET CompEntries /\ reading \in [Readers -> SUBSET CompEntries]
  BY CompositeAssumption DEF CompInv, CompTypeOK, CompEntries
<1>2. CASE UNCHANGED compVars
  BY <1>2 DEF compVars, CompInv, CompTypeOK, Excused
<1>3. ASSUME NEW u \in Rollouts, RollOut(u) PROVE CompInv'
  <2>1. latest' \in 0..MaxLatest /\ rollout' \in SUBSET Rollouts /\ rollout' # {} /\ UNCHANGED <<cached, reading>>
    BY <1>1, <1>3 DEF RollOut
  <2> QED
    BY <2>1 DEF CompInv, CompTypeOK, Excused
<1>4. ASSUME NEW u \in Rollouts, InvalidateComposite(u) \/ InvalidationFails(u) PROVE CompInv'
  <2>1. /\ cached' \in SUBSET CompEntries /\ \A x \in cached' : x.missed
        /\ latest' = latest /\ rollout' \in SUBSET Rollouts
    BY <1>1, <1>4, MissedEntries DEF InvalidateComposite, InvalidationFails
  <2>2. reading' = [r \in Readers |-> Missed(reading[r])]
    BY <1>4 DEF InvalidateComposite, InvalidationFails
  <2>3. \A r \in Readers : Missed(reading[r]) \in SUBSET CompEntries /\ \A x \in Missed(reading[r]) : x.missed
    BY <1>1, MissedEntries
  <2>4. /\ reading' \in [Readers -> SUBSET CompEntries]
        /\ \A r \in Readers : \A x \in reading'[r] : x.missed
    BY <2>2, <2>3
  <2>5. CompTypeOK'
    BY <1>1, <2>1, <2>4 DEF CompTypeOK, CompEntries
  <2> QED
    BY <2>1, <2>4, <2>5 DEF CompInv, Excused
<1>5. ASSUME NEW r \in Readers, ReadLatest(r) PROVE CompInv'
  <2> DEFINE new == [at |-> latest, missed |-> FALSE]
  <2>1. new \in CompEntries /\ new.at = latest
    BY <1>1, <1>5 DEF ReadLatest, CompEntries
  <2>2. reading' = [reading EXCEPT ![r] = {new}] /\ UNCHANGED <<latest, rollout, cached>>
    BY <1>5 DEF ReadLatest
  <2>3. ~(new.at < latest)
    BY <1>1, <2>1
  <2> HIDE DEF new
  <2>4. reading' \in [Readers -> SUBSET CompEntries]
    BY <1>1, <2>1, <2>2
  <2>5. CompTypeOK'
    BY <1>1, <2>2, <2>4 DEF CompTypeOK, CompEntries
  <2>6. \A q \in Readers : \A x \in reading'[q] : Excused(x)'
    BY <1>1, <2>2, <2>3 DEF CompInv, Excused
  <2> QED
    BY <2>2, <2>5, <2>6 DEF CompInv, Excused
<1>6. ASSUME NEW r \in Readers, FillCache(r) PROVE CompInv'
  <2>1. cached' \in {reading[r], cached} /\ reading' = [reading EXCEPT ![r] = {}] /\ UNCHANGED <<latest, rollout>>
    BY <1>6 DEF FillCache
  <2>2. CompTypeOK'
    BY <1>1, <2>1 DEF CompTypeOK, CompEntries
  <2>3. \A x \in cached' : Excused(x)'
    BY <2>1 DEF CompInv, Excused
  <2>4. \A q \in Readers : \A x \in reading'[q] : Excused(x)'
    BY <1>1, <2>1 DEF CompInv, Excused
  <2> QED
    BY <2>2, <2>3, <2>4 DEF CompInv
<1>7. CASE CacheExpires
  BY <1>1, <1>7 DEF CacheExpires, CompInv, CompTypeOK, Excused
<1> QED
  BY <1>2, <1>3, <1>4, <1>5, <1>6, <1>7 DEF CompNext

\* The cache is stale only for a reason the code names, for any readers and
\* publishes and however many versions there are.
THEOREM CompositeCorrect == CompSpec => []CompositeSound
<1>1. CompInv => CompositeSound
  BY DEF CompInv, CompositeSound, StaleOnlyByOverlap, Excused
<1> QED
  BY <1>1, CompInitInv, CompNextInv, PTL DEF CompSpec

-----------------------------------------------------------------------------
(* Answers: what is cached is current or excused and sure, and what a question
   has cost at each place is bounded *)

AskStates == {"idle", "loaded", "lookup", "vote", "generate", "answer", "failed", "replied"}

AskRecords ==
    [pc : AskStates, model : 0..LastModel, agreed : 0..Cardinality(Candidates),
     attempt : 0..MaxRetries, calls : Nat, missed : BOOLEAN]

CacheRecords ==
    [model : 1..LastModel, agreed : 0..Cardinality(Candidates), attempt : 0..MaxRetries,
     missed : BOOLEAN]

\* What a request, or an answer in the cache, made for an older version.
FreshOrExcused(x) == x.model < published => x.missed \/ notifying # {}

\* What a request at each place may have cost.
Cost(q) ==
    CASE q.pc \in {"idle", "loaded"} -> 0
      [] q.pc \in {"lookup", "vote"} -> 1
      [] q.pc = "generate" -> Cardinality(Candidates) + q.attempt + 1
      [] q.pc \in {"answer", "failed"} -> Cardinality(Candidates) + q.attempt + 2
      [] OTHER -> Cardinality(Candidates) + q.attempt + 3

\* The cached answer is one the service was sure of.
Sure(e) ==
    IF e.agreed = 0 THEN e.attempt = 0
    ELSE 100 * (Cardinality(Candidates) - e.agreed) <= (100 - CacheThreshold) * Cardinality(Candidates)

AnswerInv ==
    /\ published \in 1..LastModel /\ notifying \in SUBSET (1..LastModel)
    /\ answers \in SUBSET CacheRecords
    /\ ask \in [Askers -> AskRecords]
    /\ \A e \in answers : FreshOrExcused(e) /\ Sure(e)
    /\ \A a \in Askers :
         /\ ask[a].calls <= Cost(ask[a])
         /\ ask[a].pc # "idle" => ask[a].model >= 1 /\ FreshOrExcused(ask[a])
         /\ ask[a].pc \in {"loaded", "lookup", "vote"} => ask[a].attempt = 0

\* The constants as the steps use them.
LEMMA AnswerConstants ==
  /\ Cardinality(Candidates) \in Nat /\ MaxRetries \in Nat /\ LastModel \in Nat /\ LastModel >= 1
  /\ CacheThreshold \in Nat /\ CacheThreshold > 80 /\ CacheThreshold <= 100
BY AnswerAssumption, FS_CardinalityType

\* A confidence of at least t hundredths is t hundredths of the candidates.
LEMMA DivBound ==
  ASSUME NEW m \in Nat, NEW n \in Nat \ {0}, NEW t \in Nat, m \div n >= t
  PROVE  m >= t * n
<1>1. m \div n \in Nat
  OBVIOUS
<1>2. m >= (m \div n) * n
  OBVIOUS
<1>3. (m \div n) * n >= t * n
  BY <1>1
<1>4. (m \div n) * n \in Nat /\ t * n \in Nat
  BY <1>1
<1> QED
  BY <1>2, <1>3, <1>4

\* Only what the service was sure of passes the threshold.
LEMMA ConfidentIsSure ==
  ASSUME NEW q \in AskRecords, Confidence(q) >= CacheThreshold
  PROVE  Sure(q)
<1>1. q.agreed \in 0..Cardinality(Candidates) /\ q.attempt \in Nat
  BY AnswerConstants DEF AskRecords
<1>2. CASE q.agreed = 0
  <2>1. computeConfidence(q.attempt) >= CacheThreshold
    BY <1>1, <1>2 DEF Confidence
  <2>2. q.attempt = 0
    BY <1>1, <2>1, AnswerConstants DEF computeConfidence
  <2> QED
    BY <1>2, <2>2 DEF Sure
<1>3. CASE q.agreed # 0
  <2>1. q.agreed \in Nat /\ q.agreed > 0 /\ Cardinality(Candidates) \in Nat \ {0}
    BY <1>1, <1>3, AnswerConstants
  <2>2. (100 * q.agreed) \div Cardinality(Candidates) >= CacheThreshold /\ 100 * q.agreed \in Nat
    BY <2>1 DEF Confidence
  <2>3. 100 * q.agreed >= CacheThreshold * Cardinality(Candidates)
    BY <2>1, <2>2, AnswerConstants, DivBound
  <2>4. (100 - CacheThreshold) * Cardinality(Candidates)
          = 100 * Cardinality(Candidates) - CacheThreshold * Cardinality(Candidates)
    BY <2>1, AnswerConstants
  <2>5. CacheThreshold * Cardinality(Candidates) \in Nat
    BY <2>1, AnswerConstants
  <2>6. 100 * (Cardinality(Candidates) - q.agreed) <= (100 - CacheThreshold) * Cardinality(Candidates)
    BY <2>1, <2>3, <2>4, <2>5
  <2> QED
    BY <1>3, <2>6 DEF Sure
<1> QED
  BY <1>2, <1>3

\* One request moves and the invariant holds of what it becomes.
LEMMA AskMovesInv ==
  ASSUME AnswerInv, NEW a \in Askers, NEW q \in AskRecords, ask' = [ask EXCEPT ![a] = q],
         q.calls <= Cost(q), q.pc # "idle" => q.model >= 1 /\ FreshOrExcused(q),
         q.pc \in {"loaded", "lookup", "vote"} => q.attempt = 0,
         UNCHANGED <<published, notifying>>,
         answers' \in SUBSET CacheRecords, \A e \in answers' : FreshOrExcused(e) /\ Sure(e)
  PROVE  AnswerInv'
<1>1. ask' \in [Askers -> AskRecords]
  BY DEF AnswerInv
<1>2. \A b \in Askers : /\ ask'[b].calls <= Cost(ask'[b])
                        /\ ask'[b].pc # "idle" => ask'[b].model >= 1 /\ FreshOrExcused(ask'[b])
                        /\ ask'[b].pc \in {"loaded", "lookup", "vote"} => ask'[b].attempt = 0
  BY DEF AnswerInv
<1>3. \A x : FreshOrExcused(x)' <=> FreshOrExcused(x)
  BY DEF FreshOrExcused
<1>4. \A b \in Askers : FreshOrExcused(ask[b])' <=> FreshOrExcused(ask'[b])
  BY DEF FreshOrExcused
<1>5. \A e : Sure(e)' = Sure(e)
  BY DEF Sure
<1>6. \A b \in Askers : Cost(ask[b])' = Cost(ask'[b])
  BY DEF Cost
<1>7. \A e \in answers' : FreshOrExcused(e)' /\ Sure(e)'
  BY <1>3, <1>5
<1>8. published' \in 1..LastModel /\ notifying' \in SUBSET (1..LastModel) 
  BY DEF AnswerInv
<1> QED
  BY <1>1, <1>2, <1>4, <1>6, <1>7, <1>8 DEF AnswerInv

\* A request that has not cost anything.
LEMMA FreshAsk == NotAsking \in AskRecords /\ NotAsking.calls = 0 /\ NotAsking.attempt = 0 /\ NotAsking.pc = "idle"
<1>1. /\ 0 \in 0..Cardinality(Candidates) /\ 0 \in 0..MaxRetries /\ 0 \in Nat /\ FALSE \in BOOLEAN
      /\ 0 \in 0..LastModel
  BY AnswerConstants
<1>2. "idle" \in AskStates
  BY DEF AskStates
<1>3. NotAsking \in AskRecords
  BY <1>1, <1>2 DEF AskRecords, NotAsking
<1> QED
  BY <1>3 DEF NotAsking

\* A request is over, and what it left in the cache is in order.
LEMMA AskOverInv ==
  ASSUME AnswerInv, NEW a \in Askers, ask' = [ask EXCEPT ![a] = NotAsking],
         UNCHANGED <<published, notifying>>,
         answers' \in SUBSET CacheRecords, \A e \in answers' : FreshOrExcused(e) /\ Sure(e)
  PROVE  AnswerInv'
<1>1. Cost(NotAsking) = 0
  BY FreshAsk DEF Cost
<1>2. /\ NotAsking \in AskRecords /\ NotAsking.calls <= Cost(NotAsking)
      /\ NotAsking.pc # "idle" => NotAsking.model >= 1 /\ FreshOrExcused(NotAsking)
      /\ NotAsking.pc \in {"loaded", "lookup", "vote"} => NotAsking.attempt = 0
  BY <1>1, FreshAsk
<1> QED
  BY <1>2, AskMovesInv

\* A request that is given up, answered from the cache or replied to.
LEMMA AskEndsInv ==
  ASSUME AnswerInv, NEW a \in Askers, ask' = [ask EXCEPT ![a] = NotAsking],
         UNCHANGED <<published, notifying, answers>>
  PROVE  AnswerInv'
<1>1. answers' \in SUBSET CacheRecords /\ \A e \in answers' : FreshOrExcused(e) /\ Sure(e)
  BY DEF AnswerInv
<1> QED
  BY <1>1, AskOverInv

\* A request goes on with the version it loaded.
LEMMA AskOnlyInv ==
  ASSUME AnswerInv, NEW a \in Askers, ask[a].pc # "idle",
         ask'[a] \in AskRecords, ask' = [ask EXCEPT ![a] = ask'[a]],
         ask'[a].model = ask[a].model, ask'[a].missed = ask[a].missed,
         ask'[a].calls <= Cost(ask'[a]),
         ask'[a].pc \in {"loaded", "lookup", "vote"} => ask'[a].attempt = 0,
         UNCHANGED <<published, notifying, answers>>
  PROVE  AnswerInv'
<1>1. ask'[a].model >= 1 /\ FreshOrExcused(ask'[a])
  BY DEF AnswerInv, FreshOrExcused
<1>2. answers' \in SUBSET CacheRecords /\ \A e \in answers' : FreshOrExcused(e) /\ Sure(e)
  BY DEF AnswerInv
<1> QED
  BY <1>1, <1>2, AskMovesInv

\* The handler loads the version that is published.
LEMMA LoadModelInv ==
  ASSUME AnswerInv, NEW a \in Askers, LoadModel(a)
  PROVE  AnswerInv'
<1> DEFINE q == [NotAsking EXCEPT !.pc = "loaded", !.model = published]
<1>1. published \in 1..LastModel /\ LastModel \in Nat
  BY AnswerConstants DEF AnswerInv
<1>2. q \in AskRecords /\ q.calls = 0 /\ q.pc = "loaded" /\ q.attempt = 0 /\ q.model = published
  <2>1. "loaded" \in AskStates /\ published \in 0..LastModel
    BY <1>1 DEF AskStates
  <2>2. /\ NotAsking \in AskRecords /\ NotAsking.calls = 0 /\ NotAsking.attempt = 0
    BY FreshAsk
  <2> QED
    BY <2>1, <2>2 DEF AskRecords
<1>3. Cost(q) = 0
  BY <1>2 DEF Cost
<1>4. FreshOrExcused(q) /\ q.model >= 1
  BY <1>1, <1>2 DEF FreshOrExcused
<1> HIDE DEF q
<1>5. ask' = [ask EXCEPT ![a] = q] /\ UNCHANGED <<published, notifying, answers>>
  BY DEF q, LoadModel
<1>6. answers' \in SUBSET CacheRecords /\ \A e \in answers' : FreshOrExcused(e) /\ Sure(e)
  BY <1>5 DEF AnswerInv
<1>7. q.calls <= Cost(q)
  BY <1>2, <1>3
<1> QED
  BY <1>2, <1>4, <1>5, <1>6, <1>7, AskMovesInv

\* What the request has so far.
LEMMA AskFields ==
  ASSUME AnswerInv, NEW a \in Askers
  PROVE  /\ ask[a] \in AskRecords /\ ask[a].calls \in Nat /\ ask[a].attempt \in 0..MaxRetries
         /\ ask[a].agreed \in 0..Cardinality(Candidates)
         /\ ask[a].pc \in {"loaded", "lookup", "vote"} => ask[a].attempt = 0
         /\ ask[a].pc = "loaded" => ask[a].calls = 0
         /\ ask[a].pc \in {"lookup", "vote"} => ask[a].calls <= 1
         /\ ask[a].pc = "generate" => ask[a].calls <= Cardinality(Candidates) + ask[a].attempt + 1
         /\ ask[a].pc \in {"answer", "failed"} => ask[a].calls <= Cardinality(Candidates) + ask[a].attempt + 2
<1>1. ask[a] \in AskRecords /\ ask[a].calls \in Nat /\ ask[a].attempt \in 0..MaxRetries
      /\ ask[a].agreed \in 0..Cardinality(Candidates) /\ ask[a].calls <= Cost(ask[a])
  BY DEF AnswerInv, AskRecords
<1>2. /\ ask[a].pc = "loaded" => Cost(ask[a]) = 0
      /\ ask[a].pc \in {"lookup", "vote"} => Cost(ask[a]) = 1
      /\ ask[a].pc = "generate" => Cost(ask[a]) = Cardinality(Candidates) + ask[a].attempt + 1
      /\ ask[a].pc \in {"answer", "failed"} => Cost(ask[a]) = Cardinality(Candidates) + ask[a].attempt + 2
  BY DEF Cost
<1> QED
  BY <1>1, <1>2 DEF AnswerInv

\* The cost allowed at each place.
LEMMA CostAt ==
  ASSUME NEW q
  PROVE  /\ q.pc \in {"lookup", "vote"} => Cost(q) = 1
         /\ q.pc = "generate" => Cost(q) = Cardinality(Candidates) + q.attempt + 1
         /\ q.pc \in {"answer", "failed"} => Cost(q) = Cardinality(Candidates) + q.attempt + 2
         /\ q.pc = "replied" => Cost(q) = Cardinality(Candidates) + q.attempt + 3
BY DEF Cost

\* The ambiguity may cost one call.
LEMMA CheckAmbiguityInv ==
  ASSUME AnswerInv, NEW a \in Askers, CheckAmbiguity(a)
  PROVE  AnswerInv'
<1>1. ask[a].pc = "loaded" /\ UNCHANGED <<published, notifying, answers>>
  BY DEF CheckAmbiguity
<1>2. ask[a] \in AskRecords /\ ask[a].calls = 0 /\ ask[a].attempt = 0 /\ ask \in [Askers -> AskRecords]
  BY <1>1, AskFields DEF AnswerInv
<1>3. PICK extra \in 0..1 : ask' = [ask EXCEPT ![a].pc = "lookup", ![a].calls = @ + extra]
  BY DEF CheckAmbiguity
<1>4. ask[a].calls + extra = extra /\ extra \in Nat /\ extra <= 1
  BY <1>2
<1>5. /\ ask'[a] \in AskRecords /\ ask' = [ask EXCEPT ![a] = ask'[a]]
      /\ ask'[a].model = ask[a].model /\ ask'[a].missed = ask[a].missed
      /\ ask'[a].calls = extra /\ ask'[a].pc = "lookup" /\ ask'[a].attempt = 0
  BY <1>2, <1>3, <1>4 DEF AskRecords, AskStates
<1>6. ask'[a].calls <= Cost(ask'[a])
  BY <1>4, <1>5, CostAt
<1> QED
  BY <1>1, <1>5, <1>6, AskOnlyInv

\* A miss: the vote, or the loop.
LEMMA CacheMissInv ==
  ASSUME AnswerInv, NEW a \in Askers, CacheMiss(a)
  PROVE  AnswerInv'
<1>1. PICK l \in {"vote", "generate"} : ask' = [ask EXCEPT ![a].pc = l]
  BY DEF CacheMiss
<1>2. ask[a].pc = "lookup" /\ UNCHANGED <<published, notifying, answers>>
  BY DEF CacheMiss
<1>3. /\ ask[a] \in AskRecords /\ ask[a].calls \in Nat /\ ask[a].calls <= 1 /\ ask[a].attempt = 0
      /\ ask \in [Askers -> AskRecords]
  BY <1>2, AskFields DEF AnswerInv
<1>4. /\ ask'[a] \in AskRecords /\ ask' = [ask EXCEPT ![a] = ask'[a]]
      /\ ask'[a].model = ask[a].model /\ ask'[a].missed = ask[a].missed
      /\ ask'[a].pc = l /\ ask'[a].calls = ask[a].calls /\ ask'[a].attempt = 0
  BY <1>1, <1>3 DEF AskRecords, AskStates
<1>5. ask'[a].calls <= Cost(ask'[a])
  BY <1>3, <1>4, CostAt, AnswerConstants
<1> QED
  BY <1>2, <1>4, <1>5, AskOnlyInv

\* The vote costs one call for each candidate.
LEMMA VoteInv ==
  ASSUME AnswerInv, NEW a \in Askers, Vote(a)
  PROVE  AnswerInv'
<1>1. ask[a].pc = "vote" /\ UNCHANGED <<published, notifying, answers>>
  BY DEF Vote
<1>2. /\ ask[a] \in AskRecords /\ ask[a].calls \in Nat /\ ask[a].calls <= 1 /\ ask[a].attempt = 0
      /\ ask \in [Askers -> AskRecords]
  BY <1>1, AskFields DEF AnswerInv
<1>3. PICK n \in VoteOutcomes :
         ask' = [ask EXCEPT ![a].calls = @ + Cardinality(Candidates), ![a].agreed = n,
                            ![a].pc = IF n = 0 THEN "generate" ELSE "answer"]
  BY DEF Vote
<1>4. n \in 0..Cardinality(Candidates)
  <2>1. PICK votes \in Votes :
         n \in (IF Winners(votes) = {} THEN {0} ELSE {Cardinality(Group(votes, fp)) : fp \in Winners(votes)})
    BY DEF VoteOutcomes
  <2>2. CASE n = 0
    BY <2>2, AnswerConstants
  <2>3. CASE \E fp \in Winners(votes) : n = Cardinality(Group(votes, fp))
    <3>1. PICK fp \in Winners(votes) : n = Cardinality(Group(votes, fp))
      BY <2>3
    <3>2. Group(votes, fp) \in SUBSET Candidates
      BY DEF Group
    <3>3. IsFiniteSet(Group(votes, fp)) /\ Cardinality(Group(votes, fp)) <= Cardinality(Candidates)
      BY <3>2, AnswerAssumption, FS_Subset
    <3>4. Cardinality(Group(votes, fp)) \in Nat
      BY <3>3, FS_CardinalityType
    <3> QED
      BY <3>1, <3>3, <3>4, AnswerConstants
  <2> QED
    BY <2>1, <2>2, <2>3
<1>7. ask[a].calls + Cardinality(Candidates) \in Nat
  BY <1>2, AnswerConstants
<1>5. /\ ask'[a] \in AskRecords /\ ask' = [ask EXCEPT ![a] = ask'[a]]
      /\ ask'[a].model = ask[a].model /\ ask'[a].missed = ask[a].missed
      /\ ask'[a].pc \in {"answer", "generate"}
      /\ ask'[a].calls = ask[a].calls + Cardinality(Candidates) /\ ask'[a].attempt = 0
  BY <1>2, <1>3, <1>4, <1>7 DEF AskRecords, AskStates
<1>6. ask'[a].calls <= Cost(ask'[a])
  BY <1>2, <1>5, CostAt, AnswerConstants
<1> QED
  BY <1>1, <1>5, <1>6, AskOnlyInv

\* A call of the provider, and the repair that its result asks for.
LEMMA GenerateInv ==
  ASSUME AnswerInv, NEW a \in Askers, GenerateGood(a) \/ GenerateBad(a)
  PROVE  AnswerInv'
<1>1. ask[a].pc = "generate" /\ UNCHANGED <<published, notifying, answers>>
  BY DEF GenerateGood, GenerateBad
<1>2. /\ ask[a] \in AskRecords /\ ask[a].calls \in Nat /\ ask[a].attempt \in 0..MaxRetries
      /\ ask[a].calls <= Cardinality(Candidates) + ask[a].attempt + 1 /\ ask \in [Askers -> AskRecords]
  BY <1>1, AskFields DEF AnswerInv
<1>3. /\ ask'[a] \in AskRecords /\ ask' = [ask EXCEPT ![a] = ask'[a]]
      /\ ask'[a].model = ask[a].model /\ ask'[a].missed = ask[a].missed
      /\ ask'[a].calls = ask[a].calls + 1
      /\ \/ ask'[a].pc \in {"answer", "failed"} /\ ask'[a].attempt = ask[a].attempt
         \/ ask'[a].pc = "generate" /\ ask'[a].attempt = ask[a].attempt + 1
  <2>1. CASE GenerateGood(a)
    BY <1>2, <2>1 DEF GenerateGood, AskRecords, AskStates
  <2>2. CASE GenerateBad(a) /\ ask[a].attempt = MaxRetries
    BY <1>2, <2>2 DEF GenerateBad, AskRecords, AskStates
  <2>3. CASE GenerateBad(a) /\ ask[a].attempt # MaxRetries
    <3>1. ask[a].attempt + 1 \in 0..MaxRetries
      BY <1>2, <2>3, AnswerConstants
    <3> QED
      BY <1>2, <2>3, <3>1 DEF GenerateBad, AskRecords, AskStates
  <2> QED
    BY <2>1, <2>2, <2>3
<1>4. ask'[a].calls <= Cost(ask'[a])
  BY <1>2, <1>3, CostAt, AnswerConstants
<1>5. ask'[a].pc \in {"loaded", "lookup", "vote"} => ask'[a].attempt = 0
  BY <1>3
<1> QED
  BY <1>1, <1>3, <1>4, <1>5, AskOnlyInv

\* Asking back may cost one call more.
LEMMA ClarifyInv ==
  ASSUME AnswerInv, NEW a \in Askers, Clarify(a)
  PROVE  AnswerInv'
<1>1. ask[a].pc = "failed" /\ UNCHANGED <<published, notifying, answers>>
  BY DEF Clarify
<1>2. /\ ask[a] \in AskRecords /\ ask[a].calls \in Nat /\ ask[a].attempt \in 0..MaxRetries
      /\ ask[a].calls <= Cardinality(Candidates) + ask[a].attempt + 2 /\ ask \in [Askers -> AskRecords]
  BY <1>1, AskFields DEF AnswerInv
<1>3. PICK extra \in 0..1 : ask' = [ask EXCEPT ![a].pc = "replied", ![a].calls = @ + extra]
  BY DEF Clarify
<1>6. ask[a].calls + extra \in Nat
  BY <1>2
<1>4. /\ ask'[a] \in AskRecords /\ ask' = [ask EXCEPT ![a] = ask'[a]]
      /\ ask'[a].model = ask[a].model /\ ask'[a].missed = ask[a].missed
      /\ ask'[a].calls = ask[a].calls + extra
      /\ ask'[a].pc = "replied" /\ ask'[a].attempt = ask[a].attempt
  BY <1>2, <1>3, <1>6 DEF AskRecords, AskStates
<1>5. ask'[a].calls <= Cost(ask'[a])
  BY <1>2, <1>4, CostAt, AnswerConstants
<1> QED
  BY <1>1, <1>4, <1>5, AskOnlyInv

\* What is cached passes the threshold and carries the version it was made for.
LEMMA CacheResponseInv ==
  ASSUME AnswerInv, NEW a \in Askers, CacheResponse(a)
  PROVE  AnswerInv'
<1>1. ask[a].pc = "answer" /\ ask' = [ask EXCEPT ![a] = NotAsking] /\ UNCHANGED <<published, notifying>>
  BY DEF CacheResponse
<1>2. ask[a] \in AskRecords /\ ask[a].attempt \in 0..MaxRetries
  BY <1>1, AskFields
<1>3. answers' \in SUBSET CacheRecords /\ \A e \in answers' : FreshOrExcused(e) /\ Sure(e)
  <2>1. CASE UNCHANGED answers
    BY <2>1 DEF AnswerInv
  <2>2. CASE /\ Confidence(ask[a]) >= CacheThreshold
             /\ answers' = {[model |-> ask[a].model, agreed |-> ask[a].agreed,
                             attempt |-> ask[a].attempt, missed |-> ask[a].missed]}
    <3> DEFINE e == [model |-> ask[a].model, agreed |-> ask[a].agreed,
                     attempt |-> ask[a].attempt, missed |-> ask[a].missed]
    <3>1. ask[a].model >= 1 /\ FreshOrExcused(ask[a]) /\ ask[a].model \in 0..LastModel
      BY <1>1, <1>2 DEF AnswerInv, AskRecords
    <3>2. ask[a].model \in 1..LastModel
      BY <3>1, AnswerConstants
    <3>3. e \in CacheRecords
      BY <1>2, <3>2 DEF AskRecords, CacheRecords
    <3>4. /\ e.model = ask[a].model /\ e.missed = ask[a].missed
          /\ e.agreed = ask[a].agreed /\ e.attempt = ask[a].attempt
      OBVIOUS
    <3>5. Sure(ask[a])
      BY <1>2, <2>2, ConfidentIsSure
    <3>6. answers' = {e}
      BY <2>2
    <3> HIDE DEF e
    <3>7. FreshOrExcused(e) /\ Sure(e)
      BY <3>1, <3>4, <3>5 DEF FreshOrExcused, Sure
    <3> QED
      BY <3>3, <3>6, <3>7
  <2> QED
    BY <2>1, <2>2 DEF CacheResponse
<1> QED
  BY <1>1, <1>3, AskOverInv

\* A publish excuses everything until its hook has run.
LEMMA PublishVersionInv == AnswerInv /\ PublishVersion => AnswerInv'
<1> SUFFICES ASSUME AnswerInv, PublishVersion PROVE AnswerInv'
  OBVIOUS
<1>1. published' \in 1..LastModel /\ notifying' \in SUBSET (1..LastModel) /\ notifying' # {}
      /\ UNCHANGED <<answers, ask>>
  BY AnswerConstants DEF AnswerInv, PublishVersion
<1>2. /\ \A x \in answers : FreshOrExcused(x)' /\ Sure(x)'
      /\ \A a \in Askers : FreshOrExcused(ask[a])'
  BY <1>1 DEF FreshOrExcused, Sure, AnswerInv
<1> QED
  BY <1>1, <1>2 DEF AnswerInv, Cost

\* The hook clears the cache, or fails and everything is marked.
LEMMA NotifyInv ==
  ASSUME AnswerInv, NEW v \in notifying, Notify(v) \/ NotifyFails(v)
  PROVE  AnswerInv'
<1>1. /\ ask' = [a \in Askers |-> [ask[a] EXCEPT !.missed = (ask[a].pc # "idle")]]
      /\ published' = published /\ notifying' = notifying \ {v}
      /\ answers' = {} \/ answers' = {[e EXCEPT !.missed = TRUE] : e \in answers}
  BY DEF Notify, NotifyFails
<1>2. ask \in [Askers -> AskRecords] /\ answers \in SUBSET CacheRecords
  BY DEF AnswerInv
<1>3. answers' \in SUBSET CacheRecords
  <2> SUFFICES ASSUME NEW e \in answers' PROVE e \in CacheRecords
    OBVIOUS
  <2>1. PICK d \in answers : e = [d EXCEPT !.missed = TRUE]
    BY <1>1
  <2>2. d \in CacheRecords
    BY <1>2
  <2> QED
    BY <2>1, <2>2 DEF CacheRecords
<1>4. \A e \in answers' : FreshOrExcused(e)' /\ Sure(e)'
  <2> SUFFICES ASSUME NEW e \in answers' PROVE FreshOrExcused(e)' /\ Sure(e)'
    OBVIOUS
  <2>1. PICK d \in answers : e = [d EXCEPT !.missed = TRUE]
    BY <1>1
  <2>2. d \in CacheRecords /\ Sure(d)
    BY <1>2 DEF AnswerInv
  <2>3. e.missed /\ e.agreed = d.agreed /\ e.attempt = d.attempt
    BY <2>1, <2>2 DEF CacheRecords
  <2> QED
    BY <2>2, <2>3 DEF FreshOrExcused, Sure
<1>5. \A a \in Askers :
        /\ ask'[a] \in AskRecords /\ ask'[a].pc = ask[a].pc /\ ask'[a].model = ask[a].model
        /\ ask'[a].calls = ask[a].calls /\ ask'[a].attempt = ask[a].attempt
        /\ ask[a].pc # "idle" => ask'[a].missed
  <2> SUFFICES ASSUME NEW a \in Askers
               PROVE  /\ ask'[a] \in AskRecords /\ ask'[a].pc = ask[a].pc /\ ask'[a].model = ask[a].model
                      /\ ask'[a].calls = ask[a].calls /\ ask'[a].attempt = ask[a].attempt
                      /\ ask[a].pc # "idle" => ask'[a].missed
    OBVIOUS
  <2>1. ask[a] \in AskRecords /\ (ask[a].pc # "idle") \in BOOLEAN
    BY <1>2
  <2>2. ask'[a] = [ask[a] EXCEPT !.missed = (ask[a].pc # "idle")]
    BY <1>1
  <2> QED
    BY <2>1, <2>2 DEF AskRecords
<1>6. ask' \in [Askers -> AskRecords]
  BY <1>1, <1>5
<1>7. \A a \in Askers :
        /\ ask'[a].calls <= Cost(ask'[a])
        /\ ask'[a].pc # "idle" => ask'[a].model >= 1 /\ FreshOrExcused(ask[a])'
        /\ ask'[a].pc \in {"loaded", "lookup", "vote"} => ask'[a].attempt = 0
  BY <1>5 DEF AnswerInv, Cost, FreshOrExcused
<1>8. published' \in 1..LastModel /\ notifying' \in SUBSET (1..LastModel)
  BY <1>1 DEF AnswerInv
<1>9. \A a \in Askers : Cost(ask[a])' = Cost(ask'[a])
  BY DEF Cost
<1> QED
  BY <1>3, <1>4, <1>6, <1>7, <1>8, <1>9 DEF AnswerInv

\* An empty cache and nobody asking.
LEMMA AnswerInitInv == AnswerInit => AnswerInv
<1> SUFFICES ASSUME AnswerInit PROVE AnswerInv
  OBVIOUS
<1>1. published \in 1..LastModel /\ notifying = {} /\ answers = {}
  BY AnswerConstants DEF AnswerInit
<1>2. ask = [a \in Askers |-> NotAsking]
  BY DEF AnswerInit
<1>3. Cost(NotAsking) = 0
  BY FreshAsk DEF Cost
<1>4. ask \in [Askers -> AskRecords] /\ \A a \in Askers : ask[a] = NotAsking
  BY <1>2, FreshAsk
<1>5. \A a \in Askers : ask[a].calls <= Cost(ask[a]) /\ ask[a].pc = "idle"
  BY <1>3, <1>4, FreshAsk
<1> QED
  BY <1>1, <1>4, <1>5 DEF AnswerInv

\* Every step of the requests and of the publishes keeps the invariant.
LEMMA AnswerNextInv == AnswerInv /\ [AnswerNext]_answerVars => AnswerInv'
<1> SUFFICES ASSUME AnswerInv, [AnswerNext]_answerVars PROVE AnswerInv'
  OBVIOUS
<1>1. CASE UNCHANGED answerVars
  BY <1>1 DEF answerVars, AnswerInv, FreshOrExcused, Sure, Cost
<1>2. CASE AnswerExpires
  BY <1>2 DEF AnswerExpires, AnswerInv, FreshOrExcused, Sure, Cost
<1>3. ASSUME NEW a \in Askers, AskBack(a) \/ CacheHit(a) \/ GenerateFails(a) \/ Replied(a) PROVE AnswerInv'
  BY <1>3, AskEndsInv DEF AskBack, CacheHit, GenerateFails, Replied
<1>4. ASSUME NEW a \in Askers, AskStep(a) PROVE AnswerInv'
  BY <1>3, <1>4, LoadModelInv, CheckAmbiguityInv, CacheMissInv, VoteInv, GenerateInv, ClarifyInv, CacheResponseInv DEF AskStep
<1> QED
  BY <1>1, <1>2, <1>4, PublishVersionInv, NotifyInv DEF AnswerNext

\* The cache holds only answers that are current or excused and that the
\* service was sure of, and a question costs a bounded number of calls, for any
\* number of requests, candidates, retries and versions.
THEOREM AnswersCorrect == AnswerSpec => []AnswersSound
<1>1. AnswerInv => AnswersSound
  <2> SUFFICES ASSUME AnswerInv PROVE AnswersSound
    OBVIOUS
  <2>1. AnswerTypeOK
    BY DEF AnswerInv, AnswerTypeOK, AskRecords, CacheRecords, AskStates
  <2>2. AnswerStaleOnlyByOverlap /\ CachedIsSure
    BY DEF AnswerInv, AnswerStaleOnlyByOverlap, CachedIsSure, FreshOrExcused, Sure
  <2>3. CallsBounded
    <3> SUFFICES ASSUME NEW a \in Askers
                 PROVE  ask[a].calls <= Cardinality(Candidates) + MaxRetries + 3
      BY DEF CallsBounded
    <3>1. ask[a].calls \in Nat /\ ask[a].attempt \in 0..MaxRetries /\ ask[a].calls <= Cost(ask[a])
          /\ ask[a].pc \in AskStates
      BY AskFields DEF AnswerInv, AskRecords
    <3>2. Cost(ask[a]) \in Nat /\ Cost(ask[a]) <= Cardinality(Candidates) + MaxRetries + 3
      BY <3>1, AnswerConstants DEF Cost
    <3> QED
      BY <3>1, <3>2, AnswerConstants
  <2> QED
    BY <2>1, <2>2, <2>3 DEF AnswersSound
<1> QED
  BY <1>1, AnswerInitInv, AnswerNextInv, PTL DEF AnswerSpec

-----------------------------------------------------------------------------
(* The audit log: what is stored, in the batch and in the channel, in the
   channel's order *)

\* The elements of a sequence.
LEMMA ToSetOf ==
    ASSUME NEW S, NEW s \in Seq(S)
    PROVE  ToSet(s) = {s[i] : i \in 1..Len(s)} /\ DOMAIN s = 1..Len(s) /\ Len(s) \in Nat
BY LenProperties DEF ToSet

\* A concatenation holds the elements of both parts.
LEMMA ToSetConcat ==
    ASSUME NEW S, NEW s \in Seq(S), NEW t \in Seq(S)
    PROVE  ToSet(s \o t) = ToSet(s) \cup ToSet(t)
<1>1. /\ s \o t \in Seq(S) /\ Len(s \o t) = Len(s) + Len(t)
      /\ \A i \in 1..(Len(s) + Len(t)) :
           (s \o t)[i] = IF i <= Len(s) THEN s[i] ELSE t[i - Len(s)]
    BY ConcatProperties
<1>2. /\ ToSet(s) = {s[i] : i \in 1..Len(s)} /\ Len(s) \in Nat
      /\ ToSet(t) = {t[i] : i \in 1..Len(t)} /\ Len(t) \in Nat
      /\ ToSet(s \o t) = {(s \o t)[i] : i \in 1..Len(s \o t)}
    BY <1>1, ToSetOf
<1>3. ASSUME NEW x \in ToSet(s \o t) PROVE x \in ToSet(s) \cup ToSet(t)
    <2>1. PICK i \in 1..(Len(s) + Len(t)) : x = (s \o t)[i]
        BY <1>1, <1>2
    <2>2. CASE i <= Len(s)
        BY <1>1, <1>2, <2>1, <2>2
    <2>3. CASE i > Len(s)
        <3>1. i - Len(s) \in 1..Len(t) /\ x = t[i - Len(s)]
            BY <1>1, <1>2, <2>1, <2>3
        <3> QED
            BY <1>2, <3>1
    <2> QED
        BY <1>2, <2>2, <2>3
<1>4. ASSUME NEW i \in 1..Len(s) PROVE s[i] \in ToSet(s \o t)
    <2>1. i \in 1..Len(s \o t) /\ (s \o t)[i] = s[i]
        BY <1>1, <1>2
    <2> QED
        BY <1>2, <2>1
<1>5. ASSUME NEW i \in 1..Len(t) PROVE t[i] \in ToSet(s \o t)
    <2> DEFINE j == i + Len(s)
    <2>1. j \in 1..Len(s \o t) /\ ~(j <= Len(s)) /\ j - Len(s) = i
        BY <1>1, <1>2
    <2>2. (s \o t)[j] = t[i]
        BY <1>1, <1>2, <2>1
    <2> HIDE DEF j
    <2> QED
        BY <1>2, <2>1, <2>2
<1> QED
    BY <1>2, <1>3, <1>4, <1>5

\* The element at a place of the first or the second part.
LEMMA ConcatAt ==
    ASSUME NEW S, NEW s \in Seq(S), NEW t \in Seq(S)
    PROVE  /\ \A i \in 1..Len(s) : i \in 1..Len(s \o t) /\ (s \o t)[i] = s[i]
           /\ \A i \in 1..Len(t) : Len(s) + i \in 1..Len(s \o t) /\ (s \o t)[Len(s) + i] = t[i]
<1>1. Len(s) \in Nat /\ Len(t) \in Nat
    BY LenProperties
<1>2. /\ Len(s \o t) = Len(s) + Len(t)
      /\ \A i \in 1..(Len(s) + Len(t)) :
           (s \o t)[i] = IF i <= Len(s) THEN s[i] ELSE t[i - Len(s)]
    BY ConcatProperties
<1>3. ASSUME NEW i \in 1..Len(t)
      PROVE  Len(s) + i \in 1..Len(s \o t) /\ (s \o t)[Len(s) + i] = t[i]
    <2> DEFINE j == Len(s) + i
    <2>1. j \in 1..(Len(s) + Len(t)) /\ ~(j <= Len(s)) /\ j - Len(s) = i
        BY <1>1
    <2> HIDE DEF j
    <2>2. (s \o t)[j] = t[i]
        BY <1>2, <2>1
    <2> QED
        BY <1>2, <2>1, <2>2 DEF j
<1> QED
    BY <1>1, <1>2, <1>3

\* Sending an event to the end of both keeps the order.
LEMMA OrderAppend ==
    ASSUME NEW S, NEW s \in Seq(S), NEW all \in Seq(S), NEW e \in S,
           InOrderOf(s, all), ToSet(s) \subseteq ToSet(all), e \notin ToSet(all)
    PROVE  InOrderOf(Append(s, e), Append(all, e))
<1> DEFINE s2 == Append(s, e)
           a2 == Append(all, e)
<1>1. /\ Len(s) \in Nat /\ DOMAIN s = 1..Len(s) /\ DOMAIN s2 = 1..(Len(s) + 1)
      /\ Len(all) \in Nat /\ DOMAIN all = 1..Len(all) /\ DOMAIN a2 = 1..(Len(all) + 1)
    OBVIOUS
<1>2. /\ \A i \in 1..Len(s) : s2[i] = s[i]
      /\ s2[Len(s) + 1] = e
      /\ \A i \in 1..Len(all) : a2[i] = all[i]
      /\ a2[Len(all) + 1] = e
    OBVIOUS
<1>3. (\A i \in 1..Len(s) : s[i] # e) /\ (\A i \in 1..Len(all) : all[i] # e)
    BY ToSetOf
<1> HIDE DEF s2, a2
<1> SUFFICES ASSUME NEW i \in DOMAIN s2, NEW j \in DOMAIN s2, NEW k \in DOMAIN a2,
                    NEW l \in DOMAIN a2, i < j, s2[i] = a2[k], s2[j] = a2[l]
             PROVE  k < l
    BY DEF InOrderOf, s2, a2
<1>4. i \in 1..Len(s) /\ s2[i] = s[i]
    BY <1>1, <1>2
<1>5. k \in 1..Len(all) /\ a2[k] = all[k]
    <2>1. k # Len(all) + 1
        BY <1>2, <1>3, <1>4
    <2> QED
        BY <1>1, <1>2, <2>1
<1>6. CASE j = Len(s) + 1
    <2>1. l = Len(all) + 1
        BY <1>1, <1>2, <1>3, <1>6
    <2> QED
        BY <1>1, <1>5, <2>1
<1>7. CASE j \in 1..Len(s)
    <2>1. s2[j] = s[j] /\ l \in 1..Len(all) /\ a2[l] = all[l]
        BY <1>1, <1>2, <1>3, <1>7
    <2> QED
        BY <1>1, <1>4, <1>5, <1>7, <2>1 DEF InOrderOf
<1> QED
    BY <1>1, <1>6, <1>7

\* Where the elements of three parts are.
LEMMA ThreeParts ==
    ASSUME NEW S, NEW a \in Seq(S), NEW r \in Seq(S), NEW b \in Seq(S)
    PROVE  /\ \A i \in 1..Len(a) : ((a \o r) \o b)[i] = a[i]
           /\ \A i \in 1..Len(r) : /\ Len(a) + i \in 1..Len((a \o r) \o b)
                                   /\ ((a \o r) \o b)[Len(a) + i] = r[i]
           /\ \A i \in 1..Len(b) : ((a \o r) \o b)[Len(a) + Len(r) + i] = b[i]
<1> DEFINE ar == a \o r
           arb == ar \o b
<1>1. ar \in Seq(S)
    BY ConcatProperties
<1>2. Len(ar) = Len(a) + Len(r)
    BY ConcatProperties
<1>3. \A i \in 1..Len(a) : i \in 1..Len(ar) /\ ar[i] = a[i]
    BY ConcatAt
<1>4. \A i \in 1..Len(r) : Len(a) + i \in 1..Len(ar) /\ ar[Len(a) + i] = r[i]
    BY ConcatAt
<1> HIDE DEF ar
<1>0. b \in Seq(S)
    OBVIOUS
<1>5. /\ \A i \in 1..Len(ar) : i \in 1..Len(arb) /\ arb[i] = ar[i]
      /\ \A i \in 1..Len(b) : arb[Len(ar) + i] = b[i]
    <2>1. PICK p : p = ar
        OBVIOUS
    <2>2. p \in Seq(S)
        BY <1>1, <2>1
    <2>3. /\ \A i \in 1..Len(p) : i \in 1..Len(p \o b) /\ (p \o b)[i] = p[i]
          /\ \A i \in 1..Len(b) : Len(p) + i \in 1..Len(p \o b) /\ (p \o b)[Len(p) + i] = b[i]
        BY ONLY <1>0, <2>2, ConcatAt
    <2> QED
        BY <2>1, <2>3
<1> HIDE DEF arb
<1>6. /\ \A i \in 1..Len(a) : arb[i] = a[i]
      /\ \A i \in 1..Len(r) : Len(a) + i \in 1..Len(arb) /\ arb[Len(a) + i] = r[i]
      /\ \A i \in 1..Len(b) : arb[Len(a) + Len(r) + i] = b[i]
    BY <1>2, <1>3, <1>4, <1>5
<1> QED
    BY <1>6 DEF ar, arb

\* Taking the middle part r out of a sequence in order.
LEMMA OrderCut ==
    ASSUME NEW S, NEW a \in Seq(S), NEW r \in Seq(S), NEW b \in Seq(S), NEW all \in Seq(S),
           InOrderOf((a \o r) \o b, all), ToSet((a \o r) \o b) \subseteq ToSet(all)
    PROVE  /\ InOrderOf(a \o b, all)
           /\ ToSet(a \o b) = ToSet((a \o r) \o b) \ ToSet(r)
<1> DEFINE s == (a \o r) \o b
           c == a \o b
           Pos(i) == IF i <= Len(a) THEN i ELSE i + Len(r)
<1>1. Len(a) \in Nat /\ Len(r) \in Nat /\ Len(b) \in Nat
    BY LenProperties
<1>2. /\ a \o r \in Seq(S) /\ Len(a \o r) = Len(a) + Len(r)
      /\ c \in Seq(S) /\ Len(c) = Len(a) + Len(b)
    BY ConcatProperties
<1>3. s \in Seq(S) /\ Len(s) = Len(a) + Len(r) + Len(b)
    BY <1>1, <1>2, ConcatProperties
<1>4. DOMAIN s = 1..Len(s) /\ DOMAIN c = 1..Len(c) /\ DOMAIN all = 1..Len(all)
    BY <1>2, <1>3, LenProperties
<1>5. ASSUME NEW i \in 1..Len(a) PROVE s[i] = a[i]
    BY ThreeParts
<1>6. ASSUME NEW i \in 1..Len(r) PROVE Len(a) + i \in 1..Len(s) /\ s[Len(a) + i] = r[i]
    BY ThreeParts
<1>7. ASSUME NEW i \in 1..Len(b) PROVE s[Len(a) + Len(r) + i] = b[i]
    BY ThreeParts
<1>8. ASSUME NEW i \in 1..Len(c)
      PROVE  /\ Pos(i) \in 1..Len(s) /\ c[i] = s[Pos(i)]
             /\ \A x \in 1..Len(r) : Pos(i) # Len(a) + x
    <2>1. CASE i <= Len(a)
        <3>1. i \in 1..Len(a) /\ Pos(i) = i
            BY <1>1, <2>1
        <3>2. c[i] = a[i] /\ s[i] = a[i]
            BY <1>5, <3>1, ConcatAt
        <3> QED
            BY <1>1, <1>3, <3>1, <3>2
    <2>2. CASE i > Len(a)
        <3> DEFINE n == i - Len(a)
        <3>1. n \in 1..Len(b) /\ i = Len(a) + n /\ Pos(i) = Len(a) + Len(r) + n
            BY <1>1, <1>2, <2>2
        <3> HIDE DEF n
        <3>2. c[Len(a) + n] = b[n] /\ s[Len(a) + Len(r) + n] = b[n]
            BY <1>7, <3>1, ConcatAt
        <3>3. c[i] = s[Pos(i)]
            BY <3>1, <3>2
        <3> QED
            BY <1>1, <1>3, <3>1, <3>3
    <2> QED
        BY <1>1, <1>2, <2>1, <2>2
<1>9. \A i, j \in 1..Len(c) : i < j => Pos(i) < Pos(j)
    BY <1>1, <1>2
<1> HIDE DEF Pos
<1>o. InOrderOf(s, all)
    OBVIOUS
<1>i. ToSet(s) = {s[i] : i \in 1..Len(s)} /\ ToSet(all) = {all[i] : i \in 1..Len(all)}
    BY <1>3, ToSetOf
<1>10. InOrderOf(c, all)
    <2> HIDE DEF s, c
    <2> SUFFICES ASSUME NEW i \in 1..Len(c), NEW j \in 1..Len(c), NEW k \in DOMAIN all,
                        NEW l \in DOMAIN all, i < j, c[i] = all[k], c[j] = all[l]
                 PROVE  k < l
        BY <1>4 DEF InOrderOf
    <2>1. Pos(i) \in DOMAIN s /\ Pos(j) \in DOMAIN s /\ Pos(i) < Pos(j)
        BY <1>4, <1>8, <1>9
    <2>2. s[Pos(i)] = all[k] /\ s[Pos(j)] = all[l]
        BY <1>8
    <2> QED
        BY <1>o, <2>1, <2>2 DEF InOrderOf
<1>11. ASSUME NEW x \in 1..Len(s), NEW y \in 1..Len(s), x < y PROVE s[x] # s[y]
    <2> HIDE DEF s
    <2>1. SUFFICES ASSUME s[x] = s[y] PROVE FALSE
        OBVIOUS
    <2>2. PICK k \in 1..Len(all) : s[x] = all[k]
        <3>1. s[x] \in ToSet(all)
            BY <1>i DEF s
        <3> QED
            BY <1>i, <3>1
    <2>3. k \in DOMAIN all /\ k \in Nat
        BY <1>4, <2>2
    <2>4. k < k
        BY <1>4, <1>o, <1>11, <2>1, <2>2, <2>3 DEF InOrderOf
    <2> QED
        BY <2>3, <2>4
<1>12. ToSet(c) = ToSet(a) \cup ToSet(b) /\ ToSet(s) = ToSet(a) \cup ToSet(r) \cup ToSet(b)
    <2> DEFINE ar == a \o r
    <2>1. ToSet(c) = ToSet(a) \cup ToSet(b)
        BY ToSetConcat
    <2>2. ar \in Seq(S) /\ ToSet(ar) = ToSet(a) \cup ToSet(r)
        BY <1>2, ToSetConcat
    <2> HIDE DEF ar
    <2>3. ToSet(ar \o b) = ToSet(ar) \cup ToSet(b)
        BY <2>2, ToSetConcat
    <2>4. s = ar \o b
        BY DEF ar
    <2> QED
        BY <2>1, <2>2, <2>3, <2>4
<1>13. ToSet(c) = {c[i] : i \in 1..Len(c)} /\ ToSet(r) = {r[i] : i \in 1..Len(r)}
    BY <1>2, ToSetOf
<1>14. ToSet(c) \cap ToSet(r) = {}
    <2> HIDE DEF s, c
    <2>1. ASSUME NEW i \in 1..Len(c), NEW x \in 1..Len(r) PROVE c[i] # r[x]
        <3> DEFINE p == Pos(i)
                   q == Len(a) + x
        <3>1. p \in 1..Len(s) /\ q \in 1..Len(s) /\ p # q /\ c[i] = s[p] /\ r[x] = s[q]
            BY <1>6, <1>8, <2>1
        <3> HIDE DEF p, q
        <3>2. p < q \/ q < p
            BY <1>3, <3>1
        <3> QED
            BY <1>11, <3>1, <3>2
    <2> QED
        BY <1>13, <2>1
<1> QED
    BY <1>10, <1>12, <1>14

\* An event appended to the last part is appended to the whole.
LEMMA AppendToLast ==
    ASSUME NEW S, NEW a \in Seq(S), NEW b \in Seq(S), NEW e \in S
    PROVE  a \o Append(b, e) = Append(a \o b, e)
<1> DEFINE one == <<e>>
<1>1. one \in Seq(S) /\ a \o b \in Seq(S)
    BY ConcatProperties
<1>2. Append(b, e) = b \o one /\ Append(a \o b, e) = (a \o b) \o one
    BY <1>1, AppendIsConcat
<1> HIDE DEF one
<1>3. (a \o b) \o one = a \o (b \o one)
    BY <1>1, ConcatAssociative
<1> QED
    BY <1>2, <1>3

\* A sequence is its head and the rest.
LEMMA HeadAndRest ==
    ASSUME NEW S, NEW c \in Seq(S), c # <<>>
    PROVE  Head(c) \in S /\ Tail(c) \in Seq(S) /\ c = <<Head(c)>> \o Tail(c)
<1>1. Head(c) \in S /\ Tail(c) \in Seq(S)
    BY HeadTailProperties
<1> QED
    BY <1>1

\* An element moves from the front of one part to the end of the other.
LEMMA MoveElement ==
    ASSUME NEW S, NEW s \in Seq(S), NEW e \in S, NEW t \in Seq(S)
    PROVE  s \o (<<e>> \o t) = Append(s, e) \o t
<1> DEFINE h == <<e>>
<1>1. Append(s, e) = s \o h
    BY AppendIsConcat
<1>2. h \in Seq(S)
    OBVIOUS
<1> HIDE DEF h
<1>3. (s \o h) \o t = s \o (h \o t)
    BY <1>2, ConcatAssociative
<1>4. s \o (h \o t) = Append(s, e) \o t
    BY <1>1, <1>3
<1> QED
    BY <1>4 DEF h

\* The first event of a part moves to the end of what is before it.
LEMMA MoveFirst ==
    ASSUME NEW S, NEW s \in Seq(S), NEW c \in Seq(S), c # <<>>
    PROVE  s \o c = Append(s, Head(c)) \o Tail(c)
<1> DEFINE e == Head(c)
           t == Tail(c)
<1>1. e \in S /\ t \in Seq(S)
    BY HeadAndRest
<1>2. c = <<e>> \o t
    BY HeadAndRest
<1> HIDE DEF e, t
<1>3. s \o (<<e>> \o t) = Append(s, e) \o t
    BY <1>1, MoveElement
<1>4. s \o c = Append(s, e) \o t
    BY <1>2, <1>3
<1> QED
    BY <1>4 DEF e, t

\* The head of the channel moves to the end of the batch: nothing else moves.
LEMMA MoveHead ==
    ASSUME NEW S, NEW a \in Seq(S), NEW b \in Seq(S), NEW c \in Seq(S), c # <<>>
    PROVE  (a \o b) \o c = (a \o Append(b, Head(c))) \o Tail(c)
<1> DEFINE ab == a \o b
           e == Head(c)
           t == Tail(c)
<1>1. e \in S
    BY HeadAndRest
<1>2. ab \in Seq(S)
    BY ConcatProperties
<1> HIDE DEF e, t
<1>3. a \o Append(b, e) = Append(ab, e)
    BY <1>1, AppendToLast
<1> HIDE DEF ab
<1>4. ab \o c = Append(ab, e) \o t
    BY <1>2, MoveFirst DEF e, t
<1>5. ab \o c = (a \o Append(b, e)) \o t
    BY <1>3, <1>4
<1> QED
    BY <1>5 DEF ab, e, t

-----------------------------------------------------------------------------
(* The writer *)

\* Which Write calls may still send, and what a closed writer has left.
AuditFlow ==
    /\ writing \cap written = {}
    /\ ToSet(accepted) \subseteq written /\ failed \subseteq written
    /\ closer # "idle" => closed /\ writing \subseteq late
    /\ closer = "idle" => ~closed /\ worker = "loop"
    /\ worker # "loop" => closer \in {"waiting", "returned"}
    /\ worker = "exited" => batch = <<>> /\ ToSet(ch) \subseteq late
    /\ closer = "returned" => worker = "exited"

AuditInv == AuditTypeOK /\ AuditFlow /\ AuditInOrder

\* The types the lemmas on sequences need.
LEMMA AuditSeqs ==
    ASSUME AuditTypeOK
    PROVE  /\ ch \in Seq(Events) /\ batch \in Seq(Events) /\ stored \in Seq(Events)
           /\ accepted \in Seq(Events) /\ stored \o batch \in Seq(Events) /\ Left \in Seq(Events)
<1>1. /\ ch \in Seq(Events) /\ batch \in Seq(Events) /\ stored \in Seq(Events)
      /\ accepted \in Seq(Events)
    BY DEF AuditTypeOK
<1>2. stored \o batch \in Seq(Events)
    BY <1>1, ConcatProperties
<1> QED
    BY <1>1, <1>2, ConcatProperties DEF Left

\* An empty writer.
LEMMA AuditInitInv == AuditInit => AuditInv
<1> SUFFICES ASSUME AuditInit PROVE AuditInv
    OBVIOUS
<1>1. <<>> \in Seq(Events) /\ Len(<<>>) = 0
    BY EmptySeq
<1>2. AuditTypeOK
    <2>1. closed \in BOOLEAN
        BY DEF AuditInit
    <2>2. 0 <= ChanSize /\ 0 < BatchSize
        BY AuditAssumption
    <2> QED
        BY <1>1, <2>1, <2>2 DEF AuditInit, AuditTypeOK
<1>3. Left = <<>>
    BY <1>1, ConcatEmptySeq DEF AuditInit, Left
<1>4. ToSet(<<>>) = {} /\ DOMAIN <<>> = {}
    BY DEF ToSet
<1>5. AuditFlow
    BY <1>4 DEF AuditInit, AuditFlow
<1>6. AuditInOrder
    BY <1>3, <1>4 DEF AuditInit, AuditInOrder, InOrderOf
<1> QED
    BY <1>2, <1>5, <1>6 DEF AuditInv

\* Only what the order is about matters to it.
LEMMA OrderSame ==
    ASSUME AuditInOrder, UNCHANGED <<accepted, failed>>, Left' = Left
    PROVE  AuditInOrder'
BY DEF AuditInOrder

\* BeginWrite, StoreClosed, CloseDone, CloseReturn, BeginDrain: no event moves.
LEMMA QuietAudit ==
    ASSUME AuditInv,
           (\E e \in Events : BeginWrite(e)) \/ StoreClosed \/ CloseDone \/ CloseReturn \/ BeginDrain
    PROVE  AuditInv'
<1>1. UNCHANGED <<stored, batch, ch, accepted, failed>>
    BY DEF BeginWrite, StoreClosed, CloseDone, CloseReturn, BeginDrain
<1>2. AuditInOrder'
    BY <1>1, OrderSame DEF AuditInv, Left
<1>3. AuditTypeOK'
    BY <1>1 DEF AuditInv, AuditTypeOK, BeginWrite, StoreClosed, CloseDone, CloseReturn, BeginDrain
<1>4. AuditFlow'
    BY <1>1 DEF AuditInv, AuditTypeOK, AuditFlow, BeginWrite, StoreClosed, CloseDone, CloseReturn,
       BeginDrain
<1> QED
    BY <1>2, <1>3, <1>4 DEF AuditInv

\* SendEvent: an event enters the channel behind all that were sent before, or
\* is dropped by a full one.
LEMMA SendEventInv ==
    ASSUME AuditInv, NEW e \in Events, SendEvent(e)
    PROVE  AuditInv'
<1>1. /\ e \in writing /\ writing' = writing \ {e} /\ written' = written \cup {e}
      /\ UNCHANGED <<closed, closer, batch, worker, failed, stored, late>>
    BY DEF SendEvent
<1>2. CASE UNCHANGED <<ch, accepted>>
    <2>1. AuditInOrder'
        BY <1>1, <1>2, OrderSame DEF AuditInv, Left
    <2>2. AuditTypeOK' /\ AuditFlow'
        BY <1>1, <1>2 DEF AuditInv, AuditTypeOK, AuditFlow
    <2> QED
        BY <2>1, <2>2 DEF AuditInv
<1>3. CASE Len(ch) < ChanSize /\ ch' = Append(ch, e) /\ accepted' = Append(accepted, e)
    <2>0. /\ ch \in Seq(Events) /\ batch \in Seq(Events) /\ stored \in Seq(Events)
          /\ accepted \in Seq(Events) /\ stored \o batch \in Seq(Events) /\ Left \in Seq(Events)
        BY AuditSeqs DEF AuditInv
    <2>1. e \notin ToSet(accepted)
        BY <1>1 DEF AuditInv, AuditFlow
    <2> DEFINE one == <<e>>
    <2>2. one \in Seq(Events) /\ ToSet(one) = {e}
        BY DEF ToSet
    <2>3. /\ Append(ch, e) = ch \o one /\ Append(accepted, e) = accepted \o one
          /\ Append(Left, e) = Left \o one
        BY <2>0, AppendIsConcat
    <2> HIDE DEF one
    <2>4. Left' = Append(Left, e)
        <3> DEFINE sb == stored \o batch
        <3>1. Left' = sb \o Append(ch, e) /\ Left = sb \o ch
            BY <1>1, <1>3 DEF Left
        <3>2. sb \in Seq(Events) /\ ch \in Seq(Events)
            BY <2>0
        <3> HIDE DEF sb
        <3>3. sb \o Append(ch, e) = Append(sb \o ch, e)
            BY <3>2, AppendToLast
        <3> QED
            BY <3>1, <3>3
    <2>5. /\ ToSet(Left') = ToSet(Left) \cup {e}
          /\ ToSet(accepted') = ToSet(accepted) \cup {e}
          /\ ToSet(ch') = ToSet(ch) \cup {e}
        <3>1. ASSUME NEW s \in Seq(Events) PROVE ToSet(s \o one) = ToSet(s) \cup {e}
            <4>1. ToSet(s \o one) = ToSet(s) \cup ToSet(one)
                BY <2>2, ToSetConcat
            <4> QED
                BY <2>2, <4>1
        <3> QED
            BY <1>3, <2>0, <2>3, <2>4, <3>1
    <2>6. InOrderOf(Left, accepted) /\ ToSet(Left) = ToSet(accepted) \ failed
        BY DEF AuditInv, AuditInOrder
    <2>7. InOrderOf(Append(Left, e), Append(accepted, e))
        BY <2>0, <2>1, <2>6, OrderAppend
    <2>8. e \notin failed
        BY <1>1 DEF AuditInv, AuditFlow
    <2>9. AuditInOrder'
        BY <1>1, <1>3, <2>4, <2>5, <2>6, <2>7, <2>8 DEF AuditInOrder
    <2>10. AuditTypeOK'
        <3>1. ch' \in Seq(Events) /\ accepted' \in Seq(Events) /\ Len(ch') <= ChanSize
            BY <1>3, <2>0, AuditAssumption
        <3> QED
            BY <1>1, <3>1 DEF AuditInv, AuditTypeOK
    <2>11. AuditFlow'
        BY <1>1, <2>5 DEF AuditInv, AuditFlow
    <2> QED
        BY <2>9, <2>10, <2>11 DEF AuditInv
<1> QED
    BY <1>2, <1>3 DEF SendEvent

\* flush: the rows r leave the writer for the table, or for nowhere, and keep
\* their place among the others.
LEMMA FlushInOrder ==
    ASSUME AuditInv, NEW r \in Seq(Events), NEW c \in Seq(Events), Flush(r), ch' = c,
           UNCHANGED accepted, Left = (stored \o r) \o c
    PROVE  /\ AuditInOrder' /\ stored' \in Seq(Events)
           /\ failed' \in SUBSET Events /\ failed' \subseteq written
<1>1. batch' = <<>> /\ stored \in Seq(Events) /\ accepted \in Seq(Events) /\ failed \in SUBSET Events
    BY DEF Flush, AuditInv, AuditTypeOK
<1>2. /\ InOrderOf((stored \o r) \o c, accepted)
      /\ ToSet((stored \o r) \o c) = ToSet(accepted) \ failed
    BY DEF AuditInv, AuditInOrder
<1>3. CASE stored' = stored \o r /\ UNCHANGED failed
    <2>1. stored' \in Seq(Events)
        BY <1>1, <1>3, ConcatProperties
    <2>2. Left' = (stored' \o <<>>) \o c
        BY <1>1 DEF Left
    <2>3. Left' = Left
        BY <1>3, <2>1, <2>2, ConcatEmptySeq
    <2>4. AuditInOrder'
        BY <1>3, <2>3, OrderSame DEF AuditInv
    <2> QED
        BY <1>1, <1>3, <2>1, <2>4 DEF AuditInv, AuditFlow
<1>4. CASE failed' = failed \cup ToSet(r) /\ UNCHANGED stored
    <2>1. Left' = (stored \o <<>>) \o c
        BY <1>1, <1>4 DEF Left
    <2>2. Left' = stored \o c
        BY <1>1, <2>1, ConcatEmptySeq
    <2>3. ToSet((stored \o r) \o c) \subseteq ToSet(accepted)
        BY <1>2
    <2>4. /\ InOrderOf(stored \o c, accepted)
          /\ ToSet(stored \o c) = ToSet((stored \o r) \o c) \ ToSet(r)
        BY <1>1, <1>2, <2>3, OrderCut
    <2>5. AuditInOrder'
        BY <1>2, <1>4, <2>2, <2>4 DEF AuditInOrder
    <2>6. ToSet(r) \subseteq ToSet((stored \o r) \o c)
        <3> DEFINE sr == stored \o r
        <3>1. sr \in Seq(Events) /\ ToSet(sr) = ToSet(stored) \cup ToSet(r)
            BY <1>1, ConcatProperties, ToSetConcat
        <3> HIDE DEF sr
        <3>2. ToSet(sr \o c) = ToSet(sr) \cup ToSet(c)
            BY <3>1, ToSetConcat
        <3> QED
            BY <3>1, <3>2 DEF sr
    <2>7. ToSet(r) \subseteq written /\ written \subseteq Events
        BY <2>3, <2>6 DEF AuditInv, AuditFlow, AuditTypeOK
    <2> QED
        BY <1>1, <1>4, <2>5, <2>7 DEF AuditInv, AuditFlow
<1> QED
    BY <1>3, <1>4 DEF Flush

\* FlushTick and FinishDrain flush the batch as it is.
LEMMA FlushBatchInv ==
    ASSUME AuditInv, FlushTick \/ FinishDrain
    PROVE  AuditInv'
<1>1. /\ Flush(batch) /\ ch' = ch /\ batch' = <<>>
      /\ UNCHANGED <<closed, closer, writing, written, accepted, late>>
    BY DEF FlushTick, FinishDrain, Flush
<1>2. batch \in Seq(Events) /\ ch \in Seq(Events)
    BY DEF AuditInv, AuditTypeOK
<1>3. AuditInOrder' /\ stored' \in Seq(Events) /\ failed' \in SUBSET Events /\ failed' \subseteq written
    BY <1>1, <1>2, FlushInOrder DEF Left
<1>4. <<>> \in Seq(Events) /\ Len(<<>>) = 0 /\ 0 < BatchSize
    BY EmptySeq, AuditAssumption
<1>5. worker' = worker \/ (worker = "drain" /\ worker' = "exited" /\ ch = <<>>)
    BY DEF FlushTick, FinishDrain
<1>6. AuditTypeOK'
    BY <1>1, <1>3, <1>4, <1>5 DEF AuditInv, AuditTypeOK
<1>7. ToSet(<<>>) = {}
    BY DEF ToSet
<1>8. AuditFlow'
    BY <1>1, <1>3, <1>5, <1>7 DEF AuditInv, AuditFlow
<1> QED
    BY <1>3, <1>6, <1>8 DEF AuditInv

\* Receive: the head of the channel joins the batch, which is flushed when full.
LEMMA ReceiveInv ==
    ASSUME AuditInv, Receive
    PROVE  AuditInv'
<1> DEFINE r == Append(batch, Head(ch))
<1>1. /\ ch # <<>> /\ ch' = Tail(ch) /\ worker \in {"loop", "drain"}
      /\ UNCHANGED <<closed, closer, writing, written, worker, accepted, late>>
    BY DEF Receive
<1>2. /\ batch \in Seq(Events) /\ ch \in Seq(Events) /\ stored \in Seq(Events)
      /\ Len(ch) <= ChanSize /\ ChanSize \in Nat /\ BatchSize \in Nat \ {0}
    BY AuditAssumption DEF AuditInv, AuditTypeOK
<1>3. Head(ch) \in Events /\ Tail(ch) \in Seq(Events) /\ Len(Tail(ch)) = Len(ch) - 1 /\ Len(ch) \in Nat
    BY <1>1, <1>2, HeadTailProperties, LenProperties
<1>4. r \in Seq(Events)
    BY <1>2, <1>3
<1>5. Left = (stored \o r) \o Tail(ch)
    <2>1. stored \in Seq(Events) /\ batch \in Seq(Events) /\ ch \in Seq(Events)
        BY <1>2
    <2>2. ch # <<>>
        BY <1>1
    <2>3. (stored \o batch) \o ch = (stored \o Append(batch, Head(ch))) \o Tail(ch)
        BY <2>1, <2>2, MoveHead
    <2> QED
        BY <2>3 DEF Left
<1>6. ch' \in Seq(Events) /\ Len(ch') <= ChanSize
    BY <1>1, <1>2, <1>3
<1>7. AuditInOrder' /\ stored' \in Seq(Events) /\ failed' \in SUBSET Events
      /\ failed' \subseteq written /\ batch' \in Seq(Events) /\ Len(batch') < BatchSize
    <2>1. CASE Len(r) >= BatchSize /\ Flush(r)
        <3> HIDE DEF r
        <3>1. batch' = <<>> /\ <<>> \in Seq(Events) /\ Len(<<>>) = 0 /\ 0 < BatchSize
            BY <1>2, <2>1, EmptySeq DEF Flush
        <3>2. AuditInOrder' /\ stored' \in Seq(Events) /\ failed' \in SUBSET Events
              /\ failed' \subseteq written
            BY <1>1, <1>3, <1>4, <1>5, <2>1, FlushInOrder
        <3> QED
            BY <3>1, <3>2
    <2>2. CASE ~(Len(r) >= BatchSize) /\ batch' = r /\ UNCHANGED <<stored, failed>>
        <3> HIDE DEF r
        <3>1. Len(batch') < BatchSize
            BY <1>2, <1>4, <2>2, LenProperties
        <3>2. Left' = (stored \o r) \o Tail(ch)
            BY <1>1, <2>2 DEF Left
        <3>3. AuditInOrder'
            BY <1>1, <1>5, <2>2, <3>2, OrderSame DEF AuditInv
        <3> QED
            BY <1>4, <2>2, <3>1, <3>3 DEF AuditInv, AuditTypeOK, AuditFlow
    <2> QED
        BY <2>1, <2>2 DEF Receive
<1> HIDE DEF r
<1>8. AuditTypeOK'
    BY <1>1, <1>6, <1>7 DEF AuditInv, AuditTypeOK
<1>9. AuditFlow'
    BY <1>1, <1>7 DEF AuditInv, AuditFlow
<1> QED
    BY <1>7, <1>8, <1>9 DEF AuditInv

\* Every step of the writers, the worker and Close keeps the invariant.
LEMMA AuditNextInv == AuditInv /\ [AuditNext]_auditVars => AuditInv'
<1> SUFFICES ASSUME AuditInv, [AuditNext]_auditVars PROVE AuditInv'
    OBVIOUS
<1>1. CASE UNCHANGED auditVars
    BY <1>1 DEF auditVars, AuditInv, AuditTypeOK, AuditFlow, AuditInOrder, Left
<1> QED
    BY <1>1, QuietAudit, SendEventInv, FlushBatchInv, ReceiveInv DEF AuditNext, WorkerStep

\* The writer neither drops, doubles nor moves an event it accepted, but for
\* the batches whose insert failed, and a Close that has returned leaves only
\* events whose Write had read the closed flag before Close set it, for any
\* number of writers and any size of the channel and the batches.
THEOREM AuditCorrect == AuditSpec => []AuditSound
<1>1. AuditInv => AuditSound
    BY DEF AuditInv, AuditFlow, AuditSound, FlushedOnClose
<1> QED
    BY <1>1, AuditInitInv, AuditNextInv, PTL DEF AuditSpec

-----------------------------------------------------------------------------
(* Drift reports: a check that is about to insert has seen other drifts *)

CheckRecords ==
    [pc : {"stopped", "idle", "compare", "look", "insert"}, found : Drifts,
     late : BOOLEAN, earlier : SUBSET Checks, excused : BOOLEAN]

Reports == {{}} \cup {{[drift |-> d, resolved |-> b]} : d \in Drifts, b \in BOOLEAN}

\* A check that will insert its report, and nothing excuses it, has seen a
\* latest report with other drifts, and that is still the latest one.
LookedUp ==
    \A c \in Checks : check[c].pc = "insert" /\ ~check[c].excused =>
        \A r \in lastReport : r.drift # check[c].found

\* The checks that hold a report detected before another's hold it still.
EarlierHold == \A c \in Checks : check[c].earlier \subseteq Reporting \ {c}

DriftInv ==
    /\ actual \in Drifts /\ drifted \in 0..MaxDrifts /\ driftFaults \in 0..MaxDriftFaults
    /\ lastReport \in Reports
    /\ check \in [Checks -> CheckRecords]
    /\ EarlierHold
    /\ LookedUp

\* The latest report is one at most.
LEMMA OneReport ==
    ASSUME lastReport \in Reports, NEW r \in lastReport
    PROVE  lastReport = {r} /\ r.drift \in Drifts /\ r.resolved \in BOOLEAN
BY DEF Reports

\* A report with drifts is a latest report.
LEMMA ReportForm ==
    ASSUME NEW d \in Drifts, NEW b \in BOOLEAN
    PROVE  {[drift |-> d, resolved |-> b]} \in Reports
<1>1. \E e \in Drifts, f \in BOOLEAN :
        {[drift |-> d, resolved |-> b]} = {[drift |-> e, resolved |-> f]}
    OBVIOUS
<1> QED
    BY <1>1, SMT DEF Reports

\* The records a check is set to.
LEMMA CheckStarts ==
    /\ NotChecking \in CheckRecords /\ NotChecking.pc = "idle" /\ NotChecking.earlier = {}
    /\ Stopped \in CheckRecords /\ Stopped.pc = "stopped" /\ Stopped.earlier = {}
    /\ \A d \in Drifts :
         /\ [NotChecking EXCEPT !.pc = "compare", !.found = d] \in CheckRecords
         /\ [NotChecking EXCEPT !.pc = "compare", !.found = d].pc = "compare"
         /\ [NotChecking EXCEPT !.pc = "compare", !.found = d].earlier = {}
BY DriftAssumption DEF NotChecking, Stopped, CheckRecords

\* A check that does not hold a report, before or after its step.
LEMMA IdleCheckStep ==
    ASSUME DriftInv, NEW c \in Checks, c \notin Reporting, NEW r \in CheckRecords,
           r.earlier = {}, r.pc \in {"idle", "stopped", "compare"},
           check' = [check EXCEPT ![c] = r], lastReport' = lastReport
    PROVE  check' \in [Checks -> CheckRecords] /\ EarlierHold' /\ LookedUp'
<1>1. check \in [Checks -> CheckRecords] /\ EarlierHold /\ LookedUp
    BY DEF DriftInv
<1>2. check' \in [Checks -> CheckRecords]
    BY <1>1
<1>3. check'[c] = r /\ \A d \in Checks : d # c => check'[d] = check[d]
    BY <1>1
<1>4. Reporting' = Reporting
    BY <1>3 DEF Reporting
<1>5. EarlierHold'
    BY <1>1, <1>3, <1>4 DEF EarlierHold
<1>6. LookedUp'
    BY <1>1, <1>3 DEF LookedUp
<1> QED
    BY <1>2, <1>5, <1>6

\* A check gives its report up.
LEMMA LeavesStep ==
    ASSUME DriftInv, NEW c \in Checks, NEW r \in {NotChecking, Stopped}, Leaves(c, r),
           lastReport' = lastReport
    PROVE  check' \in [Checks -> CheckRecords] /\ EarlierHold' /\ LookedUp'
<1>1. check \in [Checks -> CheckRecords] /\ EarlierHold /\ LookedUp
    BY DEF DriftInv
<1>2. r \in CheckRecords /\ r.pc \in {"idle", "stopped"} /\ r.earlier = {}
    BY CheckStarts
<1>3. check' = [d \in Checks |-> IF d = c THEN r ELSE [check[d] EXCEPT !.earlier = @ \ {c}]]
    BY DEF Leaves
<1>4. check'[c] = r
    BY <1>3
<1>5. ASSUME NEW d \in Checks, d # c
      PROVE  /\ check'[d] \in CheckRecords
             /\ check'[d].pc = check[d].pc /\ check'[d].found = check[d].found
             /\ check'[d].earlier = check[d].earlier \ {c}
             /\ check'[d].excused = check[d].excused
    <2>1. check[d] \in CheckRecords /\ check'[d] = [check[d] EXCEPT !.earlier = @ \ {c}]
        BY <1>1, <1>3, <1>5
    <2> QED
        BY <2>1 DEF CheckRecords
<1>6. check' \in [Checks -> CheckRecords]
    BY <1>2, <1>3, <1>4, <1>5
<1>7. Reporting' = Reporting \ {c}
    BY <1>2, <1>4, <1>5 DEF Reporting
<1>8. EarlierHold'
    BY <1>1, <1>2, <1>4, <1>5, <1>7 DEF EarlierHold
<1>9. LookedUp'
    BY <1>1, <1>2, <1>4, <1>5 DEF LookedUp
<1> QED
    BY <1>6, <1>8, <1>9

\* Compare with a drift to report: every report held was detected before.
LEMMA CompareStep ==
    ASSUME DriftInv, NEW c \in Checks, Compare(c)
    PROVE  check' \in [Checks -> CheckRecords] /\ EarlierHold' /\ LookedUp'
<1>1. /\ check \in [Checks -> CheckRecords] /\ EarlierHold /\ LookedUp
      /\ actual \in Drifts /\ check[c].pc = "compare" /\ check[c] \in CheckRecords
      /\ lastReport' = lastReport
    BY DEF DriftInv, Compare
<1>2. c \notin Reporting /\ Reporting \subseteq Checks
    BY <1>1 DEF Reporting
<1>3. check[c].found \in Drifts
    BY <1>1 DEF CheckRecords
<1>4. PICK found \in {check[c].found} \cup (IF check[c].found = AllMissing THEN {} ELSE {actual}) :
        IF found = NoDrift
        THEN check' = [check EXCEPT ![c] = NotChecking]
        ELSE check' = [check EXCEPT ![c].pc = "look", ![c].found = found,
                                    ![c].earlier = Reporting]
    BY DEF Compare
<1>5. found \in Drifts
    BY <1>1, <1>3, <1>4
<1>6. CASE check' = [check EXCEPT ![c] = NotChecking]
    BY <1>1, <1>2, <1>6, CheckStarts, IdleCheckStep
<1>7. CASE check' = [check EXCEPT ![c].pc = "look", ![c].found = found, ![c].earlier = Reporting]
    <2> DEFINE r == [check[c] EXCEPT !.pc = "look", !.found = found, !.earlier = Reporting]
    <2>1. r \in CheckRecords /\ r.pc = "look" /\ r.earlier = Reporting
        BY <1>1, <1>2, <1>5 DEF CheckRecords
    <2>2. check' = [check EXCEPT ![c] = r]
        BY <1>1, <1>7
    <2> HIDE DEF r
    <2>3. check' \in [Checks -> CheckRecords]
        BY <1>1, <2>1, <2>2
    <2>4. check'[c] = r /\ \A d \in Checks : d # c => check'[d] = check[d]
        BY <1>1, <2>2
    <2>5. Reporting' = Reporting \cup {c}
        BY <2>1, <2>4 DEF Reporting
    <2>6. EarlierHold'
        BY <1>1, <1>2, <2>1, <2>4, <2>5 DEF EarlierHold
    <2>7. LookedUp'
        BY <1>1, <2>1, <2>4 DEF LookedUp
    <2> QED
        BY <2>3, <2>6, <2>7
<1> QED
    BY <1>4, <1>6, <1>7

\* A lookup that finds other drifts, or a sync whose lookup fails, goes on to
\* the insert.
LEMMA ToInsertStep ==
    ASSUME DriftInv, NEW c \in Checks, check[c].pc = "look", NEW r \in CheckRecords,
           check' = [check EXCEPT ![c] = r], r.pc = "insert", r.found = check[c].found,
           r.earlier = check[c].earlier, r.excused \/ ~Matches(c), lastReport' = lastReport
    PROVE  check' \in [Checks -> CheckRecords] /\ EarlierHold' /\ LookedUp'
<1>1. check \in [Checks -> CheckRecords] /\ EarlierHold /\ LookedUp
    BY DEF DriftInv
<1>2. check' \in [Checks -> CheckRecords]
    BY <1>1
<1>3. check'[c] = r /\ \A d \in Checks : d # c => check'[d] = check[d]
    BY <1>1
<1>4. Reporting' = Reporting
    BY <1>3 DEF Reporting
<1>5. EarlierHold'
    BY <1>1, <1>3, <1>4 DEF EarlierHold
<1>6. LookedUp'
    BY <1>1, <1>3 DEF LookedUp, Matches
<1> QED
    BY <1>2, <1>5, <1>6

\* InsertReport: whoever is about to insert as well is excused from now on.
LEMMA InsertReportStep ==
    ASSUME DriftInv, NEW c \in Checks, InsertReport(c)
    PROVE  /\ check' \in [Checks -> CheckRecords] /\ lastReport' \in Reports
           /\ EarlierHold' /\ LookedUp'
<1>1. /\ check \in [Checks -> CheckRecords] /\ EarlierHold /\ LookedUp
      /\ lastReport \in Reports /\ check[c] \in CheckRecords
    BY DEF DriftInv
<1>2. check' = [d \in Checks |->
         IF d = c THEN NotChecking
         ELSE [check[d] EXCEPT !.late = @ \/ d \in check[c].earlier, !.earlier = @ \ {c},
                               !.excused = @ \/ check[d].pc = "insert"]]
    BY DEF InsertReport
<1>3. check'[c] = NotChecking
    BY <1>2
<1>4. ASSUME NEW d \in Checks, d # c
      PROVE  /\ check'[d] \in CheckRecords
             /\ check'[d].pc = check[d].pc /\ check'[d].earlier = check[d].earlier \ {c}
             /\ check[d].pc = "insert" => check'[d].excused
    <2> DEFINE after == check[d].late \/ d \in check[c].earlier
               excused == check[d].excused \/ check[d].pc = "insert"
               rest == check[d].earlier \ {c}
    <2>1. after \in BOOLEAN /\ excused \in BOOLEAN /\ (check[d].pc = "insert" => excused)
        OBVIOUS
    <2>2. check[d] \in CheckRecords /\ rest \in SUBSET Checks
        BY <1>1 DEF CheckRecords
    <2>3. check'[d] = [check[d] EXCEPT !.late = after, !.earlier = rest, !.excused = excused]
        BY <1>2, <1>4
    <2> HIDE DEF after, excused, rest
    <2>4. /\ check'[d] \in CheckRecords /\ check'[d].pc = check[d].pc
          /\ check'[d].earlier = rest /\ check'[d].excused = excused
        BY <2>1, <2>2, <2>3 DEF CheckRecords
    <2> QED
        BY <2>1, <2>4 DEF rest
<1>5. check' \in [Checks -> CheckRecords]
    BY <1>2, <1>3, <1>4, CheckStarts
<1>6. Reporting' = Reporting \ {c}
    BY <1>3, <1>4, CheckStarts DEF Reporting
<1>7. EarlierHold'
    BY <1>1, <1>3, <1>4, <1>6, CheckStarts DEF EarlierHold
<1>8. LookedUp'
    BY <1>3, <1>4, CheckStarts DEF LookedUp
<1>9. lastReport' \in Reports
    <2>1. check[c].found \in Drifts
        BY <1>1 DEF CheckRecords
    <2>2. lastReport' = lastReport \/ lastReport' = {[drift |-> check[c].found, resolved |-> FALSE]}
        BY DEF InsertReport
    <2>3. CASE lastReport' = lastReport
        BY <1>1, <2>3
    <2>4. CASE lastReport' = {[drift |-> check[c].found, resolved |-> FALSE]}
        BY <2>1, <2>4, ReportForm
    <2> QED
        BY <2>2, <2>3, <2>4
<1> QED
    BY <1>5, <1>7, <1>8, <1>9

\* ResolveReport leaves the drifts of the report as they are.
LEMMA ResolveStep ==
    ASSUME DriftInv, ResolveReport
    PROVE  /\ check' = check /\ lastReport' \in Reports /\ LookedUp'
           /\ \A r \in lastReport' : r.resolved
<1>1. PICK r \in lastReport : lastReport' = {[r EXCEPT !.resolved = TRUE]}
    BY DEF ResolveReport
<1>2. lastReport \in Reports /\ LookedUp /\ lastReport # {}
    BY <1>1 DEF DriftInv
<1>3. PICK d \in Drifts, b \in BOOLEAN : lastReport = {[drift |-> d, resolved |-> b]}
    BY <1>2 DEF Reports
<1>4. r = [drift |-> d, resolved |-> b]
    BY <1>3
<1>5. lastReport' = {[drift |-> d, resolved |-> TRUE]}
    BY <1>1, <1>4
<1>6. check' = check
    BY DEF ResolveReport
<1>7. lastReport' \in Reports
    BY <1>5, ReportForm
<1>8. LookedUp'
    BY <1>2, <1>3, <1>5, <1>6 DEF LookedUp
<1> QED
    BY <1>5, <1>6, <1>7, <1>8

\* No report, and no check under way.
LEMMA DriftInitInv == DriftInit => DriftInv
<1> SUFFICES ASSUME DriftInit PROVE DriftInv
    OBVIOUS
<1>1. actual \in Drifts /\ drifted \in 0..MaxDrifts /\ driftFaults \in 0..MaxDriftFaults
    BY DriftAssumption DEF DriftInit
<1>2. check \in [Checks -> CheckRecords]
    BY CheckStarts DEF DriftInit
<1>3. \A c \in Checks : check[c] \in {NotChecking, Stopped}
    BY DEF DriftInit
<1>4. EarlierHold /\ LookedUp
    BY <1>3, CheckStarts DEF EarlierHold, LookedUp
<1>5. lastReport \in Reports
    BY DEF DriftInit, Reports
<1> QED
    BY <1>1, <1>2, <1>4, <1>5 DEF DriftInv

\* Every step of the scheduler, the syncs and the users keeps the invariant.
LEMMA DriftNextInv == DriftInv /\ [DriftNext]_driftVars => DriftInv'
<1> SUFFICES ASSUME DriftInv, [DriftNext]_driftVars PROVE DriftInv'
    OBVIOUS
<1>k. ASSUME check' \in [Checks -> CheckRecords] /\ EarlierHold' /\ LookedUp',
             UNCHANGED <<actual, lastReport, drifted>>,
             driftFaults' = driftFaults \/ Fault
      PROVE  DriftInv'
    BY <1>k, DriftAssumption DEF DriftInv, Fault
<1>s. check \in [Checks -> CheckRecords] /\ EarlierHold /\ LookedUp /\ "scheduler" \in Checks
    BY DEF DriftInv, Checks
<1>e. ASSUME UNCHANGED <<check, lastReport>> PROVE EarlierHold' /\ LookedUp'
    BY <1>e, <1>s DEF EarlierHold, LookedUp, Reporting
<1>1. CASE Drift
    <2>1. UNCHANGED <<check, lastReport, driftFaults>> /\ drifted' \in 0..MaxDrifts /\ actual' \in Drifts
        BY <1>1, DriftAssumption DEF Drift, DriftInv
    <2> QED
        BY <1>e, <2>1 DEF DriftInv
<1>2. CASE ResolveReport
    <2>1. UNCHANGED <<actual, check, drifted, driftFaults>>
        BY <1>2 DEF ResolveReport
    <2>2. EarlierHold'
        BY <1>s, <2>1 DEF EarlierHold, Reporting
    <2> QED
        BY <1>2, <2>1, <2>2, ResolveStep DEF DriftInv
<1>3. CASE StartScheduler
    <2>1. /\ check["scheduler"] = Stopped /\ check' = [check EXCEPT !["scheduler"] = NotChecking]
          /\ UNCHANGED <<actual, lastReport, drifted, driftFaults>>
        BY <1>3 DEF StartScheduler
    <2>2. "scheduler" \notin Reporting
        BY <2>1, CheckStarts DEF Reporting
    <2> QED
        BY <1>k, <1>s, <2>1, <2>2, CheckStarts, IdleCheckStep
<1>4. CASE StopScheduler
    BY <1>4, <1>k, <1>s, LeavesStep DEF StopScheduler
<1>5. ASSUME NEW c \in Checks, ListSchema(c) \/ ListSchemaFails(c) PROVE DriftInv'
    <2>1. /\ check[c].pc = "idle" /\ UNCHANGED <<actual, lastReport, drifted>>
          /\ driftFaults' = driftFaults \/ Fault
        BY <1>5 DEF ListSchema, ListSchemaFails
    <2>2. c \notin Reporting
        BY <2>1 DEF Reporting
    <2>3. PICK d \in Drifts :
            \/ check' = [check EXCEPT ![c] = [NotChecking EXCEPT !.pc = "compare", !.found = d]]
            \/ check' = check
        BY <1>5, DriftAssumption DEF ListSchema, ListSchemaFails, DriftInv
    <2> DEFINE r == [NotChecking EXCEPT !.pc = "compare", !.found = d]
    <2>4. r \in CheckRecords /\ r.pc = "compare" /\ r.earlier = {}
        BY CheckStarts
    <2> HIDE DEF r
    <2>5. CASE check' = [check EXCEPT ![c] = r]
        BY <1>k, <2>1, <2>2, <2>4, <2>5, IdleCheckStep
    <2>6. CASE check' = check
        BY <1>e, <1>k, <1>s, <2>1, <2>6
    <2> QED
        BY <2>3, <2>5, <2>6 DEF r
<1>6. ASSUME NEW c \in Checks, Compare(c) PROVE DriftInv'
    <2>1. UNCHANGED <<actual, lastReport, drifted, driftFaults>>
        BY <1>6 DEF Compare
    <2> QED
        BY <1>6, <1>k, <2>1, CompareStep
<1>7. ASSUME NEW c \in Checks, LookUpLatest(c) \/ LookUpFails(c) \/ InsertFails(c) PROVE DriftInv'
    <2>1. /\ UNCHANGED <<actual, lastReport, drifted>>
          /\ driftFaults' = driftFaults \/ Fault
        BY <1>7 DEF LookUpLatest, LookUpFails, InsertFails
    <2>2. CASE Dropped(c)
        BY <1>k, <2>1, <2>2, LeavesStep DEF Dropped
    <2>3. CASE LookUpLatest(c) /\ ~Dropped(c)
        <3> DEFINE r == [check[c] EXCEPT !.pc = "insert"]
        <3>1. check[c] \in CheckRecords /\ check[c].pc = "look" /\ ~Matches(c)
              /\ check' = [check EXCEPT ![c] = r]
            BY <1>s, <2>3 DEF LookUpLatest
        <3>2. /\ r \in CheckRecords /\ r.pc = "insert" /\ r.found = check[c].found
              /\ r.earlier = check[c].earlier
            BY <3>1 DEF CheckRecords
        <3> HIDE DEF r
        <3> QED
            BY <1>k, <2>1, <3>1, <3>2, ToInsertStep
    <2>4. CASE LookUpFails(c) /\ ~Dropped(c)
        <3> DEFINE r == [check[c] EXCEPT !.pc = "insert", !.excused = TRUE]
        <3>1. check[c] \in CheckRecords /\ check[c].pc = "look" /\ check' = [check EXCEPT ![c] = r]
            BY <1>s, <2>4 DEF LookUpFails
        <3>2. /\ r \in CheckRecords /\ r.pc = "insert" /\ r.found = check[c].found
              /\ r.earlier = check[c].earlier /\ r.excused
            BY <3>1 DEF CheckRecords
        <3> HIDE DEF r
        <3> QED
            BY <1>k, <2>1, <3>1, <3>2, ToInsertStep
    <2> QED
        BY <1>7, <2>2, <2>3, <2>4 DEF InsertFails
<1>8. ASSUME NEW c \in Checks, InsertReport(c) PROVE DriftInv'
    <2>1. UNCHANGED <<actual, drifted, driftFaults>>
        BY <1>8 DEF InsertReport
    <2> QED
        BY <1>8, <2>1, InsertReportStep DEF DriftInv
<1>9. CASE UNCHANGED driftVars
    BY <1>9, <1>e, <1>k, <1>s DEF driftVars
<1> QED
    BY <1>1, <1>2, <1>3, <1>4, <1>5, <1>6, <1>7, <1>8, <1>9 DEF DriftNext

\* A step that puts an open report with the drifts of a resolved one in its
\* place is an insert that is excused.
LEMMA AcknowledgedStep ==
    ASSUME DriftInv, [DriftNext]_driftVars, NEW old \in lastReport, NEW new \in lastReport',
           old.resolved, ~new.resolved, old.drift = new.drift
    PROVE  \E c \in Checks : InsertReport(c) /\ check[c].excused
<1>1. lastReport = {old}
    BY OneReport DEF DriftInv
<1>2. lastReport' # lastReport
    BY <1>1
<1>3. ~ResolveReport
    BY ResolveStep
<1>4. PICK c \in Checks : InsertReport(c)
    BY <1>2, <1>3 DEF DriftNext, driftVars, Drift, StartScheduler, StopScheduler, ListSchema,
       ListSchemaFails, Compare, LookUpLatest, LookUpFails, InsertFails
<1>5. lastReport' = {[drift |-> check[c].found, resolved |-> FALSE]} /\ check[c].pc = "insert"
    BY <1>2, <1>4 DEF InsertReport
<1>6. old.drift = check[c].found
    BY <1>5
<1>7. check[c].excused
    BY <1>5, <1>6 DEF DriftInv, LookedUp
<1> QED
    BY <1>4, <1>7

\* What a user acknowledged stays acknowledged until the drifts change, for any
\* number of syncs beside the scheduler, whatever fails or is stopped: an open
\* report with the same drifts can only come from a check whose lookup failed
\* or that another insert overtook between its lookup and its own.
THEOREM DriftCorrect == DriftInit /\ [][DriftNext]_driftVars => DriftSound
<1>1. DriftInv => DriftTypeOK
    BY DEF DriftInv, DriftTypeOK, EarlierHold, CheckRecords, Reports
<1>2. DriftInv /\ [DriftNext]_driftVars =>
        [\A old \in lastReport, new \in lastReport' :
           (old.resolved /\ ~new.resolved /\ old.drift = new.drift)
               => \E c \in Checks : InsertReport(c) /\ check[c].excused]_driftVars
    BY AcknowledgedStep
<1> QED
    BY <1>1, <1>2, DriftInitInv, DriftNextInv, PTL DEF DriftSound, AcknowledgedStays

-----------------------------------------------------------------------------
(* Scheduled reports: the slot of an hour, by arithmetic on days, weeks and
   months; then what a runner still has to send *)

\* A set of numbers that is not empty has a least member: what induction over
\* hours, days, joins and sums below rests on.
LEMMA LeastNat ==
  ASSUME NEW T \in SUBSET Nat, T # {}
  PROVE  \E n \in T : \A m \in T : n <= m
<1> DEFINE less == {ss \in Nat \X Nat : ss[1] < ss[2]}
<1>1. IsWellFoundedOn(less, Nat)
  BY NatLessThanWellFounded DEF OpToRel
<1>2. T \subseteq Nat OBVIOUS
<1> HIDE DEF less
<1>3. PICK x \in T : \A y \in T : ~(<<y, x>> \in less)
  BY <1>1, <1>2, WFMin
<1> USE DEF less
<1>4. \A y \in T : ~(y < x)
  BY <1>3
<1> QED BY <1>4

\* Multiples of d are d apart.
LEMMA TimesStep ==
  ASSUME NEW d \in Nat \ {0}, NEW x \in Int, NEW y \in Int, x < y
  PROVE  d * x \in Int /\ d * y \in Int /\ d * x + d <= d * y
<1> DEFINE z == y - x - 1
<1>1. z \in Nat /\ y = (x + 1) + z
  OBVIOUS
<1> HIDE DEF z
<1>2. d * z \in Nat
  BY <1>1
<1>3. d * ((x + 1) + z) = d * x + d + d * z
  BY <1>1
<1> QED
  BY <1>1, <1>2, <1>3

\* Quotient and remainder.
LEMMA DivMod ==
  ASSUME NEW d \in Nat \ {0}, NEW a \in Int
  PROVE  a \div d \in Int /\ a % d \in 0..(d - 1) /\ a = d * (a \div d) + (a % d)
<1>1. a \div d \in Int OBVIOUS
<1>2. a % d \in 0..(d - 1) OBVIOUS
<1>3. a = d * (a \div d) + (a % d) OBVIOUS
<1> QED BY <1>1, <1>2, <1>3

\* They are the only ones.
LEMMA DivOf ==
  ASSUME NEW d \in Nat \ {0}, NEW q \in Int, NEW r \in 0..(d - 1)
  PROVE  (d * q + r) \div d = q /\ (d * q + r) % d = r
<1> DEFINE a == d * q + r
           k == a \div d
           s == a % d
<1>1. a \in Int OBVIOUS
<1>2. k \in Int /\ s \in 0..(d - 1) /\ a = d * k + s
  BY <1>1, DivMod
<1>3. d * q \in Int /\ a = d * q + r
  OBVIOUS
<1> HIDE DEF a, k, s
<1>4. ~(k < q)
  <2> SUFFICES ASSUME k < q PROVE FALSE OBVIOUS
  <2>1. d * k \in Int /\ d * k + d <= d * q
    BY TimesStep, <1>2
  <2> QED BY <2>1, <1>2, <1>3
<1>5. ~(q < k)
  <2> SUFFICES ASSUME q < k PROVE FALSE OBVIOUS
  <2>1. d * k \in Int /\ d * q + d <= d * k
    BY TimesStep, <1>2
  <2> QED BY <2>1, <1>2, <1>3
<1>6. k = q /\ s = r
  BY <1>2, <1>3, <1>4, <1>5
<1> QED BY <1>6 DEF k, s, a

\* Numbers with one remainder are d apart.
LEMMA SameRemainder ==
  ASSUME NEW d \in Nat \ {0}, NEW a \in Int, NEW b \in Int, a % d = b % d, a < b
  PROVE  a + d <= b
<1> DEFINE r == a % d
           j == a \div d
           k == b \div d
<1>1. j \in Int /\ r \in 0..(d - 1) /\ a = d * j + r
  BY DivMod
<1>2. k \in Int /\ b = d * k + r
  BY DivMod
<1> HIDE DEF r, j, k
<1>3. d * j \in Int /\ d * k \in Int
  BY <1>1, <1>2
<1>4. j < k
  <2> SUFFICES ASSUME ~(j < k) PROVE FALSE OBVIOUS
  <2>1. CASE j = k
    BY <2>1, <1>1, <1>2, <1>3
  <2>2. CASE k < j
    <3>1. d * k + d <= d * j
      BY <2>2, <1>1, <1>2, TimesStep
    <3> QED BY <3>1, <1>1, <1>2, <1>3
  <2> QED BY <2>1, <2>2, <1>1, <1>2
<1>5. d * j + d <= d * k
  BY <1>1, <1>2, <1>4, TimesStep
<1> QED BY <1>1, <1>2, <1>3, <1>5

\* Days and hours.
LEMMA DayOfHour ==
  ASSUME NEW day \in Int, NEW h \in 0..(DayLength - 1)
  PROVE  /\ DayLength * day \in Int
         /\ (DayLength * day + h) \div DayLength = day
         /\ (DayLength * day + h) % DayLength = h
BY SchedAssumption, DivOf

\* An hour is an hour of its day.
LEMMA HourOfDay ==
  ASSUME NEW t \in Int
  PROVE  /\ t \div DayLength \in Int
         /\ t % DayLength \in 0..(DayLength - 1)
         /\ DayLength * (t \div DayLength) \in Int
         /\ t = DayLength * (t \div DayLength) + (t % DayLength)
BY SchedAssumption, DivMod

\* A later day begins after the whole of an earlier one.
LEMMA LaterDay ==
  ASSUME NEW a \in Int, NEW b \in Int, a < b
  PROVE  /\ DayLength * a \in Int /\ DayLength * b \in Int
         /\ DayLength * a + DayLength <= DayLength * b
BY SchedAssumption, TimesStep

\* The days a timing names.
DayNamed(timing, day) ==
    /\ timing.cadence = "weekly" => day % WeekLength = timing.weekday
    /\ timing.cadence = "monthly" => day - MonthStart(day) = timing.day - 1

NewestNamed(timing, t, slot) ==
    /\ slot \in Int
    /\ slot <= t
    /\ Names(timing, slot)
    /\ \A u \in (slot + 1)..t : ~Names(timing, u)

\* The slot of a named day is the newest if the named days after it have theirs
\* after now.
LEMMA NewestDay ==
  ASSUME NEW timing \in Timings, NEW t \in Int, NEW day \in Int,
         DayNamed(timing, day), DayLength * day + timing.hour <= t,
         \A e \in Int : day < e /\ DayNamed(timing, e) => t < DayLength * e + timing.hour
  PROVE  NewestNamed(timing, t, DayLength * day + timing.hour)
<1> DEFINE slot == DayLength * day + timing.hour
<1>1. timing.hour \in 0..(DayLength - 1) /\ DayLength \in Nat \ {0}
  BY SchedAssumption
<1>2. DayLength * day \in Int /\ slot \div DayLength = day /\ slot % DayLength = timing.hour
  BY <1>1, DayOfHour
<1>3. slot \in Int
  BY <1>1, <1>2
<1>4. Names(timing, slot)
  BY <1>2 DEF Names, DayNamed
<1>5. ASSUME NEW u \in (slot + 1)..t, Names(timing, u) PROVE FALSE
  <2> DEFINE e == u \div DayLength
  <2>1. u \in Int
    BY <1>3
  <2>2. DayNamed(timing, e) /\ u % DayLength = timing.hour
    BY <1>5 DEF Names, DayNamed
  <2>3. e \in Int /\ DayLength * e \in Int /\ u = DayLength * e + timing.hour
    BY <2>1, <2>2, HourOfDay
  <2> HIDE DEF e
  <2>4. day < e
    <3> SUFFICES ASSUME ~(day < e) PROVE FALSE OBVIOUS
    <3>1. CASE e = day
      BY <3>1, <2>3, <1>3
    <3>2. CASE e < day
      <4>1. DayLength * e + DayLength <= DayLength * day
        BY <3>2, <2>3, LaterDay
      <4> QED BY <4>1, <2>3, <1>1, <1>2, <1>3
    <3> QED BY <3>1, <3>2, <2>3
  <2> QED BY <2>2, <2>3, <2>4, <1>3
<1> HIDE DEF slot
<1>6. slot <= t
  BY DEF slot
<1> QED BY <1>3, <1>4, <1>5, <1>6 DEF NewestNamed, slot

\* A slot on a day after today's lies ahead, and one before today's is past.
LEMMA TodaysHours ==
  ASSUME NEW timing \in Timings, NEW t \in Int, NEW e \in Int
  PROVE  /\ t \div DayLength \in Int
         /\ DayLength * e + timing.hour \in Int
         /\ t \div DayLength < e => t < DayLength * e + timing.hour
         /\ e < t \div DayLength => DayLength * e + timing.hour < t
<1> DEFINE today == t \div DayLength
<1>1. timing.hour \in 0..(DayLength - 1) /\ DayLength \in Nat \ {0}
  BY SchedAssumption
<1>2. today \in Int /\ DayLength * today \in Int /\ DayLength * today <= t /\ t < DayLength * today + DayLength
  BY HourOfDay, <1>1
<1>3. DayLength * e \in Int
  BY <1>1
<1> HIDE DEF today
<1>4. ASSUME today < e PROVE t < DayLength * e + timing.hour
  <2>1. DayLength * today + DayLength <= DayLength * e
    BY <1>2, <1>4, LaterDay
  <2> QED BY <2>1, <1>1, <1>2, <1>3
<1>5. ASSUME e < today PROVE DayLength * e + timing.hour < t
  <2>1. DayLength * e + DayLength <= DayLength * today
    BY <1>2, <1>5, LaterDay
  <2> QED BY <2>1, <1>1, <1>2, <1>3
<1> QED BY <1>1, <1>2, <1>3, <1>4, <1>5 DEF today

\* reportSlotAt's default branch: today's slot, or yesterday's if it is still to
\* come.
LEMMA DailyNewest ==
  ASSUME NEW timing \in Timings, NEW t \in Int, timing.cadence \notin {"weekly", "monthly"}
  PROVE  NewestNamed(timing, t, DailySlot(timing, t))
<1> DEFINE today == t \div DayLength
           Slot(e) == DayLength * e + timing.hour
<1>1. timing.hour \in 0..(DayLength - 1) /\ DayLength \in Nat \ {0}
  BY SchedAssumption
<1>2. today \in Int /\ DayLength * today \in Int
  BY HourOfDay
<1>3. \A e : DayNamed(timing, e)
  BY DEF DayNamed
<1>4. \A e \in Int : /\ Slot(e) \in Int
                     /\ today < e => t < Slot(e)
                     /\ e < today => Slot(e) < t
  BY TodaysHours
<1>5. Slot(today - 1) = Slot(today) - DayLength
  BY <1>1, <1>2
<1>6. DailySlot(timing, t) = IF Slot(today) > t THEN Slot(today) - DayLength ELSE Slot(today)
  BY DEF DailySlot, Latest
<1>7. CASE Slot(today) > t
  <2>1. \A e \in Int : today - 1 < e => t < Slot(e)
    <3> SUFFICES ASSUME NEW e \in Int, today - 1 < e PROVE t < Slot(e) OBVIOUS
    <3>1. CASE e = today BY <3>1, <1>7
    <3>2. CASE today < e BY <3>2, <1>4
    <3> HIDE DEF today, Slot
    <3> QED BY <3>1, <3>2, <1>2
  <2>2. today - 1 \in Int /\ Slot(today - 1) <= t
    <3>1. today - 1 \in Int /\ today - 1 < today BY <1>2
    <3>2. Slot(today - 1) \in Int /\ Slot(today - 1) < t BY <3>1, <1>4
    <3> HIDE DEF Slot, today
    <3> QED BY <3>1, <3>2
  <2>3. NewestNamed(timing, t, Slot(today - 1))
    BY <2>1, <2>2, <1>3, NewestDay
  <2> QED BY <2>3, <1>5, <1>6, <1>7
<1>8. CASE ~(Slot(today) > t)
  <2>1. NewestNamed(timing, t, Slot(today))
    <3>1. Slot(today) <= t BY <1>2, <1>4, <1>8
    <3>2. \A e \in Int : today < e => t < Slot(e) BY <1>4
    <3> QED BY <3>1, <3>2, <1>2, <1>3, NewestDay
  <2> QED BY <2>1, <1>6, <1>8
<1> QED BY <1>7, <1>8

\* Going back by the offset from a day leads to the weekday.
LEMMA BackToWeekday ==
  ASSUME NEW w \in Nat \ {0}, NEW wd \in 0..(w - 1), NEW day \in Int
  PROVE  LET offset == ((day % w) - wd + w) % w IN
         /\ offset \in 0..(w - 1)
         /\ day - offset \in Int
         /\ (day - offset) % w = wd
         /\ (day - offset - w) % w = wd
<1> DEFINE x == day % w
           k == day \div w
           y == x - wd + w
           offset == y % w
           j == y \div w
<1>1. k \in Int /\ x \in 0..(w - 1) /\ day = w * k + x
  BY DivMod
<1>2. y \in Int
  BY <1>1
<1>3. j \in Int /\ offset \in 0..(w - 1) /\ y = w * j + offset
  BY <1>2, DivMod
<1>4. y = x - wd + w
  OBVIOUS
<1> HIDE DEF x, k, y, offset, j
<1>5. w * k \in Int /\ w * j \in Int
  BY <1>1, <1>3
<1>6. day - offset = w * k + w * j - w + wd
  BY <1>1, <1>3, <1>4, <1>5
<1>7. w * (k + j - 1) + wd = w * k + w * j - w + wd
  BY <1>1, <1>3
<1>8. w * (k + j - 2) + wd = w * k + w * j - w + wd - w
  BY <1>1, <1>3
<1>9. k + j - 1 \in Int /\ k + j - 2 \in Int /\ day - offset \in Int
  BY <1>1, <1>3
<1>10. (w * (k + j - 1) + wd) % w = wd
  BY <1>9, DivOf
<1>11. (w * (k + j - 2) + wd) % w = wd
  BY <1>9, DivOf
<1>12. day - offset = w * (k + j - 1) + wd /\ day - offset - w = w * (k + j - 2) + wd
  BY <1>1, <1>3, <1>5, <1>6, <1>7, <1>8
<1>13. (day - offset) % w = wd /\ (day - offset - w) % w = wd
  BY <1>10, <1>11, <1>12
<1> QED BY <1>3, <1>9, <1>13 DEF offset, y, x

\* Its weekly branch: the last such weekday, a week back if its slot is still to
\* come.
LEMMA WeeklyNewest ==
  ASSUME NEW timing \in Timings, NEW t \in Int, timing.cadence = "weekly"
  PROVE  NewestNamed(timing, t, WeeklySlot(timing, t))
<1> DEFINE today == t \div DayLength
           offset == ((today % WeekLength) - timing.weekday + WeekLength) % WeekLength
           day == today - offset
           Slot(e) == DayLength * e + timing.hour
<1>1. /\ timing.hour \in 0..(DayLength - 1) /\ DayLength \in Nat \ {0}
      /\ timing.weekday \in 0..(WeekLength - 1) /\ WeekLength \in Nat \ {0}
  BY SchedAssumption
<1>2. today \in Int
  BY HourOfDay
<1>3. offset \in 0..(WeekLength - 1) /\ day \in Int
      /\ day % WeekLength = timing.weekday /\ (day - WeekLength) % WeekLength = timing.weekday
  BY <1>1, <1>2, BackToWeekday
<1>4. \A e : DayNamed(timing, e) <=> e % WeekLength = timing.weekday
  BY DEF DayNamed
<1>5. \A e \in Int : /\ Slot(e) \in Int
                     /\ today < e => t < Slot(e)
                     /\ e < today => Slot(e) < t
  BY TodaysHours
<1>6. Slot(day - WeekLength) = Slot(day) - DayLength * WeekLength
  BY <1>1, <1>3
<1>7. WeeklySlot(timing, t) =
        IF Slot(day) > t THEN Slot(day) - DayLength * WeekLength ELSE Slot(day)
  BY DEF WeeklySlot, Latest
<1>8. day <= today /\ today < day + WeekLength
  BY <1>1, <1>2, <1>3
<1> HIDE DEF today, offset, day, Slot
<1>9. CASE Slot(day) > t
  <2> DEFINE before == day - WeekLength
  <2>1. before \in Int /\ before < today /\ before % WeekLength = timing.weekday
    BY <1>1, <1>2, <1>3, <1>8
  <2>2. \A e \in Int : before < e /\ DayNamed(timing, e) => t < Slot(e)
    <3> SUFFICES ASSUME NEW e \in Int, before < e, DayNamed(timing, e) PROVE t < Slot(e) OBVIOUS
    <3>1. before + WeekLength <= e
      BY <1>1, <1>4, <2>1, SameRemainder
    <3>2. day <= e
      BY <3>1, <1>1, <1>3
    <3>3. CASE e = day
      BY <3>3, <1>9
    <3>4. CASE day < e
      <4>1. day + WeekLength <= e
        BY <1>1, <1>3, <1>4, <3>4, SameRemainder
      <4>2. today < e
        BY <4>1, <1>1, <1>2, <1>3, <1>8
      <4> QED BY <4>2, <1>5
    <3> QED BY <3>2, <3>3, <3>4, <1>3
  <2>3. Slot(before) <= t
    BY <2>1, <1>5
  <2> HIDE DEF before
  <2>4. NewestNamed(timing, t, Slot(before))
    BY <2>1, <2>2, <2>3, <1>4, NewestDay DEF Slot
  <2> QED BY <2>4, <1>6, <1>7, <1>9 DEF before
<1>10. CASE ~(Slot(day) > t)
  <2>1. Slot(day) <= t
    BY <1>3, <1>5, <1>10
  <2>2. \A e \in Int : day < e /\ DayNamed(timing, e) => t < Slot(e)
    <3> SUFFICES ASSUME NEW e \in Int, day < e, DayNamed(timing, e) PROVE t < Slot(e) OBVIOUS
    <3>1. day + WeekLength <= e
      BY <1>1, <1>3, <1>4, SameRemainder
    <3>2. today < e
      BY <3>1, <1>1, <1>2, <1>3, <1>8
    <3> QED BY <3>2, <1>5
  <2>3. NewestNamed(timing, t, Slot(day))
    BY <2>1, <2>2, <1>3, <1>4, NewestDay DEF Slot
  <2> QED BY <2>3, <1>7, <1>10
<1> QED BY <1>9, <1>10

\* The start of the month that a day belongs to.
LEMMA MonthStartOf ==
  ASSUME NEW day \in Int, \E m \in MonthStarts : m <= day
  PROVE  /\ MonthStart(day) \in MonthStarts
         /\ MonthStart(day) \in Int
         /\ MonthStart(day) <= day
         /\ \A m \in MonthStarts : m <= day => m <= MonthStart(day)
<1> DEFINE S == {m \in MonthStarts : m <= day}
           back == {day - m : m \in S}
<1>1. S \subseteq Int /\ S # {}
  BY SchedAssumption
<1>2. back \in SUBSET Nat /\ back # {}
  BY <1>1
<1>3. PICK b \in back : \A c \in back : b <= c
  BY <1>2, LeastNat
<1>4. PICK m \in S : b = day - m
  BY <1>3
<1>5. \A n \in S : day - n \in back /\ n \in Int
  BY <1>1
<1>6. \A n \in S : m >= n
  BY <1>1, <1>3, <1>4, <1>5
<1> HIDE DEF S, back
<1>7. Max(S) \in S /\ \A n \in S : Max(S) >= n
  BY <1>6 DEF Max
<1>8. MonthStart(day) = Max(S)
  BY DEF MonthStart, S
<1> QED BY <1>7, <1>8, <1>1 DEF S

\* Its monthly branch: this month's day, or last month's if its slot is still
\* to come.
LEMMA MonthlyNewest ==
  ASSUME NEW timing \in Timings, NEW t \in Nat, timing.cadence = "monthly"
  PROVE  NewestNamed(timing, t, MonthlySlot(timing, t))
<1> DEFINE today == t \div DayLength
           start == MonthStart(today)
           before == MonthStart(start - 1)
           d == timing.day - 1
           Slot(e) == DayLength * e + timing.hour
<1>1. /\ timing.hour \in 0..(DayLength - 1) /\ DayLength \in Nat \ {0}
      /\ d \in Nat /\ MonthStarts \subseteq Int
      /\ \A m, next \in MonthStarts : m < next => m + d < next
  BY SchedAssumption
<1>2. today \in Int /\ today >= 0
  <2>1. today \in Int /\ DayLength * today \in Int /\ t < DayLength * today + DayLength
    BY HourOfDay, <1>1
  <2> HIDE DEF today
  <2>2. CASE today < 0
    <3>1. DayLength * today + DayLength <= DayLength * 0
      BY <2>1, <2>2, LaterDay
    <3> QED BY <3>1, <2>1, <1>1
  <2> QED BY <2>1, <2>2
<1>3. PICK m1 \in MonthStarts, m2 \in MonthStarts : m1 < m2 /\ m2 <= 0
  BY SchedAssumption
<1>4. m1 \in Int /\ m2 \in Int
  BY <1>1, <1>3
<1>5. \E m \in MonthStarts : m <= today
  BY <1>2, <1>3, <1>4
<1>6. start \in MonthStarts /\ start \in Int /\ start <= today
      /\ \A m \in MonthStarts : m <= today => m <= start
  BY <1>2, <1>5, MonthStartOf
<1> HIDE DEF today, start
<1>7. m2 <= start
  BY <1>2, <1>3, <1>4, <1>6
<1>8. m1 <= start - 1 /\ start - 1 \in Int
  BY <1>3, <1>4, <1>6, <1>7
<1>9. before \in MonthStarts /\ before \in Int /\ before <= start - 1
      /\ \A m \in MonthStarts : m <= start - 1 => m <= before
  BY <1>3, <1>8, MonthStartOf
<1> HIDE DEF before, d
\* A month that has started keeps its name up to the day.
<1>10. ASSUME NEW m \in MonthStarts
       PROVE  MonthStart(m + d) = m
  <2>0. m \in Int BY <1>1
  <2>1. m + d \in Int /\ m <= m + d
    BY <1>1, <2>0
  <2>2. MonthStart(m + d) \in MonthStarts /\ MonthStart(m + d) \in Int /\ MonthStart(m + d) <= m + d
        /\ m <= MonthStart(m + d)
    BY <2>1, MonthStartOf
  <2>3. ~(m < MonthStart(m + d))
    BY <1>1, <2>0, <2>2
  <2> QED BY <2>0, <2>2, <2>3
<1>11. \A e : DayNamed(timing, e) <=> e - MonthStart(e) = d
  BY DEF DayNamed, d
<1>12. \A m \in MonthStarts : m + d \in Int /\ DayNamed(timing, m + d)
  <2> SUFFICES ASSUME NEW m \in MonthStarts PROVE m + d \in Int /\ (m + d) - m = d
    BY <1>10, <1>11
  <2> QED BY <1>1
<1>13. \A e \in Int : /\ Slot(e) \in Int
                      /\ today < e => t < Slot(e)
                      /\ e < today => Slot(e) < t
  BY TodaysHours DEF today
<1>14. MonthlySlot(timing, t) = IF Slot(start + d) > t THEN Slot(before + d) ELSE Slot(start + d)
  <2>1. \A m \in Int : m + timing.day - 1 = m + d
    BY <1>1, SchedAssumption DEF d
  <2>2. start + timing.day - 1 = start + d /\ before + timing.day - 1 = before + d
    BY <2>1, <1>6, <1>9
  <2> QED BY <2>2 DEF MonthlySlot, Latest, today, start, before
\* A named day up to today is the day of a month that has started.
<1>15. ASSUME NEW e \in Int, DayNamed(timing, e), start <= e
       PROVE  /\ MonthStart(e) \in MonthStarts /\ MonthStart(e) \in Int
              /\ start <= MonthStart(e) /\ e = MonthStart(e) + d
  <2>1. MonthStart(e) \in MonthStarts /\ MonthStart(e) \in Int /\ start <= MonthStart(e)
    BY <1>6, <1>15, MonthStartOf
  <2>2. e - MonthStart(e) = d
    BY <1>11, <1>15
  <2> QED BY <2>1, <2>2, <1>1
<1> HIDE DEF Slot
<1>16. ASSUME NEW e \in Int, DayNamed(timing, e), start + d < e PROVE t < Slot(e)
  <2>1. start <= e
    BY <1>1, <1>6, <1>16
  <2>2. MonthStart(e) \in MonthStarts /\ MonthStart(e) \in Int /\ e = MonthStart(e) + d
    BY <1>15, <1>16, <2>1
  <2>3. start < MonthStart(e)
    BY <2>2, <1>1, <1>6, <1>16
  <2>4. today < MonthStart(e)
    BY <2>2, <2>3, <1>2, <1>6
  <2>5. today < e
    BY <2>2, <2>4, <1>1, <1>2
  <2> QED BY <2>5, <1>13
<1>17. CASE Slot(start + d) > t
  <2>1. before + d < start
    BY <1>1, <1>6, <1>9
  <2>2. before + d \in Int /\ before + d < today
    BY <2>1, <1>1, <1>2, <1>6, <1>9
  <2>3. \A e \in Int : before + d < e /\ DayNamed(timing, e) => t < Slot(e)
    <3> SUFFICES ASSUME NEW e \in Int, before + d < e, DayNamed(timing, e) PROVE t < Slot(e) OBVIOUS
    <3>1. start <= e
      <4> SUFFICES ASSUME ~(start <= e) PROVE FALSE OBVIOUS
      <4>1. e <= start - 1 /\ before <= e
        BY <1>1, <1>6, <1>9
      <4>2. MonthStart(e) \in MonthStarts /\ MonthStart(e) \in Int /\ MonthStart(e) <= e
        BY <4>1, <1>9, MonthStartOf
      <4>3. MonthStart(e) <= before
        BY <4>1, <4>2, <1>8, <1>9
      <4>4. e - MonthStart(e) = d
        BY <1>11
      <4> QED BY <4>2, <4>3, <4>4, <1>1, <1>9
    <3>2. MonthStart(e) \in Int /\ start <= MonthStart(e) /\ e = MonthStart(e) + d
      BY <1>15, <3>1
    <3>3. e = start + d \/ start + d < e
      BY <3>2, <1>1, <1>6
    <3> QED BY <3>3, <1>16, <1>17
  <2>4. Slot(before + d) <= t
    BY <2>2, <1>13
  <2>5. NewestNamed(timing, t, Slot(before + d))
    BY <2>2, <2>3, <2>4, <1>9, <1>12, NewestDay DEF Slot
  <2> QED BY <2>5, <1>14, <1>17
<1>18. CASE ~(Slot(start + d) > t)
  <2>1. start + d \in Int /\ Slot(start + d) <= t
    BY <1>6, <1>12, <1>13, <1>18
  <2>2. \A e \in Int : start + d < e /\ DayNamed(timing, e) => t < Slot(e)
    BY <1>16
  <2>3. NewestNamed(timing, t, Slot(start + d))
    BY <2>1, <2>2, <1>6, <1>12, NewestDay DEF Slot
  <2> QED BY <2>3, <1>14, <1>18
<1> QED BY <1>17, <1>18

\* The slot reportSlotAt computes is the newest one the timing names, for days,
\* weeks and months of any length.
LEMMA SlotNewest ==
  ASSUME NEW timing \in Timings, NEW t \in Nat
  PROVE  NewestNamed(timing, t, reportSlotAt(timing, t))
<1>1. t \in Int OBVIOUS
<1>2. CASE timing.cadence = "weekly"
  BY <1>1, <1>2, WeeklyNewest DEF reportSlotAt
<1>3. CASE timing.cadence = "monthly"
  BY <1>3, MonthlyNewest DEF reportSlotAt
<1>4. CASE timing.cadence \notin {"weekly", "monthly"}
  BY <1>1, <1>4, DailyNewest DEF reportSlotAt
<1> QED BY <1>2, <1>3, <1>4

-----------------------------------------------------------------------------
Sound == ~overlap /\ faults = 0

\* Where the row and the runners can be.
SchedShape ==
    /\ \A x, y \in sched.timing : x = y
    /\ sched.active => sched.row = "kept"
    /\ sched.row = "absent" => sent = {} /\ \A n \in Runners : runner[n] = Asleep
    /\ \A n \in Runners : runner[n].pc = "asleep" => runner[n] = Asleep
    /\ \A n \in Runners : runner[n] # Asleep => runner[n].slot <= runner[n].at
    /\ ~overlap =>
         \A n, m \in Runners : runner[n] # Asleep /\ runner[m] # Asleep => n = m

\* What was sent belongs to a slot that the last run covers, or to the slot
\* under way and to a recipient who is not left.
RunIsNew ==
    sched.row = "kept" => \A n \in Runners : runner[n] # Asleep => sched.last < runner[n].slot
LeftNotSent ==
    \A n \in Runners : runner[n] # Asleep =>
        \A p \in sent : p[1] = runner[n].slot => p[2] \notin runner[n].left
SentIsCovered ==
    sched.row = "kept" =>
        \A p \in sent : \/ p[1] <= sched.last
                        \/ \E n \in Runners : runner[n] # Asleep /\ runner[n].slot = p[1]
NothingResent == Sound => resent = {} /\ RunIsNew /\ LeftNotSent /\ SentIsCovered

SchedInv == SchedTypeOK /\ SchedShape /\ NothingResent

Places == [pc : {"asleep", "sending"}, at : 0..LastHour, slot : 0..LastHour, left : SUBSET Recipients]
Rows == [row : {"absent", "kept", "deleted"}, active : BOOLEAN, timing : SUBSET Timings, last : 0..LastHour]

\* No schedule, and nobody awake.
LEMMA SchedInitInv == SchedInit => SchedInv
<1> SUFFICES ASSUME SchedInit PROVE SchedInv OBVIOUS
<1>1. LastHour \in Nat /\ MaxFaults \in Nat /\ MaxEdits \in Nat
  BY SchedAssumption
<1>2. Asleep \in Places
  BY <1>1 DEF Asleep, Places
<1>3. sched \in Rows
  BY <1>1 DEF SchedInit, Rows
<1>4. SchedTypeOK
  <2>1. runner \in [Runners -> Places]
    BY <1>2 DEF SchedInit
  <2>2. hour \in 0..LastHour /\ faults \in 0..MaxFaults /\ edits \in 0..MaxEdits
    BY <1>1 DEF SchedInit
  <2>3. sent = {} /\ resent = {} /\ overlap \in BOOLEAN
    BY DEF SchedInit
  <2> QED BY <1>3, <2>1, <2>2, <2>3 DEF SchedTypeOK, Places, Rows
<1>5. SchedShape
  BY DEF SchedInit, SchedShape
<1>6. NothingResent
  BY DEF SchedInit, NothingResent, RunIsNew, LeftNotSent, SentIsCovered, Sound
<1> QED BY <1>4, <1>5, <1>6 DEF SchedInv

\* CreateSchedule: nothing was sent before.
LEMMA CreateInv ==
  ASSUME SchedInv, NEW timing \in Timings, CreateSchedule(timing)
  PROVE  SchedInv'
<1>1. sched' \in Rows /\ sched'.row = "kept" /\ sched'.timing = {timing} /\ edits' \in 0..MaxEdits
  <2>1. hour \in 0..LastHour /\ edits \in 0..MaxEdits /\ MaxEdits \in Nat
    BY SchedAssumption DEF SchedInv, SchedTypeOK
  <2> QED BY <2>1 DEF CreateSchedule, Rows
<1>2. SchedTypeOK'
  BY <1>1 DEF SchedInv, SchedTypeOK, CreateSchedule, Rows
<1>3. SchedShape'
  BY <1>1 DEF SchedInv, SchedShape, CreateSchedule
<1>4. NothingResent'
  BY <1>1 DEF SchedInv, SchedShape, NothingResent, RunIsNew, LeftNotSent, SentIsCovered, CreateSchedule, Sound
<1> QED BY <1>2, <1>3, <1>4 DEF SchedInv

\* UpdateSchedule keeps the last run.
LEMMA UpdateInv ==
  ASSUME SchedInv, NEW timing \in Timings, NEW b \in BOOLEAN, UpdateSchedule(timing, b)
  PROVE  SchedInv'
<1>1. sched' \in Rows /\ sched'.row = "kept" /\ sched'.timing = {timing} /\ sched'.last = sched.last
      /\ edits' \in 0..MaxEdits
  <2>1. sched \in Rows /\ edits \in 0..MaxEdits /\ MaxEdits \in Nat
    BY SchedAssumption DEF SchedInv, SchedTypeOK, Rows
  <2>2. sched' = [sched EXCEPT !.timing = {timing}, !.active = b] /\ sched.row = "kept"
    BY DEF UpdateSchedule
  <2>3. sched' = [row |-> sched.row, active |-> b, timing |-> {timing}, last |-> sched.last]
    BY <2>1, <2>2 DEF Rows
  <2>4. sched' \in Rows /\ sched'.row = "kept" /\ sched'.timing = {timing} /\ sched'.last = sched.last
    BY <2>1, <2>2, <2>3 DEF Rows
  <2>5. edits' \in 0..MaxEdits
    BY <2>1 DEF UpdateSchedule
  <2> QED BY <2>4, <2>5
<1>2. SchedTypeOK'
  BY <1>1 DEF SchedInv, SchedTypeOK, UpdateSchedule, Rows
<1>3. SchedShape'
  BY <1>1 DEF SchedInv, SchedShape, UpdateSchedule
<1>4. NothingResent'
  BY <1>1 DEF SchedInv, NothingResent, RunIsNew, LeftNotSent, SentIsCovered, UpdateSchedule, Sound
<1> QED BY <1>2, <1>3, <1>4 DEF SchedInv

\* DeleteSchedule: a run under way goes on.
LEMMA DeleteInv ==
  ASSUME SchedInv, DeleteSchedule
  PROVE  SchedInv'
<1>1. sched' \in Rows /\ sched'.row = "deleted" /\ sched'.timing = {} /\ sched'.active = FALSE
      /\ edits' \in 0..MaxEdits
  <2>1. edits \in 0..MaxEdits /\ MaxEdits \in Nat /\ LastHour \in Nat
    BY SchedAssumption DEF SchedInv, SchedTypeOK
  <2> QED BY <2>1 DEF DeleteSchedule, Rows
<1>2. SchedTypeOK'
  BY <1>1 DEF SchedInv, SchedTypeOK, DeleteSchedule, Rows
<1>3. SchedShape'
  BY <1>1 DEF SchedInv, SchedShape, DeleteSchedule
<1>4. NothingResent'
  BY <1>1 DEF SchedInv, NothingResent, RunIsNew, LeftNotSent, SentIsCovered, DeleteSchedule, Sound
<1> QED BY <1>2, <1>3, <1>4 DEF SchedInv

\* RunDue: a runner that starts beside another is an overlap; a
\* lone one takes a slot newer than the last run.
LEMMA RunDueInv ==
  ASSUME SchedInv, NEW n \in Runners, RunDue(n)
  PROVE  SchedInv'
<1>1. /\ hour \in 0..LastHour /\ LastHour \in Nat
      /\ sched \in Rows /\ runner \in [Runners -> Places] /\ overlap \in BOOLEAN
  BY SchedAssumption DEF SchedInv, SchedTypeOK, Rows, Places
<1>2. PICK timing \in sched.timing :
        runner' = [runner EXCEPT ![n] =
          [pc |-> "sending", at |-> hour, slot |-> reportSlotAt(timing, hour), left |-> Recipients]]
  BY DEF RunDue
<1> DEFINE slot == reportSlotAt(timing, hour)
           r == [pc |-> "sending", at |-> hour, slot |-> slot, left |-> Recipients]
<1>3. timing \in Timings /\ hour \in Nat
  BY <1>1, <1>2 DEF Rows
<1>4. slot \in Int
  BY <1>3, SlotNewest DEF NewestNamed
<1>5. slot <= hour /\ sched.last < slot
  BY <1>2 DEF RunDue, reportScheduleDue, SchedInv, SchedShape
<1>6. slot \in 0..LastHour
  BY <1>1, <1>4, <1>5 DEF Rows
<1> HIDE DEF slot
<1>7. r \in Places /\ r # Asleep /\ r.pc = "sending" /\ r.slot = slot /\ r.at = hour
  BY <1>1, <1>6 DEF Places, Asleep
<1>8. runner' = [runner EXCEPT ![n] = r] /\ runner[n] = Asleep /\ sched.row = "kept"
      /\ overlap' = (overlap \/ \E m \in Runners : runner[m] # Asleep)
      /\ UNCHANGED <<hour, sched, sent, resent, faults, edits>>
  BY <1>2 DEF RunDue, SchedInv, SchedShape, slot
<1> HIDE DEF r
<1>9. runner' \in [Runners -> Places] /\ runner'[n] = r /\ \A m \in Runners : m # n => runner'[m] = runner[m]
  BY <1>1, <1>7, <1>8
<1>10. SchedTypeOK'
  BY <1>8, <1>9 DEF SchedInv, SchedTypeOK, Places
<1>11. SchedShape'
  BY <1>1, <1>5, <1>7, <1>8, <1>9 DEF SchedInv, SchedShape
<1>12. NothingResent'
  <2> SUFFICES ASSUME Sound' PROVE resent' = {} /\ RunIsNew' /\ LeftNotSent' /\ SentIsCovered'
    BY DEF NothingResent
  <2>1. Sound /\ \A m \in Runners : runner[m] = Asleep
    BY <1>8 DEF Sound
  <2>2. resent = {} /\ SentIsCovered
    BY <2>1 DEF SchedInv, NothingResent
  <2>3. \A p \in sent : p[1] <= sched.last
    BY <2>1, <2>2, <1>8 DEF SentIsCovered
  <2>4. RunIsNew'
    BY <2>1, <1>5, <1>7, <1>8, <1>9 DEF RunIsNew
  <2>5. LeftNotSent'
    <3>1. \A p \in sent : p[1] \in Int
      BY DEF SchedInv, SchedTypeOK
    <3>2. \A p \in sent : p[1] # slot
      BY <2>3, <3>1, <1>1, <1>4, <1>5 DEF Rows
    <3> QED BY <2>1, <3>2, <1>7, <1>8, <1>9 DEF LeftNotSent
  <2>6. SentIsCovered'
    BY <2>3, <1>8 DEF SentIsCovered
  <2> QED BY <2>2, <2>4, <2>5, <2>6, <1>8
<1> QED BY <1>10, <1>11, <1>12 DEF SchedInv

\* The next recipient: with no overlap and no fault, not one who has the digest.
LEMMA SendInv ==
  ASSUME SchedInv, NEW n \in Runners, NEW rcpt \in Recipients, SendReportDigest(n, rcpt)
  PROVE  SchedInv'
<1>1. /\ LastHour \in Nat /\ runner \in [Runners -> Places]
      /\ sent \in SUBSET ((0..LastHour) \X Recipients) /\ resent \in SUBSET ((0..LastHour) \X Recipients)
  BY SchedAssumption DEF SchedInv, SchedTypeOK, Places
<1> DEFINE r == [runner[n] EXCEPT !.left = @ \ {rcpt}]
           mail == {<<runner[n].slot, rcpt>>}
<1>2. runner[n] \in Places /\ runner[n].pc = "sending" /\ rcpt \in runner[n].left
  BY <1>1 DEF SendReportDigest
<1>3. /\ r \in Places /\ r.pc = "sending" /\ r.slot = runner[n].slot /\ r.at = runner[n].at
      /\ r.left = runner[n].left \ {rcpt}
  BY <1>2 DEF Places
<1>4. runner' = [runner EXCEPT ![n] = r]
  BY <1>1 DEF SendReportDigest
<1>5. r # Asleep /\ runner[n] # Asleep
  BY <1>2, <1>3 DEF Asleep
<1> HIDE DEF r
<1>6. runner' \in [Runners -> Places] /\ runner'[n] = r /\ \A m \in Runners : m # n => runner'[m] = runner[m]
  BY <1>1, <1>3, <1>4
<1>7. /\ \/ sent' = sent \cup mail /\ resent' = resent \cup (sent \cap mail)
         \/ sent' = sent /\ resent' = resent
      /\ hour' = hour /\ sched' = sched /\ overlap' = overlap /\ faults' = faults /\ edits' = edits
  BY DEF SendReportDigest
<1>8. mail \in SUBSET ((0..LastHour) \X Recipients)
  BY <1>2 DEF Places
<1>9. sched.row # "absent"
  BY <1>5 DEF SchedInv, SchedShape
<1>10. SchedTypeOK'
  <2> HIDE DEF mail
  <2>1. sent' \in SUBSET ((0..LastHour) \X Recipients) /\ resent' \in SUBSET ((0..LastHour) \X Recipients)
    BY <1>1, <1>7, <1>8
  <2> QED BY <2>1, <1>6, <1>7 DEF SchedInv, SchedTypeOK, Places
<1>11. SchedShape'
  <2>1. \A m \in Runners : runner'[m] # Asleep <=> runner[m] # Asleep
    BY <1>5, <1>6
  <2>2. \A m \in Runners : runner'[m].slot = runner[m].slot /\ runner'[m].at = runner[m].at
                           /\ runner'[m].pc = runner[m].pc
    BY <1>2, <1>3, <1>6
  <2> HIDE DEF mail
  <2> QED BY <2>1, <2>2, <1>7, <1>9 DEF SchedInv, SchedShape
<1>12. NothingResent'
  <2> SUFFICES ASSUME Sound' PROVE resent' = {} /\ RunIsNew' /\ LeftNotSent' /\ SentIsCovered'
    BY DEF NothingResent
  <2>1. Sound
    BY <1>7 DEF Sound
  <2>2. resent = {} /\ RunIsNew /\ LeftNotSent /\ SentIsCovered
    BY <2>1 DEF SchedInv, NothingResent
  <2>3. <<runner[n].slot, rcpt>> \notin sent
    BY <2>2, <1>2, <1>5 DEF LeftNotSent
  <2>4. resent' = {}
    BY <2>2, <2>3, <1>7
  <2>5. \A m \in Runners : runner[m] # Asleep => m = n
    BY <2>1, <1>5 DEF Sound, SchedInv, SchedShape
  <2>6. RunIsNew'
    BY <2>2, <2>5, <1>3, <1>5, <1>6, <1>7 DEF RunIsNew
  <2>7. \A p \in sent' : p \in sent \/ p = <<runner[n].slot, rcpt>>
    BY <1>7
  <2> HIDE DEF mail
  <2>8. LeftNotSent'
    <3> SUFFICES ASSUME NEW m \in Runners, runner'[m] # Asleep, NEW p \in sent', p[1] = runner'[m].slot
                 PROVE  p[2] \notin runner'[m].left
      BY DEF LeftNotSent
    <3>1. m = n
      BY <2>5, <1>6
    <3>2. CASE p \in sent
      <4>1. p[2] \notin runner[n].left
        BY <3>1, <3>2, <2>2, <1>3, <1>5, <1>6 DEF LeftNotSent
      <4> QED BY <3>1, <4>1, <1>3, <1>6
    <3>3. CASE p = <<runner[n].slot, rcpt>>
      BY <3>1, <3>3, <1>3, <1>6
    <3> QED BY <3>2, <3>3, <2>7
  <2>9. SentIsCovered'
    <3> SUFFICES ASSUME sched.row = "kept", NEW p \in sent'
                 PROVE  p[1] <= sched.last \/ \E m \in Runners : runner'[m] # Asleep /\ runner'[m].slot = p[1]
      BY <1>7 DEF SentIsCovered
    <3>1. CASE p \in sent
      <4>1. p[1] <= sched.last \/ \E m \in Runners : runner[m] # Asleep /\ runner[m].slot = p[1]
        BY <3>1, <2>2 DEF SentIsCovered
      <4> QED BY <4>1, <2>5, <1>3, <1>5, <1>6
    <3>2. CASE p = <<runner[n].slot, rcpt>>
      BY <3>2, <1>3, <1>5, <1>6
    <3> QED BY <3>1, <3>2, <2>7
  <2> QED BY <2>4, <2>6, <2>8, <2>9
<1> QED BY <1>10, <1>11, <1>12 DEF SchedInv

\* A runner that goes to sleep.
LEMMA FallsAsleep ==
  ASSUME SchedTypeOK, NEW n \in Runners, runner' = [runner EXCEPT ![n] = Asleep]
  PROVE  /\ runner' \in [Runners -> Places] /\ runner'[n] = Asleep
         /\ \A m \in Runners : m # n => runner'[m] = runner[m]
         /\ \A m \in Runners : runner'[m] # Asleep => m # n /\ runner[m] # Asleep
<1>1. Asleep \in Places /\ runner \in [Runners -> Places]
  BY SchedAssumption DEF Asleep, Places, SchedTypeOK
<1> QED BY <1>1

\* The run is recorded: what was sent for its slot is covered by the last run.
LEMMA MarkInv ==
  ASSUME SchedInv, NEW n \in Runners, MarkReportScheduleRun(n)
  PROVE  SchedInv'
<1>1. runner' = [runner EXCEPT ![n] = Asleep] /\ runner[n].pc = "sending"
      /\ UNCHANGED <<hour, sent, resent, overlap, faults, edits>>
  BY DEF MarkReportScheduleRun
<1>2. /\ runner' \in [Runners -> Places] /\ runner'[n] = Asleep
      /\ \A m \in Runners : m # n => runner'[m] = runner[m]
      /\ \A m \in Runners : runner'[m] # Asleep => m # n /\ runner[m] # Asleep
  BY <1>1, FallsAsleep DEF SchedInv
<1>3. /\ sched \in Rows /\ runner[n] \in Places /\ runner[n] # Asleep
      /\ LastHour \in Nat /\ runner[n].slot <= runner[n].at
  <2>1. sched \in Rows /\ runner[n] \in Places
    BY DEF SchedInv, SchedTypeOK, Rows, Places
  <2>2. runner[n] # Asleep
    BY <1>1 DEF Asleep
  <2> QED BY <2>1, <2>2, SchedAssumption DEF SchedInv, SchedShape
<1>4. /\ sched' \in Rows /\ sched'.row = sched.row /\ sched'.active = sched.active
      /\ sched'.timing = sched.timing
      /\ sched.row = "kept" => sched'.last = runner[n].at
  BY <1>3 DEF MarkReportScheduleRun, Rows, Places
<1>5. SchedTypeOK'
  BY <1>1, <1>2, <1>4 DEF SchedInv, SchedTypeOK, Rows, Places
<1>6. SchedShape'
  BY <1>1, <1>2, <1>4 DEF SchedInv, SchedShape
<1>7. NothingResent'
  <2> SUFFICES ASSUME Sound' PROVE resent' = {} /\ RunIsNew' /\ LeftNotSent' /\ SentIsCovered'
    BY DEF NothingResent
  <2>1. Sound
    BY <1>1 DEF Sound
  <2>2. resent = {} /\ RunIsNew /\ LeftNotSent /\ SentIsCovered
    BY <2>1 DEF SchedInv, NothingResent
  <2>3. \A m \in Runners : runner[m] # Asleep => m = n
    BY <2>1, <1>3 DEF Sound, SchedInv, SchedShape
  <2>4. \A m \in Runners : runner'[m] = Asleep
    BY <2>3, <1>2
  <2>5. SentIsCovered'
    <3> SUFFICES ASSUME sched.row = "kept", NEW p \in sent PROVE p[1] <= runner[n].at
      BY <1>1, <1>4 DEF SentIsCovered
    <3>1. p[1] <= sched.last \/ p[1] = runner[n].slot
      BY <2>2, <2>3 DEF SentIsCovered
    <3>2. sched.last < runner[n].slot
      BY <2>2, <1>3 DEF RunIsNew
    <3>3. p[1] \in Int /\ sched.last \in Int /\ runner[n].slot \in Int /\ runner[n].at \in Int
      BY <1>3 DEF Rows, Places, SchedInv, SchedTypeOK
    <3> QED BY <3>1, <3>2, <3>3, <1>3
  <2> QED BY <2>2, <2>4, <2>5, <1>1 DEF RunIsNew, LeftNotSent
<1> QED BY <1>5, <1>6, <1>7 DEF SchedInv

\* A run that is lost is a fault.
LEMMA LostInv ==
  ASSUME SchedInv, NEW n \in Runners, RunLost(n)
  PROVE  SchedInv'
<1>1. runner' = [runner EXCEPT ![n] = Asleep]
      /\ UNCHANGED <<hour, sched, sent, resent, overlap, edits>>
  BY DEF RunLost
<1>2. /\ runner' \in [Runners -> Places] /\ runner'[n] = Asleep
      /\ \A m \in Runners : m # n => runner'[m] = runner[m]
      /\ \A m \in Runners : runner'[m] # Asleep => m # n /\ runner[m] # Asleep
  BY <1>1, FallsAsleep DEF SchedInv
<1>3. faults' \in 0..MaxFaults /\ faults' # 0
  BY SchedAssumption DEF RunLost, SchedInv, SchedTypeOK
<1>4. SchedTypeOK'
  BY <1>1, <1>2, <1>3 DEF SchedInv, SchedTypeOK, Places
<1>5. SchedShape'
  BY <1>1, <1>2 DEF SchedInv, SchedShape
<1>6. NothingResent'
  BY <1>3 DEF NothingResent, Sound
<1> QED BY <1>4, <1>5, <1>6 DEF SchedInv

\* Every step keeps the invariant.
LEMMA SchedStepInv ==
  ASSUME SchedInv, [SchedNext]_schedVars
  PROVE  SchedInv'
<1>1. CASE \E timing \in Timings : CreateSchedule(timing)
  BY <1>1, CreateInv
<1>2. CASE \E timing \in Timings, b \in BOOLEAN : UpdateSchedule(timing, b)
  BY <1>2, UpdateInv
<1>3. CASE DeleteSchedule
  BY <1>3, DeleteInv
<1>4. CASE \E n \in Runners : RunDue(n)
  BY <1>4, RunDueInv
<1>5. CASE \E n \in Runners, rcpt \in Recipients : SendReportDigest(n, rcpt)
  BY <1>5, SendInv
<1>6. CASE \E n \in Runners : MarkReportScheduleRun(n)
  BY <1>6, MarkInv
<1>7. CASE \E n \in Runners : RunLost(n)
  BY <1>7, LostInv
<1>8. CASE HourPasses
  <2>1. hour' \in 0..LastHour
    BY <1>8, SchedAssumption DEF HourPasses, SchedInv, SchedTypeOK
  <2>2. UNCHANGED <<sched, runner, sent, resent, overlap, faults, edits>>
    BY <1>8 DEF HourPasses
  <2> QED BY <2>1, <2>2 DEF SchedInv, SchedTypeOK, SchedShape, NothingResent, Sound,
             RunIsNew, LeftNotSent, SentIsCovered
<1>9. CASE UNCHANGED schedVars
  BY <1>9 DEF schedVars, SchedInv, SchedTypeOK, SchedShape, NothingResent, Sound,
     RunIsNew, LeftNotSent, SentIsCovered
<1> QED BY <1>1, <1>2, <1>3, <1>4, <1>5, <1>6, <1>7, <1>8, <1>9 DEF SchedNext, RunStep

\* The invariant says what a run checks.
LEMMA SchedInvSound == SchedInv => ReportsOnce
<1> SUFFICES ASSUME SchedInv PROVE ReportsOnce OBVIOUS
<1>1. SlotIsLatest
  <2>1. hour \in Nat
    BY SchedAssumption DEF SchedInv, SchedTypeOK
  <2> QED BY <2>1, SlotNewest DEF SlotIsLatest, NewestNamed
<1>2. DigestOncePerSlot
  <2>1. faults \in Nat /\ overlap \in BOOLEAN
    BY SchedAssumption DEF SchedInv, SchedTypeOK
  <2>2. faults = 0 \/ faults > 0
    BY <2>1
  <2> QED BY <2>1, <2>2 DEF SchedInv, NothingResent, Sound, DigestOncePerSlot
<1> QED BY <1>1, <1>2 DEF ReportsOnce, SchedInv

\* ReportsOnce for every schedule, any runners, recipients, edits and faults, and
\* any lengths of day, week and month: the slot of an hour is the newest one
\* named, and while runs do not overlap and none is lost, nobody gets the digest
\* of a slot twice.
THEOREM ReportsHold == SchedSpec => []ReportsOnce
<1>1. SchedInit => SchedInv
  BY SchedInitInv
<1>2. SchedInv /\ [SchedNext]_schedVars => SchedInv'
  BY SchedStepInv
<1>3. SchedInv => ReportsOnce
  BY SchedInvSound
<1> QED BY <1>1, <1>2, <1>3, PTL DEF SchedSpec
=============================================================================
