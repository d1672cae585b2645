----------------------- MODULE ExtensionStorage_proofs -----------------------
(***************************************************************************)
(* What ExtensionStorage keeps for any keys, calls and restarts.  The      *)
(* inductive invariant is Salted (one salt, under which every envelope is),*)
(* Hydrated (what the memory is filled from cannot be stale), InOrder (how *)
(* far a call is) and Remembered (what the memory holds of a key).         *)
(***************************************************************************)
EXTENDS ExtensionStorage, TLAPS

\* Envelopes are under the salt there is, and so is the cipher's key.
Salted == /\ \A k \in Key : disk[k] # Absent => disk[k].under = meta /\ meta # 0
          /\ cipher = "ready" => salt = meta /\ meta # 0
          /\ cipher = "writing" => meta = 0

\* Nothing is written between hydration's reading and its end.
Hydrated == /\ hydration = "decrypting" => snapshot = disk
            /\ \A o \in Op : pc[o] \in {"sealing", "storing", "tidying"} => hydration = "done"

InOrder ==
    \A o \in Op : /\ written[o] \subseteq keys[o]
                  /\ pc[o] \in {"idle", "hydrating"} => written[o] = {}
                  /\ Sealing(o) => o \in Writers
                  /\ Storing(o) => /\ o \in Writers \cup Erasers
                                   /\ written[o] = keys[o]
                                   /\ o \in Writers => cipher = "ready"

\* A key holds what its open write wrote, or without one what the disk holds
\* (or nothing, if hydration could not open it).
KeyRemembered(k) ==
    /\ (\A o \in Op : ~Open(o, k)) =>
           memory[k] = IF k \in missed THEN Absent ELSE Opened(disk[k], meta)
    /\ \A o \in Op : Open(o, k) => /\ memory[k] = New(o) /\ k \notin missed
                                   /\ \A p \in Op : Open(p, k) => p = o

Remembered == hydration = "done" => \A k \in Key \ mixed : KeyRemembered(k)

IInv == TypeOK /\ Salted /\ Hydrated /\ InOrder /\ Remembered
-----------------------------------------------------------------------------
LEMMA NewIsValue == ASSUME NEW o \in Op PROVE New(o) \in Value
  BY DEF New, Value

LEMMA OpenedIsValue == ASSUME NEW e \in Stored, NEW s PROVE Opened(e, s) \in Value
  BY DEF Opened, Value, Stored, Envelope

LEMMA NoneOpened == ASSUME NEW s PROVE Opened(Absent, s) = Absent
  BY DEF Opened

\* A value sealed now is read back under the same salt.
LEMMA SealedOpens ==
    ASSUME NEW o \in Op, NEW s \in Nat
    PROVE  /\ [by |-> o, under |-> s] \in Stored
           /\ [by |-> o, under |-> s] # Absent
           /\ Opened([by |-> o, under |-> s], s) = o
  BY ValuesDiffer DEF Opened, Stored, Envelope
-----------------------------------------------------------------------------
LEMMA TypeInit == Init => TypeOK
<1> SUFFICES ASSUME Init PROVE TypeOK
  OBVIOUS
<1>1. disk \in [Key -> Stored] /\ meta \in Nat
  BY DEF Init, Stored, Envelope
<1>2. answer \in [Op -> UNION {[K -> Value] : K \in SUBSET Key}]
  <2>1. NoAnswer \in [{} -> Value]
    BY DEF NoAnswer
  <2>2. QED
    BY <2>1 DEF Init
<1>3. QED
  BY <1>1, <1>2 DEF Init, TypeOK, Value, Stored

LEMMA TypeStep == TypeOK /\ [Next]_vars => TypeOK'
<1> SUFFICES ASSUME TypeOK, [Next]_vars PROVE TypeOK'
  OBVIOUS
<1> USE DEF TypeOK
<1>1. CASE ReadDisk
  BY <1>1 DEF ReadDisk, store, calls
<1>2. CASE ReadDiskFails
  BY <1>2 DEF ReadDiskFails, store
<1>3. CASE Fill
  <2>1. memory' \in [Key -> Value]
    <3>1. Absent \in Value
      BY DEF Value
    <3>2. \A k \in Key : Opened(snapshot[k], salt) \in Value
      BY OpenedIsValue
    <3>3. QED
      BY <1>3, <3>1, <3>2 DEF Fill
  <2>2. QED
    BY <1>3, <2>1 DEF Fill, store, calls
<1>4. CASE ReadMeta
  BY <1>4 DEF ReadMeta, store, calls
<1>5. CASE WriteMeta
  BY <1>5 DEF WriteMeta, calls
<1>6. CASE CipherFails
  <2>1. mixed' \in SUBSET Key
    BY <1>6 DEF CipherFails
  <2>2. QED
    BY <1>6, <2>1 DEF CipherFails, store
<1>21. ASSUME NEW k \in Key, SkipEnvelope(k) PROVE TypeOK'
  BY <1>21 DEF SkipEnvelope, store, calls
<1>7. ASSUME NEW o \in Op, NEW K \in SUBSET Key, Call(o, K) PROVE TypeOK'
  BY <1>7 DEF Call, store
<1>8. ASSUME NEW o \in Op, Get(o) PROVE TypeOK'
  <2>1. [k \in keys[o] |-> memory[k]] \in [keys[o] -> Value]
    OBVIOUS
  <2>2. [k \in keys[o] |-> memory[k]] \in UNION {[K -> Value] : K \in SUBSET Key}
    BY <2>1
  <2>3. answer' \in [Op -> UNION {[K -> Value] : K \in SUBSET Key}]
    BY <1>8, <2>2 DEF Get
  <2>4. QED
    BY <1>8, <2>3 DEF Get, store, worker
<1>9. ASSUME NEW o \in Op, NEW K \in SUBSET Key, PutInMemory(o, K)
      PROVE  /\ memory' \in [Key -> Value]
             /\ written' \in [Op -> SUBSET Key]
             /\ mixed' \in SUBSET Key /\ missed' \in SUBSET Key
  BY <1>9, NewIsValue DEF PutInMemory, Overlapped
<1>10. ASSUME NEW o \in Op, NEW k \in Key, FirstValue(o, k) PROVE TypeOK'
  <2>1. PutInMemory(o, {k})
    BY <1>10 DEF FirstValue
  <2>2. QED
    BY <1>9, <1>10, <2>1 DEF FirstValue, store
<1>11. ASSUME NEW o \in Op, NEW k \in Key, NextValue(o, k) PROVE TypeOK'
  <2>1. PutInMemory(o, {k})
    BY <1>11 DEF NextValue
  <2>2. QED
    BY <1>9, <1>11, <2>1 DEF NextValue, store
<1>12. ASSUME NEW o \in Op, LastSealed(o) PROVE TypeOK'
  BY <1>12 DEF LastSealed, store, worker
<1>13. ASSUME NEW o \in Op, Store(o) PROVE TypeOK'
  <2>1. disk' \in [Key -> Stored]
    BY <1>13, SealedOpens DEF Store
  <2>2. QED
    BY <1>13, <2>1 DEF Store, worker
<1>14. ASSUME NEW o \in Op, DropPlain(o) PROVE TypeOK'
  BY <1>14 DEF DropPlain, worker
<1>15. ASSUME NEW o \in Op, Forget(o) PROVE TypeOK'
  <2>1. PutInMemory(o, keys[o])
    BY <1>15 DEF Forget
  <2>2. QED
    BY <1>9, <1>15, <2>1 DEF Forget, store
<1>16. ASSUME NEW o \in Op, Erase(o) PROVE TypeOK'
  BY <1>16 DEF Erase, worker, Stored
<1>17. ASSUME NEW o \in Op, StoreFails(o) PROVE TypeOK'
  BY <1>17 DEF StoreFails, store, worker
<1>18. CASE Kill
  BY <1>18 DEF Kill, store, Value, Stored
<1>19. CASE UNCHANGED vars
  BY <1>19 DEF vars
<1>20. QED
  BY <1>1, <1>2, <1>3, <1>4, <1>5, <1>6, <1>7, <1>8, <1>10, <1>11, <1>12, <1>13, <1>14,
     <1>15, <1>16, <1>17, <1>18, <1>19, <1>21 DEF Next, Hydrate, Set, Remove
-----------------------------------------------------------------------------
LEMMA InitOthers == Init => Salted /\ Hydrated /\ InOrder /\ Remembered
<1> SUFFICES ASSUME Init PROVE Salted /\ Hydrated /\ InOrder /\ Remembered
  OBVIOUS
<1>1. Salted
  BY ValuesDiffer DEF Init, Salted, Envelope
<1>2. Hydrated /\ InOrder /\ Remembered
  BY DEF Init, Hydrated, InOrder, Remembered, Sealing, Storing
<1>3. QED
  BY <1>1, <1>2

\* What a step that stops at an await does to the salt and the envelopes.
LEMMA SaltedStep == TypeOK /\ Salted /\ Hydrated /\ InOrder /\ [Next]_vars => Salted'
<1> SUFFICES ASSUME TypeOK, Salted, Hydrated, InOrder, [Next]_vars PROVE Salted'
  OBVIOUS
<1> USE DEF Salted
<1>1. CASE ReadDisk
  BY <1>1 DEF ReadDisk, store
<1>2. CASE ReadDiskFails
  BY <1>2 DEF ReadDiskFails, store
<1>3. CASE Fill
  BY <1>3 DEF Fill, store
<1>4. CASE ReadMeta
  BY <1>4 DEF ReadMeta, store
<1>5. CASE WriteMeta
  BY <1>5 DEF WriteMeta, TypeOK
<1>6. CASE CipherFails
  BY <1>6 DEF CipherFails, store
<1>17. ASSUME NEW k \in Key, SkipEnvelope(k) PROVE Salted'
  BY <1>17 DEF SkipEnvelope, store
<1>7. ASSUME NEW o \in Op, NEW K \in SUBSET Key, Call(o, K) PROVE Salted'
  BY <1>7 DEF Call, store
<1>8. ASSUME NEW o \in Op, Get(o) PROVE Salted'
  BY <1>8 DEF Get, store, worker
<1>9. ASSUME NEW o \in Op, NEW k \in Key, FirstValue(o, k) \/ NextValue(o, k) PROVE Salted'
  BY <1>9 DEF FirstValue, NextValue, store
<1>10. ASSUME NEW o \in Op, LastSealed(o) \/ DropPlain(o) \/ StoreFails(o) PROVE Salted'
  BY <1>10 DEF LastSealed, DropPlain, StoreFails, store, worker
<1>11. ASSUME NEW o \in Op, Store(o) PROVE Salted'
  <2>1. cipher = "ready"
    BY <1>11 DEF Store, InOrder
  <2>2. ASSUME NEW k \in Key, disk'[k] # Absent PROVE disk'[k].under = meta /\ meta # 0
    BY <1>11, <2>1, <2>2 DEF Store, TypeOK
  <2>3. QED
    BY <1>11, <2>2 DEF Store, worker
<1>12. ASSUME NEW o \in Op, Forget(o) PROVE Salted'
  BY <1>12 DEF Forget, store
<1>13. ASSUME NEW o \in Op, Erase(o) PROVE Salted'
  BY <1>13 DEF Erase, worker, TypeOK
<1>14. CASE Kill
  BY <1>14 DEF Kill, store
<1>15. CASE UNCHANGED vars
  BY <1>15 DEF vars
<1>16. QED
  BY <1>1, <1>2, <1>3, <1>4, <1>5, <1>6, <1>7, <1>8, <1>9, <1>10, <1>11, <1>12, <1>13,
     <1>14, <1>15, <1>17 DEF Next, Hydrate, Set, Remove

\* Nothing writes to the disk before the memory is filled.
LEMMA HydratedStep == TypeOK /\ Hydrated /\ [Next]_vars => Hydrated'
<1> SUFFICES ASSUME TypeOK, Hydrated, [Next]_vars PROVE Hydrated'
  OBVIOUS
<1> USE DEF Hydrated, TypeOK
<1>1. CASE Hydrate
  <2>1. CASE ReadDisk
    BY <2>1 DEF ReadDisk, store, calls
  <2>2. CASE ReadDiskFails
    BY <2>2 DEF ReadDiskFails, store
  <2>3. CASE Fill
    BY <2>3 DEF Fill, store, calls
  <2>4. CASE ReadMeta
    BY <2>4 DEF ReadMeta, store, calls
  <2>5. CASE WriteMeta
    BY <2>5 DEF WriteMeta, calls
  <2>6. CASE CipherFails
    BY <2>6 DEF CipherFails, store
  <2>8. ASSUME NEW k \in Key, SkipEnvelope(k) PROVE Hydrated'
    BY <2>8 DEF SkipEnvelope, store, calls
  <2>7. QED
    BY <1>1, <2>1, <2>2, <2>3, <2>4, <2>5, <2>6, <2>8 DEF Hydrate
<1>2. ASSUME NEW o \in Op, NEW K \in SUBSET Key, Call(o, K) PROVE Hydrated'
  BY <1>2 DEF Call, store
<1>3. ASSUME NEW o \in Op, Get(o) PROVE Hydrated'
  BY <1>3 DEF Get, store, worker
<1>4. ASSUME NEW o \in Op, NEW k \in Key, FirstValue(o, k) \/ NextValue(o, k) PROVE Hydrated'
  BY <1>4 DEF FirstValue, NextValue, store
<1>5. ASSUME NEW o \in Op, LastSealed(o) \/ DropPlain(o) \/ StoreFails(o) PROVE Hydrated'
  BY <1>5 DEF LastSealed, DropPlain, StoreFails, store, worker, Sealing, Storing
<1>6. ASSUME NEW o \in Op, Store(o) \/ Erase(o) PROVE Hydrated'
  BY <1>6 DEF Store, Erase, worker, Storing
<1>7. ASSUME NEW o \in Op, Forget(o) PROVE Hydrated'
  BY <1>7 DEF Forget, store
<1>8. CASE Kill
  BY <1>8 DEF Kill, store, Running
<1>9. CASE UNCHANGED vars
  BY <1>9 DEF vars
<1>10. QED
  BY <1>1, <1>2, <1>3, <1>4, <1>5, <1>6, <1>7, <1>8, <1>9 DEF Next, Set, Remove

\* A call goes through its places in order, with what it has put in memory.
LEMMA InOrderStep == TypeOK /\ InOrder /\ [Next]_vars => InOrder'
<1> SUFFICES ASSUME TypeOK, InOrder, [Next]_vars PROVE InOrder'
  OBVIOUS
<1> USE DEF InOrder, TypeOK, Sealing, Storing
<1>1. CASE Hydrate
  <2>1. CASE ReadDisk
    BY <2>1 DEF ReadDisk, calls
  <2>2. CASE ReadDiskFails
    BY <2>2 DEF ReadDiskFails, Hydrating
  <2>3. CASE Fill
    BY <2>3 DEF Fill, calls
  <2>4. CASE ReadMeta
    BY <2>4 DEF ReadMeta, calls
  <2>5. CASE WriteMeta
    BY <2>5 DEF WriteMeta, calls
  <2>6. CASE CipherFails
    BY <2>6 DEF CipherFails
  <2>8. ASSUME NEW k \in Key, SkipEnvelope(k) PROVE InOrder'
    BY <2>8 DEF SkipEnvelope, calls
  <2>7. QED
    BY <1>1, <2>1, <2>2, <2>3, <2>4, <2>5, <2>6, <2>8 DEF Hydrate
<1>2. ASSUME NEW o \in Op, NEW K \in SUBSET Key, Call(o, K) PROVE InOrder'
  BY <1>2 DEF Call
<1>3. ASSUME NEW o \in Op, Get(o) PROVE InOrder'
  BY <1>3 DEF Get, worker
<1>4. ASSUME NEW o \in Op, NEW k \in Key, FirstValue(o, k) PROVE InOrder'
  BY <1>4 DEF FirstValue, PutInMemory, Hydrating
<1>5. ASSUME NEW o \in Op, NEW k \in Key, NextValue(o, k) PROVE InOrder'
  BY <1>5 DEF NextValue, PutInMemory
<1>6. ASSUME NEW o \in Op, LastSealed(o) PROVE InOrder'
  BY <1>6 DEF LastSealed, worker
<1>7. ASSUME NEW o \in Op, DropPlain(o) \/ StoreFails(o) \/ Store(o) \/ Erase(o) PROVE InOrder'
  BY <1>7 DEF DropPlain, StoreFails, Store, Erase, worker
<1>8. ASSUME NEW o \in Op, Forget(o) PROVE InOrder'
  BY <1>8, SetsAndRemovals DEF Forget, PutInMemory, Hydrating
<1>9. CASE Kill
  BY <1>9 DEF Kill, Running
<1>10. CASE UNCHANGED vars
  BY <1>10 DEF vars
<1>11. QED
  BY <1>1, <1>2, <1>3, <1>4, <1>5, <1>6, <1>7, <1>8, <1>9, <1>10 DEF Next, Set, Remove
-----------------------------------------------------------------------------
(* What steps do to the open writes and to what the disk would give.       *)

OpenSame == \A p \in Op, k \in Key : Open(p, k)' <=> Open(p, k)
KeptSame == \A k \in Key : Opened(disk'[k], meta') = Opened(disk[k], meta)

\* The writes of O are over, the others as they were.
OpenWithout(O) == \A p \in Op, k \in Key : Open(p, k)' <=> Open(p, k) /\ p \notin O

\* Operation o has begun to write the keys K.
OpenWith(o, K) == \A p \in Op, k \in Key : Open(p, k)' <=> Open(p, k) \/ (p = o /\ k \in K)

\* A step of the worker between its calls: it may fill the memory.
Quiet == /\ hydration' = "done" /\ hydration # "done" => Fill
         /\ hydration' # "done" /\ hydration = "done" => FALSE
         /\ hydration = "done" \/ Fill => missed' = missed
         /\ hydration = "done" => memory' = memory
         /\ mixed' = mixed

LEMMA SameStore == ASSUME UNCHANGED <<disk, meta>> PROVE KeptSame
  BY DEF KeptSame

LEMMA SameCalls == ASSUME UNCHANGED <<pc, written>> PROVE OpenSame
  BY DEF OpenSame, Open, Sealing, Storing

\* Filling and the salt, a call's beginning, a read and the end of a write.
LEMMA QuietSteps ==
    ASSUME TypeOK, Salted,
           \/ ReadDisk \/ ReadDiskFails \/ Fill \/ ReadMeta \/ WriteMeta
           \/ \E k \in Key : SkipEnvelope(k)
           \/ \E o \in Op, K \in SUBSET Key : Call(o, K)
           \/ \E o \in Op : Get(o) \/ LastSealed(o) \/ DropPlain(o)
    PROVE  Quiet /\ OpenSame /\ KeptSame
<1>1. CASE ReadDisk
  BY <1>1, SameStore, SameCalls DEF ReadDisk, store, calls, Quiet
<1>2. CASE ReadDiskFails
  <2>1. OpenSame
    BY <1>2 DEF ReadDiskFails, OpenSame, Open, Sealing, Storing, Hydrating, TypeOK
  <2>2. QED
    BY <1>2, <2>1, SameStore DEF ReadDiskFails, store, Quiet
<1>3. CASE Fill
  BY <1>3, SameStore, SameCalls DEF Fill, store, calls, Quiet
<1>4. CASE ReadMeta
  BY <1>4, SameStore, SameCalls DEF ReadMeta, store, calls, Quiet
<1>5. CASE WriteMeta
  <2>1. KeptSame
    BY <1>5, NoneOpened DEF WriteMeta, KeptSame, Salted
  <2>2. QED
    BY <1>5, <2>1, SameCalls DEF WriteMeta, calls, Quiet
<1>6. ASSUME NEW o \in Op, NEW K \in SUBSET Key, Call(o, K) PROVE Quiet /\ OpenSame /\ KeptSame
  <2>1. OpenSame
    BY <1>6 DEF Call, OpenSame, Open, Sealing, Storing, TypeOK
  <2>2. QED
    BY <1>6, <2>1, SameStore DEF Call, store, Quiet, TypeOK
<1>7. ASSUME NEW o \in Op, Get(o) \/ LastSealed(o) \/ DropPlain(o)
      PROVE  Quiet /\ OpenSame /\ KeptSame
  <2>1. OpenSame
    BY <1>7 DEF Get, LastSealed, DropPlain, OpenSame, Open, Sealing, Storing, Hydrating, TypeOK
  <2>2. QED
    BY <1>7, <2>1, SameStore DEF Get, LastSealed, DropPlain, store, worker, Quiet
<1>8. ASSUME NEW k \in Key, SkipEnvelope(k) PROVE Quiet /\ OpenSame /\ KeptSame
  BY <1>8, SameStore, SameCalls DEF SkipEnvelope, store, calls, Quiet, Fill
<1>9. QED
  BY <1>1, <1>2, <1>3, <1>4, <1>5, <1>6, <1>7, <1>8

LEMMA WritingSteps ==
    ASSUME TypeOK, Hydrated, InOrder, NEW o \in Op, NEW K \in SUBSET Key,
           \/ \E k \in Key : K = {k} /\ (FirstValue(o, k) \/ NextValue(o, k))
           \/ K = keys[o] /\ Forget(o)
    PROVE  /\ PutInMemory(o, K) /\ OpenWith(o, K) /\ KeptSame
           /\ hydration = "done" /\ hydration' = "done"
<1>1. /\ PutInMemory(o, K) /\ UNCHANGED <<disk, meta, hydration>>
      /\ pc' = [pc EXCEPT ![o] = pc'[o]] /\ pc'[o] \in {"sealing", "storing"}
      /\ (pc[o] = "hydrating" /\ hydration = "done") \/ pc[o] = "sealing"
  BY DEF FirstValue, NextValue, Forget, Sealing, Hydrating, store, TypeOK
<1>2. hydration = "done"
  BY <1>1 DEF Hydrated
<1>3. pc[o] = "hydrating" => written[o] = {}
  BY DEF InOrder
<1>4. OpenWith(o, K)
  BY <1>1, <1>3 DEF OpenWith, PutInMemory, Open, Sealing, Storing, TypeOK
<1>5. QED
  BY <1>1, <1>2, <1>4, SameStore

\* A write reaches the disk: what it wrote is what a restart will read.
LEMMA StoringSteps ==
    ASSUME TypeOK, Salted, Hydrated, InOrder, NEW o \in Op, Store(o) \/ Erase(o)
    PROVE  /\ OpenWithout({o}) /\ UNCHANGED <<memory, hydration, missed, mixed>>
           /\ hydration = "done"
           /\ \A k \in Key : Opened(disk'[k], meta')
                               = IF Open(o, k) THEN New(o) ELSE Opened(disk[k], meta)
<1>1. Storing(o) /\ written[o] = keys[o] /\ hydration = "done"
  BY DEF Store, Erase, InOrder, Hydrated, Storing
<1>2. OpenWithout({o})
  BY DEF Store, Erase, OpenWithout, Open, Sealing, Storing, TypeOK
<1>3. UNCHANGED <<memory, hydration, missed, mixed>>
  BY DEF Store, Erase, worker
<1>4. ASSUME NEW k \in Key
      PROVE  Opened(disk'[k], meta') = IF Open(o, k) THEN New(o) ELSE Opened(disk[k], meta)
  <2>1. Open(o, k) <=> k \in keys[o]
    BY <1>1 DEF Open
  <2>2. CASE Store(o)
    <3>1. salt = meta /\ meta \in Nat /\ o \in Writers
      BY <1>1, <2>2 DEF Store, InOrder, Salted, TypeOK
    <3>2. meta' = meta /\ disk'[k] = IF k \in keys[o] THEN [by |-> o, under |-> meta] ELSE disk[k]
      BY <2>2, <3>1 DEF Store
    <3>3. QED
      BY <2>1, <3>1, <3>2, SealedOpens DEF New
  <2>3. CASE Erase(o)
    <3>1. o \notin Writers
      BY <2>3, SetsAndRemovals DEF Erase
    <3>2. meta' = meta /\ disk'[k] = IF k \in keys[o] THEN Absent ELSE disk[k]
      BY <2>3 DEF Erase
    <3>3. QED
      BY <2>1, <3>1, <3>2, NoneOpened DEF New
  <2>4. QED
    BY <2>2, <2>3
<1>5. QED
  BY <1>1, <1>2, <1>3, <1>4

\* Writes that fail: of one call, or of all that wait for the salt.
LEMMA FailingSteps ==
    ASSUME TypeOK, NEW O \in SUBSET Op,
           \/ CipherFails /\ O = {p \in Op : Sealing(p)}
           \/ \E o \in O : StoreFails(o) /\ O = {o}
    PROVE  /\ OpenWithout(O) /\ KeptSame /\ UNCHANGED <<memory, hydration, missed>>
           /\ mixed' = mixed \cup UNION {written[p] : p \in O}
<1>1. CASE CipherFails /\ O = {p \in Op : Sealing(p)}
  <2>1. OpenWithout(O)
    BY <1>1 DEF CipherFails, OpenWithout, Open, Sealing, Storing, TypeOK
  <2>2. QED
    BY <1>1, <2>1, SameStore DEF CipherFails, store
<1>2. ASSUME NEW o \in O, StoreFails(o), O = {o}
      PROVE  /\ OpenWithout(O) /\ KeptSame /\ UNCHANGED <<memory, hydration, missed>>
             /\ mixed' = mixed \cup UNION {written[p] : p \in O}
  <2>1. OpenWithout(O)
    BY <1>2 DEF StoreFails, OpenWithout, Open, Sealing, Storing, TypeOK
  <2>2. QED
    BY <1>2, <2>1, SameStore DEF StoreFails, store, worker
<1>3. QED
  BY <1>1, <1>2
-----------------------------------------------------------------------------
LEMMA RememberedStep ==
    TypeOK /\ Salted /\ Hydrated /\ InOrder /\ Remembered /\ [Next]_vars => Remembered'
<1> SUFFICES ASSUME TypeOK, Salted, Hydrated, InOrder, Remembered, [Next]_vars,
                    hydration' = "done", NEW k \in Key, k \notin mixed'
             PROVE  KeyRemembered(k)'
  BY DEF Remembered
<1>1. ASSUME hydration = "done", k \notin mixed PROVE KeyRemembered(k)
  BY <1>1 DEF Remembered
<1>2. ASSUME Quiet, OpenSame, KeptSame PROVE KeyRemembered(k)'
  <2>1. CASE hydration = "done"
    BY <1>1, <1>2, <2>1 DEF Quiet, OpenSame, KeptSame, KeyRemembered
  <2>2. CASE Fill
    <3>1. \A o \in Op : ~Open(o, k)
      BY <2>2 DEF Fill, Hydrated, Open, Sealing, Storing
    <3>2. memory'[k] = IF k \in missed THEN Absent ELSE Opened(disk[k], salt)
      BY <2>2 DEF Fill, Hydrated
    <3>3. k \notin missed => Opened(disk[k], salt) = Opened(disk[k], meta)
      <4>1. CASE disk[k] = Absent
        BY <4>1, NoneOpened
      <4>2. CASE cipher = "ready"
        BY <4>2 DEF Salted
      <4>3. QED
        BY <2>2, <4>1, <4>2 DEF Fill, Hydrated, Unopened
    <3>4. QED
      BY <1>2, <2>2, <3>1, <3>2, <3>3 DEF Quiet, OpenSame, KeptSame, KeyRemembered
  <2>3. QED
    BY <1>2, <2>1, <2>2 DEF Quiet
<1>3. ASSUME NEW o \in Op, NEW K \in SUBSET Key,
             \/ \E i \in Key : K = {i} /\ (FirstValue(o, i) \/ NextValue(o, i))
             \/ K = keys[o] /\ Forget(o)
      PROVE  KeyRemembered(k)'
  <2>1. /\ PutInMemory(o, K) /\ OpenWith(o, K) /\ KeptSame
        /\ hydration = "done" /\ k \notin mixed
    BY <1>3, WritingSteps DEF PutInMemory
  <2>2. KeyRemembered(k)
    BY <1>1, <2>1
  <2>3. CASE k \in K
    <3>1. \A p \in Op \ {o} : ~Open(p, k)
      BY <2>1, <2>3 DEF PutInMemory, Overlapped
    <3>2. memory'[k] = New(o) /\ k \notin missed'
      BY <2>1, <2>3 DEF PutInMemory
    <3>3. QED
      BY <2>1, <2>3, <3>1, <3>2 DEF KeyRemembered, OpenWith, New
  <2>4. CASE k \notin K
    <3>1. memory'[k] = memory[k] /\ (k \in missed' <=> k \in missed)
      BY <2>1, <2>4 DEF PutInMemory
    <3>2. \A p \in Op : Open(p, k)' <=> Open(p, k)
      BY <2>1, <2>4 DEF OpenWith
    <3>3. QED
      BY <2>1, <2>2, <3>1, <3>2 DEF KeyRemembered, KeptSame, New
  <2>5. QED
    BY <2>3, <2>4
<1>4. ASSUME NEW o \in Op, Store(o) \/ Erase(o) PROVE KeyRemembered(k)'
  <2>1. /\ OpenWithout({o}) /\ UNCHANGED <<memory, hydration, missed, mixed>>
        /\ hydration = "done"
        /\ Opened(disk'[k], meta') = IF Open(o, k) THEN New(o) ELSE Opened(disk[k], meta)
    BY <1>4, StoringSteps
  <2>2. KeyRemembered(k)
    BY <1>1, <2>1
  <2>3. QED
    BY <2>1, <2>2 DEF KeyRemembered, OpenWithout, New
<1>5. ASSUME NEW O \in SUBSET Op,
             \/ CipherFails /\ O = {p \in Op : Sealing(p)}
             \/ \E o \in O : StoreFails(o) /\ O = {o}
      PROVE  KeyRemembered(k)'
  <2>1. /\ OpenWithout(O) /\ KeptSame /\ UNCHANGED <<memory, hydration, missed>>
        /\ mixed' = mixed \cup UNION {written[p] : p \in O}
    BY <1>5, FailingSteps
  <2>2. KeyRemembered(k) /\ \A p \in O : k \notin written[p]
    BY <1>1, <2>1
  <2>3. \A p \in Op : Open(p, k)' <=> Open(p, k)
    BY <2>1, <2>2 DEF OpenWithout, Open
  <2>4. QED
    BY <2>1, <2>2, <2>3 DEF KeyRemembered, KeptSame, New
<1>6. CASE UNCHANGED vars
  <2>1. Quiet /\ OpenSame /\ KeptSame
    BY <1>6, SameStore, SameCalls DEF vars, Quiet
  <2>2. QED
    BY <1>2, <2>1
<1>7. CASE Kill
  BY <1>7 DEF Kill
<1>8. CASE CipherFails
  BY <1>5, <1>8
<1>9. ASSUME NEW o \in Op, StoreFails(o) PROVE KeyRemembered(k)'
  BY <1>5, <1>9
<1>10. ASSUME NEW o \in Op, NEW i \in Key, FirstValue(o, i) \/ NextValue(o, i)
       PROVE  KeyRemembered(k)'
  BY <1>3, <1>10
<1>11. ASSUME NEW o \in Op, Forget(o) PROVE KeyRemembered(k)'
  BY <1>3, <1>11 DEF TypeOK
<1>12. CASE \/ ReadDisk \/ ReadDiskFails \/ Fill \/ ReadMeta \/ WriteMeta
            \/ \E i \in Key : SkipEnvelope(i)
            \/ \E o \in Op, K \in SUBSET Key : Call(o, K)
            \/ \E o \in Op : Get(o) \/ LastSealed(o) \/ DropPlain(o)
  BY <1>2, <1>12, QuietSteps
<1>13. QED
  BY <1>4, <1>6, <1>7, <1>8, <1>9, <1>10, <1>11, <1>12 DEF Next, Hydrate, Set, Remove
-----------------------------------------------------------------------------
(* The theorems.                                                           *)

LEMMA Inductive == Spec => []IInv
<1>1. Init => IInv
  BY TypeInit, InitOthers DEF IInv
<1>2. IInv /\ [Next]_vars => IInv'
  BY TypeStep, SaltedStep, HydratedStep, InOrderStep, RememberedStep DEF IInv
<1>3. QED
  BY <1>1, <1>2, PTL DEF Spec

(* Every variable of the storage has its type, for any number of keys,     *)
(* calls and restarts.                                                     *)
THEOREM TypeCorrect == Spec => []TypeOK
<1>1. IInv => TypeOK
  BY DEF IInv
<1>2. QED
  BY <1>1, Inductive, PTL

(* However restarts, hydration and the first write of the salt interleave, *)
(* every envelope on the disk is under the one salt that is kept there, so *)
(* this worker and any later one can open it.                              *)
THEOREM EverythingOpensAlways == Spec => []EverythingOpens
<1>1. IInv => EverythingOpens
  BY DEF IInv, Salted, EverythingOpens
<1>2. QED
  BY <1>1, Inductive, PTL

(* Once the memory is filled it holds, for each key no write is open on,   *)
(* none failed and no two overlapped on, what a restarted worker would     *)
(* read from the disk, or nothing if hydration could not get the key of    *)
(* the cipher for it.                                                      *)
THEOREM SurvivesTheWorkerAlways == Spec => []SurvivesTheWorker
<1>1. IInv => SurvivesTheWorker
  BY DEF IInv, Remembered, KeyRemembered, SurvivesTheWorker
<1>2. QED
  BY <1>1, Inductive, PTL

-----------------------------------------------------------------------------
(* ExtensionStorage implements DurableRegisters: a read is a Read, a value *)
(* put in memory a Write, an envelope stored or removed a Save, a failure  *)
(* an Abandon, a stop of the worker a Restart, the filling of the memory a *)
(* Wake; what happens before it is filled are stutters.                    *)

RegistersStep == [Registers!Next]_(Registers!vars)

\* The registers' view depends on the memory only once it is filled.
LEMMA KeptUnchanged == ASSUME KeptSame PROVE KeptValue' = KeptValue
  BY DEF KeptValue, KeptSame

LEMMA OpenUnchanged == ASSUME OpenSame PROVE OpenWrites' = OpenWrites
  BY DEF OpenWrites, OpenSame

LEMMA OpenDropped ==
    ASSUME NEW O \in SUBSET Op, OpenWithout(O)
    PROVE  OpenWrites' = {w \in OpenWrites : w[1] \notin O}
  BY DEF OpenWrites, OpenWithout

LEMMA OpenAdded ==
    ASSUME NEW o \in Op, NEW K \in SUBSET Key, OpenWith(o, K)
    PROVE  OpenWrites' = OpenWrites \cup ({o} \X K)
  BY DEF OpenWrites, OpenWith

LEMMA SameNew == ASSUME NEW o PROVE Registers!New(o) = New(o)
  BY DEF Registers!New, New

\* The registers of a worker do not change between its calls.
LEMMA ShownUnchanged ==
    ASSUME Quiet, KeptSame, ~Fill
    PROVE  ShownValue' = ShownValue /\ (hydration' = "done") = (hydration = "done")
<1>1. CASE hydration = "done"
  BY <1>1 DEF Quiet, ShownValue
<1>2. CASE hydration # "done"
  BY <1>2, KeptUnchanged DEF ShownValue, Quiet
<1>3. QED
  BY <1>1, <1>2

\* A worker whose memory is filled shows what was kept of the keys it opened.
LEMMA Wakes == ASSUME TypeOK, Salted, Hydrated, Fill PROVE RegistersStep
<1>1. ASSUME NEW k \in Key, k \notin missed
      PROVE  Opened(snapshot[k], salt) = Opened(disk[k], meta)
  <2>1. snapshot = disk
    BY DEF Fill, Hydrated
  <2>2. CASE disk[k] = Absent
    BY <2>1, <2>2, NoneOpened
  <2>3. CASE cipher = "ready"
    BY <2>1, <2>3 DEF Salted
  <2>4. QED
    BY <1>1, <2>1, <2>2, <2>3 DEF Fill, Unopened
<1>2. ShownValue = KeptValue /\ ShownValue' = memory'
  BY DEF Fill, ShownValue
<1>3. ShownValue' = [k \in Key |-> IF k \in missed THEN Absent ELSE KeptValue[k]]
  BY <1>1, <1>2 DEF Fill, KeptValue
<1>4. KeptValue' = KeptValue /\ OpenWrites' = OpenWrites /\ answer' = answer
  BY SameStore, SameCalls, KeptUnchanged, OpenUnchanged DEF Fill, store, calls
<1>5. hydration # "done" /\ hydration' = "done"
  BY DEF Fill
<1>6. Registers!Wake(missed)
  BY <1>3, <1>4, <1>5 DEF Registers!Wake
<1>7. missed \in SUBSET Key
  BY DEF TypeOK
<1>8. QED
  BY <1>6, <1>7 DEF RegistersStep, Registers!Next
-----------------------------------------------------------------------------
LEMMA InitMaps == Init => Registers!Init
<1> SUFFICES ASSUME Init PROVE Registers!Init
  OBVIOUS
<1>1. ASSUME NEW k \in Key PROVE Opened(disk[k], meta) \in {Old, Absent}
  BY <1>1 DEF Init, Opened
<1>2. KeptValue \in [Key -> {Old, Absent}]
  BY <1>1 DEF KeptValue
<1>3. ShownValue = KeptValue
  BY DEF Init, ShownValue
<1>4. OpenWrites = {}
  BY DEF Init, OpenWrites, Open, Sealing, Storing
<1>5. answer = [o \in Op |-> Registers!NoAnswer]
  BY DEF Init, NoAnswer, Registers!NoAnswer
<1>6. (hydration = "done") = FALSE
  BY DEF Init
<1>7. QED
  BY <1>2, <1>3, <1>4, <1>5, <1>6 DEF Registers!Init

\* A step that writes nothing and answers nothing is a stutter.
LEMMA Stutters ==
    ASSUME Quiet, OpenSame, KeptSame, answer' = answer, ~Fill
    PROVE  RegistersStep
<1>1. /\ ShownValue' = ShownValue /\ KeptValue' = KeptValue /\ OpenWrites' = OpenWrites
      /\ (hydration' = "done") = (hydration = "done")
  BY ShownUnchanged, KeptUnchanged, OpenUnchanged
<1>2. QED
  BY <1>1 DEF RegistersStep, Registers!vars

LEMMA Reads == ASSUME TypeOK, Salted, Hydrated, NEW o \in Op, Get(o) PROVE RegistersStep
<1>1. Quiet /\ OpenSame /\ KeptSame
  BY QuietSteps
<1>2. /\ ShownValue' = ShownValue /\ KeptValue' = KeptValue /\ OpenWrites' = OpenWrites
      /\ hydration = "done" /\ hydration' = "done"
  <2>1. ~Fill
    BY DEF Fill, Get
  <2>2. hydration = "done" /\ hydration' = "done"
    BY DEF Get, worker
  <2>3. QED
    BY <1>1, <2>1, <2>2, ShownUnchanged, KeptUnchanged, OpenUnchanged
<1>3. answer' = [answer EXCEPT ![o] = [k \in keys[o] |-> ShownValue[k]]]
  BY DEF Get, ShownValue
<1>4. keys[o] \in SUBSET Key
  BY DEF TypeOK
<1>5. Registers!Read(o, keys[o])
  BY <1>2, <1>3 DEF Registers!Read
<1>6. QED
  BY <1>4, <1>5 DEF RegistersStep, Registers!Next

LEMMA Writes ==
    ASSUME TypeOK, Hydrated, InOrder, NEW o \in Op, NEW K \in SUBSET Key,
           \/ \E k \in Key : K = {k} /\ (FirstValue(o, k) \/ NextValue(o, k))
           \/ K = keys[o] /\ Forget(o)
    PROVE  RegistersStep
<1>1. /\ PutInMemory(o, K) /\ OpenWith(o, K) /\ KeptSame
      /\ hydration = "done" /\ hydration' = "done"
  BY WritingSteps
<1>2. ShownValue = memory /\ ShownValue' = memory'
  BY <1>1 DEF ShownValue
<1>3. ShownValue' = [k \in Key |-> IF k \in K THEN Registers!New(o) ELSE ShownValue[k]]
  BY <1>1, <1>2, SameNew DEF PutInMemory
<1>4. answer' = answer
  BY DEF FirstValue, NextValue, Forget
<1>5. Registers!Write(o, K)
  BY <1>1, <1>3, <1>4, OpenAdded, KeptUnchanged DEF Registers!Write
<1>6. QED
  BY <1>5 DEF RegistersStep, Registers!Next

LEMMA Saves ==
    ASSUME TypeOK, Salted, Hydrated, InOrder, NEW o \in Op, Store(o) \/ Erase(o)
    PROVE  RegistersStep
<1>1. /\ OpenWithout({o}) /\ UNCHANGED <<memory, hydration, missed, mixed>>
      /\ \A k \in Key : Opened(disk'[k], meta')
                          = IF Open(o, k) THEN New(o) ELSE Opened(disk[k], meta)
      /\ hydration = "done"
  BY StoringSteps
<1>2. KeptValue' = [k \in Key |-> IF <<o, k>> \in OpenWrites THEN Registers!New(o)
                                                              ELSE KeptValue[k]]
  BY <1>1, SameNew DEF KeptValue, OpenWrites
<1>3. OpenWrites' = {w \in OpenWrites : w[1] # o}
  BY <1>1, OpenDropped
<1>4. ShownValue' = ShownValue /\ answer' = answer
  BY <1>1 DEF ShownValue, Store, Erase
<1>5. Registers!Save(o)
  BY <1>1, <1>2, <1>3, <1>4 DEF Registers!Save
<1>6. QED
  BY <1>5 DEF RegistersStep, Registers!Next

LEMMA Abandons ==
    ASSUME TypeOK, NEW O \in SUBSET Op,
           \/ CipherFails /\ O = {p \in Op : Sealing(p)}
           \/ \E o \in O : StoreFails(o) /\ O = {o}
    PROVE  RegistersStep
<1>1. OpenWithout(O) /\ KeptSame /\ UNCHANGED <<memory, hydration, missed>>
  BY FailingSteps
<1>2. answer' = answer
  BY DEF CipherFails, StoreFails
<1>3. KeptValue' = KeptValue /\ ShownValue' = ShownValue
  BY <1>1, KeptUnchanged DEF ShownValue
<1>4. Registers!Abandon(O)
  BY <1>1, <1>2, <1>3, OpenDropped DEF Registers!Abandon
<1>5. QED
  BY <1>4 DEF RegistersStep, Registers!Next

LEMMA Restarts == ASSUME TypeOK, Kill PROVE RegistersStep
<1>1. /\ KeptValue' = KeptValue /\ ShownValue' = KeptValue' /\ answer' = answer
      /\ (hydration' = "done") = FALSE
  BY SameStore, KeptUnchanged DEF Kill, store, ShownValue
<1>2. OpenWrites' = {}
  BY DEF Kill, Running, OpenWrites, Open, Sealing, Storing, TypeOK
<1>3. Registers!Restart
  BY <1>1, <1>2 DEF Registers!Restart
<1>4. QED
  BY <1>3 DEF RegistersStep, Registers!Next
-----------------------------------------------------------------------------
LEMMA StepMaps == IInv /\ [Next]_vars => RegistersStep
<1> SUFFICES ASSUME TypeOK, Salted, Hydrated, InOrder, [Next]_vars PROVE RegistersStep
  BY DEF IInv
<1>1. CASE \/ ReadDisk \/ ReadDiskFails \/ ReadMeta \/ WriteMeta
           \/ \E k \in Key : SkipEnvelope(k)
           \/ \E o \in Op, K \in SUBSET Key : Call(o, K)
           \/ \E o \in Op : LastSealed(o) \/ DropPlain(o)
  <2>1. Quiet /\ OpenSame /\ KeptSame
    BY <1>1, QuietSteps
  <2>2. answer' = answer
    BY <1>1 DEF ReadDisk, ReadDiskFails, SkipEnvelope, ReadMeta, WriteMeta, Call,
                LastSealed, DropPlain, calls
  <2>3. ~Fill
    BY <1>1 DEF ReadDisk, ReadDiskFails, SkipEnvelope, ReadMeta, WriteMeta, Call,
                LastSealed, DropPlain, calls, worker, Fill, TypeOK
  <2>4. QED
    BY <2>1, <2>2, <2>3, Stutters
<1>2. CASE UNCHANGED vars
  <2>1. Quiet /\ OpenSame /\ KeptSame /\ answer' = answer /\ ~Fill
    BY <1>2, SameStore, SameCalls DEF vars, Quiet, Fill
  <2>2. QED
    BY <2>1, Stutters
<1>3. ASSUME NEW o \in Op, NEW k \in Key, FirstValue(o, k) \/ NextValue(o, k)
      PROVE  RegistersStep
  BY <1>3, Writes
<1>4. ASSUME NEW o \in Op, Forget(o) PROVE RegistersStep
  BY <1>4, Writes DEF TypeOK
<1>5. CASE CipherFails
  BY <1>5, Abandons
<1>6. ASSUME NEW o \in Op, StoreFails(o) PROVE RegistersStep
  BY <1>6, Abandons
<1>7. QED
  BY <1>1, <1>2, <1>3, <1>4, <1>5, <1>6, Wakes, Reads, Saves, Restarts
  DEF Next, Hydrate, Set, Remove

(* Whatever the interleaving of calls, hydration, failures and restarts,   *)
(* the storage behaves as one register per key, read and written at once,  *)
(* with a kept value behind it.                                            *)
THEOREM RegistersImplemented == Spec => ImplementsRegisters
<1>1. Init => Registers!Init
  BY InitMaps
<1>2. IInv /\ [Next]_vars => [Registers!Next]_(Registers!vars)
  BY StepMaps DEF RegistersStep
<1>3. QED
  BY <1>1, <1>2, Inductive, PTL DEF Spec, ImplementsRegisters, Registers!Spec
=============================================================================
