-------------------------- MODULE ExtensionStorage --------------------------
(***************************************************************************)
(* The extension's protected storage (background/protected-storage.js).    *)
(* A service worker keeps the decrypted values in memory and an encrypted  *)
(* envelope per key in chrome.storage.local.  The memory is filled once    *)
(* per worker, by the first operation; the key of the cipher is derived    *)
(* once per worker from a salt that the first worker of all writes.  The   *)
(* browser may stop the worker between any two awaits.                     *)
(*                                                                         *)
(* A value is the name of the operation that wrote it.  Every await ends a *)
(* step: a call to chrome.storage or to the cipher takes effect in the     *)
(* step that resumes its caller, in whatever order the browser answers.    *)
(***************************************************************************)
EXTENDS Naturals, FiniteSets

CONSTANTS
    Key,       \* the protected keys: fp_auth, fp_rules, us_storage:...
    Op,        \* the calls made of the storage
    Writers,   \* setProtectedValues
    Erasers,   \* removeProtectedValues; the others are getProtectedValues
    Old,       \* a value an earlier worker stored
    Absent,    \* no value
    MaxCalls,  \* how many of the calls one history makes
    MaxKills   \* how often the browser stops the worker

ASSUME SetsAndRemovals == /\ Writers \subseteq Op
                          /\ Erasers \subseteq Op
                          /\ Writers \cap Erasers = {}

Envelope == [by : Op \cup {Old}, under : Nat]

ASSUME ValuesDiffer == /\ Old \notin Op /\ Absent \notin Op /\ Old # Absent
                       /\ Absent \notin Envelope
ASSUME Bounds == MaxCalls \in Nat /\ MaxKills \in Nat

VARIABLES
    disk,      \* the envelope of each key: who wrote it, under which salt
    meta,      \* the salt in fp_protected_meta, 0 while there is none
    plain,     \* keys of which a version before encryption left a plain copy
    memory,    \* protectedMemoryCache
    hydration, \* protectedHydrationPromise: "none", "reading", "decrypting", "done"
    snapshot,  \* the envelopes hydration has read
    missed,    \* the keys it could not open for want of the cipher's key, and nobody wrote since
    cipher,    \* protectedCryptoKeyPromise: "none", "reading", "writing", "ready"
    salt,      \* the salt the cipher's key comes from, 0 before "ready"
    pc,        \* where each call stands
    keys,      \* the keys it is about
    written,   \* those it has put in memory
    answer,    \* what a read returned, for the keys it asked for
    mixed,     \* history: keys two writes overlapped on, or a write failed on
    salts,     \* salts made
    kills

vars == <<disk, meta, plain, memory, hydration, snapshot, missed, cipher, salt, pc, keys,
          written, answer, mixed, salts, kills>>

store == <<disk, meta, plain>>
worker == <<memory, hydration, snapshot, missed, cipher, salt>>
calls == <<pc, keys, written, answer>>

Value == Op \cup {Old, Absent}
New(o) == IF o \in Writers THEN o ELSE Absent

Stored == Envelope \cup {Absent}

\* MUTANT of Opened: the envelope instead of what is in it.
OpenedNot(e, s) == IF e = Absent \/ e.under # s THEN Absent ELSE e

\* decryptProtectedValue: an envelope opens under the salt it was sealed with.
Opened(e, s) == IF e = Absent \/ e.under # s THEN Absent ELSE e.by

Hydrating(o) == pc[o] = "hydrating"
Sealing(o) == pc[o] = "sealing"
Storing(o) == pc[o] = "storing"
Running(o) == pc[o] \in {"hydrating", "sealing", "storing", "tidying"}

\* A write is open from its first value in memory until it is stored.
Open(o, k) == (Sealing(o) \/ Storing(o)) /\ k \in written[o]
Overlapped(o, K) == {k \in K : \E p \in Op \ {o} : Open(p, k)}

TypeOK == /\ disk \in [Key -> Stored] /\ meta \in Nat /\ plain \in SUBSET Key
          /\ memory \in [Key -> Value] /\ snapshot \in [Key -> Stored]
          /\ hydration \in {"none", "reading", "decrypting", "done"} /\ missed \in SUBSET Key
          /\ cipher \in {"none", "reading", "writing", "ready"} /\ salt \in Nat
          /\ pc \in [Op -> {"idle", "hydrating", "sealing", "storing", "tidying",
                            "done", "failed", "lost"}]
          /\ keys \in [Op -> SUBSET Key] /\ written \in [Op -> SUBSET Key]
          /\ answer \in [Op -> UNION {[K -> Value] : K \in SUBSET Key}]
          /\ mixed \in SUBSET Key /\ salts \in Nat /\ kills \in Nat

NoAnswer == [k \in {} |-> Absent]

\* The envelopes hydration has still to open, while it has no key for them.
Unopened == {k \in Key \ missed : snapshot[k] # Absent}

Init == /\ \/ meta = 0 /\ disk = [k \in Key |-> Absent]
           \/ meta = 1 /\ disk \in [Key -> {Absent, [by |-> Old, under |-> 1]}]
        /\ salts = meta
        /\ plain = Key
        /\ memory = [k \in Key |-> Absent]
        /\ hydration = "none" /\ snapshot = [k \in Key |-> Absent] /\ missed = {}
        /\ cipher = "none" /\ salt = 0
        /\ pc = [o \in Op |-> "idle"]
        /\ keys = [o \in Op |-> {}] /\ written = [o \in Op |-> {}]
        /\ answer = [o \in Op |-> NoAnswer]
        /\ mixed = {} /\ kills = 0
-----------------------------------------------------------------------------
(* Filling the memory.                                                     *)

\* MUTANT of Call: a call fills the memory again.
CallHydrates(o, K) ==
    /\ pc[o] = "idle" /\ K # {}
    /\ Cardinality({p \in Op : pc[p] # "idle"}) < MaxCalls
    /\ pc' = [pc EXCEPT ![o] = "hydrating"]
    /\ keys' = [keys EXCEPT ![o] = K]
    /\ hydration' = IF hydration \in {"none", "done"} THEN "reading" ELSE hydration
    /\ UNCHANGED <<store, memory, snapshot, missed, cipher, salt, written, answer, mixed, salts, kills>>

\* Every call first awaits hydrateProtectedCache, which starts at most once.
Call(o, K) ==
    /\ pc[o] = "idle" /\ K # {}
    /\ Cardinality({p \in Op : pc[p] # "idle"}) < MaxCalls
    /\ pc' = [pc EXCEPT ![o] = "hydrating"]
    /\ keys' = [keys EXCEPT ![o] = K]
    /\ hydration' = IF hydration = "none" THEN "reading" ELSE hydration
    /\ UNCHANGED <<store, memory, snapshot, missed, cipher, salt, written, answer, mixed, salts, kills>>

\* storageGet(null); the first envelope asks for the cipher.
ReadDisk ==
    /\ hydration = "reading"
    /\ hydration' = "decrypting"
    /\ snapshot' = disk
    /\ cipher' = IF cipher = "none" /\ \E k \in Key : disk[k] # Absent THEN "reading" ELSE cipher
    /\ UNCHANGED <<store, memory, missed, salt, calls, mixed, salts, kills>>

ReadDiskFails ==
    /\ hydration = "reading"
    /\ hydration' = "none"
    /\ pc' = [o \in Op |-> IF Hydrating(o) THEN "failed" ELSE pc[o]]
    /\ UNCHANGED <<store, memory, snapshot, missed, cipher, salt, keys, written, answer, mixed, salts, kills>>

\* The salt can be neither read nor written: hydration goes on without the
\* envelope that waits for it, and the next envelope asks for it again.
SkipEnvelope(k) ==
    /\ hydration = "decrypting" /\ cipher \in {"reading", "writing"} /\ k \in Unopened
    /\ missed' = missed \cup {k}
    /\ cipher' = IF Unopened = {k} THEN "none" ELSE "reading"
    /\ UNCHANGED <<store, memory, hydration, snapshot, salt, calls, mixed, salts, kills>>

\* protectedMemoryCache = nextCache, what of the snapshot was opened.
Fill ==
    /\ hydration = "decrypting"
    /\ cipher = "ready" \/ Unopened = {}
    /\ hydration' = "done"
    /\ memory' = [k \in Key |-> IF k \in missed THEN Absent ELSE Opened(snapshot[k], salt)]
    /\ UNCHANGED <<store, snapshot, missed, cipher, salt, calls, mixed, salts, kills>>

\* MUTANT of ReadMeta: every worker makes a salt.
ReadMetaNot ==
    /\ cipher = "reading"
    /\ cipher' = "writing"
    /\ UNCHANGED <<store, memory, hydration, snapshot, missed, salt, calls, mixed, salts, kills>>

ReadMeta ==
    /\ cipher = "reading"
    /\ IF meta # 0 THEN cipher' = "ready" /\ salt' = meta
                   ELSE cipher' = "writing" /\ salt' = salt
    /\ UNCHANGED <<store, memory, hydration, snapshot, missed, calls, mixed, salts, kills>>

WriteMeta ==
    /\ cipher = "writing"
    /\ salts' = salts + 1
    /\ meta' = salts' /\ salt' = salts' /\ cipher' = "ready"
    /\ UNCHANGED <<disk, plain, memory, hydration, snapshot, missed, calls, mixed, kills>>

\* The salt can be neither read nor written: the promise is dropped, and the
\* values that waited for it are not sealed.
CipherFails ==
    /\ hydration = "done" /\ cipher \in {"reading", "writing"}
    /\ cipher' = "none"
    /\ pc' = [o \in Op |-> IF Sealing(o) THEN "failed" ELSE pc[o]]
    /\ mixed' = mixed \cup UNION {written[o] : o \in {p \in Op : Sealing(p)}}
    /\ UNCHANGED <<store, memory, hydration, snapshot, missed, salt, keys, written, answer,
                   salts, kills>>
-----------------------------------------------------------------------------
(* The calls, once the memory is filled.                                   *)

\* MUTANT of Get: the read does not wait for the memory to be filled.
GetAtOnce(o) ==
    /\ o \notin Writers \cup Erasers /\ Hydrating(o)
    /\ answer' = [answer EXCEPT ![o] = [k \in keys[o] |-> memory[k]]]
    /\ pc' = [pc EXCEPT ![o] = "done"]
    /\ UNCHANGED <<store, worker, keys, written, mixed, salts, kills>>

Get(o) ==
    /\ o \notin Writers \cup Erasers /\ Hydrating(o) /\ hydration = "done"
    /\ answer' = [answer EXCEPT ![o] = [k \in keys[o] |-> memory[k]]]
    /\ pc' = [pc EXCEPT ![o] = "done"]
    /\ UNCHANGED <<store, worker, keys, written, mixed, salts, kills>>

\* The values of the keys K go to memory in one step.
PutInMemory(o, K) ==
    /\ memory' = [k \in Key |-> IF k \in K THEN New(o) ELSE memory[k]]
    /\ written' = [written EXCEPT ![o] = @ \cup K]
    /\ mixed' = mixed \cup Overlapped(o, K)
    /\ missed' = missed \ K

\* One value goes to memory and is given to the cipher, before the next one.
FirstValue(o, k) ==
    /\ o \in Writers /\ Hydrating(o) /\ hydration = "done" /\ k \in keys[o]
    /\ PutInMemory(o, {k})
    /\ pc' = [pc EXCEPT ![o] = "sealing"]
    /\ cipher' = IF cipher = "none" THEN "reading" ELSE cipher
    /\ UNCHANGED <<store, hydration, snapshot, salt, keys, answer, salts, kills>>

NextValue(o, k) ==
    /\ Sealing(o) /\ cipher = "ready" /\ k \in keys[o] \ written[o]
    /\ PutInMemory(o, {k})
    /\ UNCHANGED <<store, hydration, snapshot, cipher, salt, pc, keys, answer, salts, kills>>

LastSealed(o) ==
    /\ Sealing(o) /\ cipher = "ready" /\ keys[o] = written[o]
    /\ pc' = [pc EXCEPT ![o] = "storing"]
    /\ UNCHANGED <<store, worker, keys, written, answer, mixed, salts, kills>>

\* All the envelopes of the call in one storage write, sealed by this worker.
Store(o) ==
    /\ o \in Writers /\ Storing(o)
    /\ disk' = [k \in Key |-> IF k \in keys[o] THEN [by |-> o, under |-> salt] ELSE disk[k]]
    /\ pc' = [pc EXCEPT ![o] = "tidying"]
    /\ UNCHANGED <<meta, plain, worker, keys, written, answer, mixed, salts, kills>>

DropPlain(o) ==
    /\ pc[o] = "tidying"
    /\ plain' = plain \ keys[o]
    /\ pc' = [pc EXCEPT ![o] = "done"]
    /\ UNCHANGED <<disk, meta, worker, keys, written, answer, mixed, salts, kills>>

Forget(o) ==
    /\ o \in Erasers /\ Hydrating(o) /\ hydration = "done"
    /\ PutInMemory(o, keys[o])
    /\ pc' = [pc EXCEPT ![o] = "storing"]
    /\ UNCHANGED <<store, hydration, snapshot, cipher, salt, keys, answer, salts, kills>>

Erase(o) ==
    /\ o \in Erasers /\ Storing(o)
    /\ disk' = [k \in Key |-> IF k \in keys[o] THEN Absent ELSE disk[k]]
    /\ plain' = plain \ keys[o]
    /\ pc' = [pc EXCEPT ![o] = "done"]
    /\ UNCHANGED <<meta, worker, keys, written, answer, mixed, salts, kills>>

\* The write is refused; the memory keeps what it was given.
StoreFails(o) ==
    /\ Storing(o)
    /\ pc' = [pc EXCEPT ![o] = "failed"]
    /\ mixed' = mixed \cup written[o]
    /\ UNCHANGED <<store, worker, keys, written, answer, salts, kills>>

\* The browser stops the worker: its memory and the calls in progress are gone.
Kill ==
    /\ kills < MaxKills
    /\ kills' = kills + 1
    /\ memory' = [k \in Key |-> Absent]
    /\ hydration' = "none" /\ snapshot' = [k \in Key |-> Absent] /\ missed' = {}
    /\ cipher' = "none" /\ salt' = 0
    /\ pc' = [o \in Op |-> IF Running(o) THEN "lost" ELSE pc[o]]
    /\ mixed' = {}
    /\ UNCHANGED <<store, keys, written, answer, salts>>
-----------------------------------------------------------------------------
Hydrate == \/ ReadDisk \/ ReadDiskFails \/ Fill
           \/ ReadMeta \/ WriteMeta \/ CipherFails
           \/ \E k \in Key : SkipEnvelope(k)
Set(o) == (\E k \in Key : FirstValue(o, k) \/ NextValue(o, k)) \/ LastSealed(o) \/ Store(o)
Remove(o) == Forget(o) \/ Erase(o)

Next == \/ Hydrate
        \/ \E o \in Op, K \in SUBSET Key : Call(o, K)
        \/ \E o \in Op : Get(o) \/ Set(o) \/ Remove(o) \/ DropPlain(o) \/ StoreFails(o)
        \/ Kill

Spec == Init /\ [][Next]_vars
-----------------------------------------------------------------------------
(* Every envelope can be opened by this worker and by any later one: no    *)
(* interleaving of restarts, of hydration and of the first write makes two *)
(* salts of which one is lost with the values sealed under it.             *)
EverythingOpens == \A k \in Key : disk[k] # Absent => disk[k].under = meta

(* A value survives the worker: when no write is open on a key, none has   *)
(* failed and no two overlapped since the worker started, the memory holds *)
(* what a restarted worker would read.  A key hydration could not open,    *)
(* because the salt could not be read at that moment, shows nothing        *)
(* instead, never another value, until it is written or the worker ends.   *)
SurvivesTheWorker ==
    hydration = "done" =>
        \A k \in Key \ mixed :
            (\A o \in Op : ~Open(o, k)) =>
                memory[k] = IF k \in missed THEN Absent ELSE Opened(disk[k], meta)

\* The registers of DurableRegisters.
KeptValue == [k \in Key |-> Opened(disk[k], meta)]
ShownValue == IF hydration = "done" THEN memory ELSE KeptValue
OpenWrites == {w \in Op \X Key : Open(w[1], w[2])}

Registers == INSTANCE DurableRegisters WITH
    value <- ShownValue, kept <- KeptValue, open <- OpenWrites, awake <- (hydration = "done")

(* Reads, writes and restarts are those of one register per key with a     *)
(* kept value behind it, however late the memory is filled, and whatever   *)
(* fails of its filling: a read before it is filled waits, and a key that  *)
(* could not be opened is hidden, its kept value untouched.                *)
ImplementsRegisters == Registers!Spec
=============================================================================
