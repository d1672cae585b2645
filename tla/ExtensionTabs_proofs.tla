------------------------ MODULE ExtensionTabs_proofs -------------------------
(***************************************************************************)
(* What the parts of ExtensionTabs keep for any items, profiles, pages,    *)
(* solves, recordings and runs.  Each part has an inductive invariant of   *)
(* its own; the steps of the others leave it alone.                        *)
(***************************************************************************)
EXTENDS ExtensionTabs, FiniteSetTheorems, SequenceTheorems, TLAPS

-----------------------------------------------------------------------------
(* The extension's pages.                                                  *)

Prof == Profile \cup {Global}
Contents == [Item -> SUBSET Prof]
Stores == [profiles : SUBSET Profile, items : Contents, active : Prof]

PagesType ==
    /\ store \in Stores
    /\ copy \in [Page -> {None} \cup Stores]
    /\ behind \in [P!Reader -> SUBSET P!Keys]
    /\ other \in [Others -> {None} \cup Contents]
    /\ cloud \in {None} \cup Stores
    /\ asked \in [Page -> SUBSET Item]
    /\ crossed \in BOOLEAN /\ refused \in BOOLEAN /\ orphaned \in BOOLEAN

\* A page that is not behind on a key has of it what the storage has, unless an edit
\* of it was refused; what it lacks then, it was told to delete.
SameAsStored(p) ==
    /\ \A i \in Item : KindOf[i] \notin behind[p] => copy[p].items[i] = store.items[i]
    /\ "profiles" \notin behind[p] => copy[p].profiles = store.profiles
    /\ "settings" \notin behind[p] => copy[p].active = store.active

\* A page that has a profile which is gone is behind on everything, because all keys
\* are written when a profile goes.
KnowsProfiles(p) ==
    ~(P!Keys \subseteq behind[p]) => copy[p].profiles \subseteq store.profiles

LacksOnPurpose(p) ==
    \A i \in Item :
        KindOf[i] \notin behind[p] /\ store.items[i] # {} /\ copy[p].items[i] = {}
            => i \in asked[p]

Current(p) ==
    copy[p] # None =>
        /\ ~refused => SameAsStored(p)
        /\ ~refused /\ ~crossed => KnowsProfiles(p)
        /\ LacksOnPurpose(p)

\* The popup and the recorder.
Reread(k) ==
    other[k] # None /\ k \notin behind[k] =>
        \A i \in P!Items(k) : other[k][i] = store.items[i]

Sound(s) == \A i \in Item : s.items[i] \subseteq s.profiles \cup {Global}
Settled(s) == s.active \in s.profiles \cup {Global}

PagesInv ==
    /\ PagesType
    /\ \A p \in Page : Current(p)
    /\ \A k \in Others : Reread(k)
    /\ crossed \/ refused \/ (Sound(store) /\ (cloud # None => Sound(cloud)))
    /\ orphaned \/ crossed \/ refused \/ (Settled(store) /\ (cloud # None => Settled(cloud)))

LEMMA PagesInit == P!Init => PagesInv
<1> SUFFICES ASSUME P!Init PROVE PagesInv
  OBVIOUS
<1>1. PICK S \in SUBSET Profile :
          store = [profiles |-> S, items |-> [i \in Item |-> {}], active |-> Global]
  BY DEF P!Init, P!Nothing
<1>2. PagesType
  BY <1>1 DEF P!Init, PagesType, Stores, Contents, Prof
<1>3. \A p \in Page : Current(p)
  BY DEF P!Init, Current
<1>4. \A k \in Others : Reread(k)
  BY DEF P!Init, Reread
<1>5. Sound(store) /\ Settled(store) /\ cloud = None
  BY <1>1 DEF P!Init, Sound, Settled
<1>6. QED
  BY <1>2, <1>3, <1>4, <1>5 DEF PagesInv

\* The keys of items, and the two others.
LEMMA KeysOfItems ==
    /\ \A i \in Item : KindOf[i] \in P!Keys /\ KindOf[i] # "profiles" /\ KindOf[i] # "settings"
    /\ "profiles" \in P!Keys /\ "settings" \in P!Keys
  BY Names DEF P!Keys, P!Kind

\* What a writer of some keys makes of the storage.
LEMMA MergedParts ==
    ASSUME NEW c, NEW keys
    PROVE  LET m == P!Merged(c, keys)
           IN /\ \A i \in Item : m.items[i] = IF KindOf[i] \in keys THEN c.items[i] ELSE store.items[i]
              /\ m.profiles = IF "profiles" \in keys THEN c.profiles ELSE store.profiles
              /\ m.active = IF "settings" \in keys THEN c.active ELSE store.active
  BY DEF P!Merged

LEMMA MergedStores ==
    ASSUME store \in Stores, NEW c \in Stores, NEW keys
    PROVE  P!Merged(c, keys) \in Stores
  BY DEF P!Merged, Stores, Contents

\* An edit changes the page's copy on the keys it writes only; takes an item away only
\* when told to; and when it takes profiles away it writes every key.
ChangesOnly(p, c, keys) ==
    /\ \A i \in Item : KindOf[i] \notin keys => c.items[i] = copy[p].items[i]
    /\ "profiles" \notin keys => c.profiles = copy[p].profiles
    /\ "settings" \notin keys => c.active = copy[p].active
    /\ keys = P!Keys \/ copy[p].profiles \subseteq c.profiles

Takes(p, c, told) == \A i \in Item : c.items[i] = {} => copy[p].items[i] = {} \/ i \in told

UpToDate(p, keys) == ~refused /\ ~crossed /\ behind[p] \cap keys = {}

Asks == /\ asked' \in [Page -> SUBSET Item] /\ orphaned' \in BOOLEAN
        /\ \A q \in Page : asked[q] \subseteq asked'[q]
        /\ orphaned => orphaned'
\* The storage and who is behind, after a write of a page.
Wrote(p, c, keys) ==
    /\ store' = P!Merged(c, keys)
    /\ behind' = [r \in P!Reader |-> IF r = p THEN behind[r] \ keys ELSE behind[r] \cup keys]
    /\ crossed' = (crossed \/ behind[p] \cap keys # {})

LEMMA EditWrites ==
    ASSUME NEW p \in Page, NEW c, NEW keys, P!Edit(p, c, keys)
    PROVE  /\ copy' = [copy EXCEPT ![p] = c] /\ other' = other /\ cloud' = cloud
           /\ \/ Wrote(p, c, keys) /\ refused' = refused
              \/ /\ refused' = TRUE /\ store' = store /\ behind' = behind
                 /\ crossed' = crossed
  BY DEF P!Edit, P!Written, Wrote, P!Reader

LEMMA EditType ==
    ASSUME PagesInv, Asks, NEW p \in Page, NEW c \in Stores, NEW keys \in SUBSET P!Keys,
           P!Edit(p, c, keys)
    PROVE  PagesType'
<1>1. /\ copy' = [copy EXCEPT ![p] = c] /\ other' = other /\ cloud' = cloud
      /\ \/ Wrote(p, c, keys) /\ refused' = refused
         \/ /\ refused' = TRUE /\ store' = store /\ behind' = behind
            /\ crossed' = crossed
  BY EditWrites
<1>2. store \in Stores /\ copy \in [Page -> {None} \cup Stores]
      /\ behind \in [P!Reader -> SUBSET P!Keys] /\ crossed \in BOOLEAN /\ refused \in BOOLEAN
      /\ other \in [Others -> {None} \cup Contents] /\ cloud \in {None} \cup Stores
  BY DEF PagesInv, PagesType
<1>3. store' \in Stores
  BY <1>1, <1>2, MergedStores DEF Wrote
<1>4. behind' \in [P!Reader -> SUBSET P!Keys]
  <2>1. CASE behind' = behind
    BY <2>1, <1>2
  <2>2. CASE Wrote(p, c, keys)
    BY <2>2, <1>2 DEF Wrote
  <2>3. QED
    BY <2>1, <2>2, <1>1
<1>5. crossed' \in BOOLEAN /\ refused' \in BOOLEAN
  BY <1>1, <1>2 DEF Wrote
<1>6. copy' \in [Page -> {None} \cup Stores]
  BY <1>1, <1>2
<1>7. QED
  BY <1>1, <1>2, <1>3, <1>4, <1>5, <1>6 DEF PagesType, Asks

\* A page that is not behind on what it writes has of it what the storage has.
LEMMA WriterKnows ==
    ASSUME PagesInv, NEW p \in Page, copy[p] # None, NEW keys, UpToDate(p, keys)
    PROVE  /\ \A i \in Item : KindOf[i] \in keys => copy[p].items[i] = store.items[i]
           /\ "profiles" \in keys => copy[p].profiles = store.profiles
           /\ "settings" \in keys => copy[p].active = store.active
           /\ ~(P!Keys \subseteq behind[p]) => copy[p].profiles \subseteq store.profiles
<1>1. Current(p) /\ ~refused /\ ~crossed /\ behind[p] \cap keys = {}
  BY DEF PagesInv, UpToDate
<1>2. SameAsStored(p) /\ KnowsProfiles(p)
  BY <1>1 DEF Current
<1>3. QED
  BY <1>1, <1>2 DEF SameAsStored, KnowsProfiles

\* The page that writes.
LEMMA WriterStaysCurrent ==
    ASSUME PagesInv, Asks, NEW p \in Page, copy[p] # None, NEW c \in Stores,
           NEW keys \in SUBSET P!Keys, P!Edit(p, c, keys),
           ChangesOnly(p, c, keys), Takes(p, c, asked'[p])
    PROVE  Current(p)'
<1> USE KeysOfItems
<1>1. /\ copy' = [copy EXCEPT ![p] = c] /\ other' = other /\ cloud' = cloud
      /\ \/ Wrote(p, c, keys) /\ refused' = refused
         \/ /\ refused' = TRUE /\ store' = store /\ behind' = behind
            /\ crossed' = crossed
  BY EditWrites
<1>2. Current(p) /\ copy \in [Page -> {None} \cup Stores] /\ p \in P!Reader
      /\ crossed \in BOOLEAN
  BY DEF PagesInv, PagesType, P!Reader
<1>3. copy'[p] = c
  BY <1>1, <1>2
<1>a. \A i \in Item : KindOf[i] \notin keys => c.items[i] = copy[p].items[i]
  BY DEF ChangesOnly
<1>b. ("profiles" \notin keys => c.profiles = copy[p].profiles)
      /\ ("settings" \notin keys => c.active = copy[p].active)
  BY DEF ChangesOnly
<1>c. asked[p] \subseteq asked'[p]
  BY DEF Asks
<1>4. CASE Wrote(p, c, keys) /\ refused' = refused
  <2>1. behind'[p] = behind[p] \ keys /\ crossed' = (crossed \/ behind[p] \cap keys # {})
    BY <1>2, <1>4 DEF Wrote
  <2>2. /\ \A i \in Item : store'.items[i] = IF KindOf[i] \in keys THEN c.items[i] ELSE store.items[i]
        /\ store'.profiles = IF "profiles" \in keys THEN c.profiles ELSE store.profiles
        /\ store'.active = IF "settings" \in keys THEN c.active ELSE store.active
    BY <1>4, MergedParts DEF Wrote
  <2>3. ~refused' => SameAsStored(p)'
    BY <1>2, <1>3, <1>4, <1>a, <1>b, <2>1, <2>2 DEF Current, SameAsStored
  <2>4. ~refused' /\ ~crossed' => KnowsProfiles(p)'
    <3> SUFFICES ASSUME ~refused', ~crossed', ~(P!Keys \subseteq behind'[p])
                 PROVE  c.profiles \subseteq store'.profiles
      BY <1>3 DEF KnowsProfiles
    <3>1. CASE "profiles" \in keys
      BY <3>1, <2>2
    <3>2. CASE "profiles" \notin keys
      <4>1. ~crossed /\ ~refused /\ behind[p] \cap keys = {}
        BY <1>4, <2>1
      <4>2. ~(P!Keys \subseteq behind[p])
        BY <4>1, <2>1
      <4>3. copy[p].profiles \subseteq store.profiles
        BY <1>2, <4>1, <4>2 DEF Current, KnowsProfiles
      <4>4. QED
        BY <4>3, <3>2, <1>b, <2>2
    <3>3. QED
      BY <3>1, <3>2
  <2>5. LacksOnPurpose(p)'
    BY <1>2, <1>3, <1>a, <1>c, <2>1, <2>2 DEF Current, LacksOnPurpose
  <2>6. QED
    BY <2>3, <2>4, <2>5 DEF Current
<1>5. CASE refused' = TRUE /\ store' = store /\ behind' = behind /\ crossed' = crossed
  <2>1. LacksOnPurpose(p)'
    BY <1>2, <1>3, <1>5, <1>c DEF Current, LacksOnPurpose, Takes
  <2>2. QED
    BY <2>1, <1>5 DEF Current
<1>6. QED
  BY <1>1, <1>4, <1>5

\* Another page.
LEMMA OthersStayCurrent ==
    ASSUME PagesInv, Asks, NEW p \in Page, copy[p] # None, NEW c \in Stores,
           NEW keys \in SUBSET P!Keys, P!Edit(p, c, keys),
           ChangesOnly(p, c, keys), NEW q \in Page, q # p
    PROVE  Current(q)'
<1> USE KeysOfItems
<1>1. /\ copy' = [copy EXCEPT ![p] = c] /\ other' = other /\ cloud' = cloud
      /\ \/ Wrote(p, c, keys) /\ refused' = refused
         \/ /\ refused' = TRUE /\ store' = store /\ behind' = behind
            /\ crossed' = crossed
  BY EditWrites
<1>2. Current(q) /\ copy \in [Page -> {None} \cup Stores] /\ q \in P!Reader
  BY DEF PagesInv, PagesType, P!Reader
<1>3. copy'[q] = copy[q]
  BY <1>1, <1>2
<1>c. asked[q] \subseteq asked'[q]
  BY DEF Asks
<1>4. CASE Wrote(p, c, keys) /\ refused' = refused
  <2>1. behind'[q] = behind[q] \cup keys /\ crossed' = (crossed \/ behind[p] \cap keys # {})
    BY <1>2, <1>4 DEF Wrote
  <2>2. /\ \A i \in Item : store'.items[i] = IF KindOf[i] \in keys THEN c.items[i] ELSE store.items[i]
        /\ store'.profiles = IF "profiles" \in keys THEN c.profiles ELSE store.profiles
        /\ store'.active = IF "settings" \in keys THEN c.active ELSE store.active
    BY <1>4, MergedParts DEF Wrote
  <2> SUFFICES ASSUME copy[q] # None
               PROVE  /\ ~refused' => SameAsStored(q)'
                      /\ ~refused' /\ ~crossed' => KnowsProfiles(q)'
                      /\ LacksOnPurpose(q)'
    BY <1>3 DEF Current
  <2>3. ~refused' => SameAsStored(q)'
    BY <1>2, <1>3, <1>4, <2>1, <2>2 DEF Current, SameAsStored
  <2>4. ~refused' /\ ~crossed' => KnowsProfiles(q)'
    <3> SUFFICES ASSUME ~refused', ~crossed', ~(P!Keys \subseteq behind'[q])
                 PROVE  copy[q].profiles \subseteq store'.profiles
      BY <1>3 DEF KnowsProfiles
    <3>1. UpToDate(p, keys) /\ ~(P!Keys \subseteq behind[q]) /\ keys # P!Keys
      BY <1>4, <2>1 DEF UpToDate
    <3>2. copy[q].profiles \subseteq store.profiles
      BY <1>2, <3>1 DEF Current, KnowsProfiles, UpToDate
    <3>3. CASE "profiles" \in keys
      <4>1. copy[p].profiles = store.profiles
        BY <3>1, <3>3, WriterKnows
      <4>2. copy[p].profiles \subseteq c.profiles
        BY <3>1 DEF ChangesOnly
      <4>3. QED
        BY <4>1, <4>2, <3>2, <3>3, <2>2
    <3>4. QED
      BY <3>2, <3>3, <2>2
  <2>5. LacksOnPurpose(q)'
    BY <1>2, <1>3, <1>c, <2>1, <2>2 DEF Current, LacksOnPurpose
  <2>6. QED
    BY <2>3, <2>4, <2>5
<1>5. CASE refused' = TRUE /\ store' = store /\ behind' = behind /\ crossed' = crossed
  BY <1>2, <1>3, <1>5, <1>c DEF Current, LacksOnPurpose
<1>6. QED
  BY <1>1, <1>4, <1>5

LEMMA RereadStays ==
    ASSUME PagesInv, NEW p \in Page, NEW c, NEW keys, P!Edit(p, c, keys), NEW k \in Others
    PROVE  Reread(k)'
<1>1. /\ copy' = [copy EXCEPT ![p] = c] /\ other' = other /\ cloud' = cloud
      /\ \/ Wrote(p, c, keys) /\ refused' = refused
         \/ /\ refused' = TRUE /\ store' = store /\ behind' = behind
            /\ crossed' = crossed
  BY EditWrites
<1>2. Reread(k) /\ k # p /\ k \in P!Reader
  BY Names DEF PagesInv, P!Reader
<1>3. CASE Wrote(p, c, keys)
  <2>1. behind'[k] = behind[k] \cup keys
    BY <1>2, <1>3 DEF Wrote
  <2>2. \A i \in Item : KindOf[i] \notin keys => store'.items[i] = store.items[i]
    BY <1>3, MergedParts DEF Wrote
  <2>3. QED
    BY <1>1, <1>2, <2>1, <2>2 DEF Reread, P!Items
<1>4. CASE store' = store /\ behind' = behind
  BY <1>1, <1>2, <1>4 DEF Reread
<1>5. QED
  BY <1>1, <1>3, <1>4

LEMMA EditKeeps ==
    ASSUME PagesInv, Asks, NEW p \in Page, copy[p] # None, NEW c \in Stores,
           NEW keys \in SUBSET P!Keys, P!Edit(p, c, keys),
           ChangesOnly(p, c, keys), Takes(p, c, asked'[p]),
           UpToDate(p, keys) /\ Sound(store) => Sound(P!Merged(c, keys)),
           UpToDate(p, keys) /\ ~orphaned' /\ Settled(store) => Settled(P!Merged(c, keys))
    PROVE  PagesInv'
<1>1. /\ copy' = [copy EXCEPT ![p] = c] /\ other' = other /\ cloud' = cloud
      /\ \/ Wrote(p, c, keys) /\ refused' = refused
         \/ /\ refused' = TRUE /\ store' = store /\ behind' = behind
            /\ crossed' = crossed
  BY EditWrites
<1>2. PagesType'
  BY EditType
<1>3. \A q \in Page : Current(q)'
  BY WriterStaysCurrent, OthersStayCurrent
<1>4. \A k \in Others : Reread(k)'
  BY RereadStays
<1>5. crossed' \/ refused' \/ (Sound(store)' /\ (cloud' # None => Sound(cloud)'))
  <2> SUFFICES ASSUME ~crossed', ~refused' PROVE Sound(store)' /\ (cloud' # None => Sound(cloud)')
    OBVIOUS
  <2>1. Wrote(p, c, keys) /\ refused' = refused
    BY <1>1
  <2>2. UpToDate(p, keys)
    BY <2>1 DEF Wrote, UpToDate
  <2>3. Sound(store) /\ (cloud # None => Sound(cloud))
    BY <2>2 DEF PagesInv, UpToDate
  <2>4. store' = P!Merged(c, keys) /\ Sound(P!Merged(c, keys))
    BY <2>1, <2>2, <2>3 DEF Wrote
  <2>5. QED
    BY <1>1, <2>3, <2>4 DEF Sound
<1>6. orphaned' \/ crossed' \/ refused' \/ (Settled(store)' /\ (cloud' # None => Settled(cloud)'))
  <2> SUFFICES ASSUME ~crossed', ~refused', ~orphaned'
               PROVE  Settled(store)' /\ (cloud' # None => Settled(cloud)')
    OBVIOUS
  <2>1. Wrote(p, c, keys) /\ refused' = refused
    BY <1>1
  <2>2. UpToDate(p, keys) /\ ~orphaned
    BY <2>1 DEF Wrote, UpToDate, Asks
  <2>3. Settled(store) /\ (cloud # None => Settled(cloud))
    BY <2>2 DEF PagesInv, UpToDate
  <2>4. store' = P!Merged(c, keys) /\ Settled(P!Merged(c, keys))
    BY <2>1, <2>2, <2>3 DEF Wrote
  <2>5. QED
    BY <1>1, <2>3, <2>4 DEF Settled
<1>7. QED
  BY <1>2, <1>3, <1>4, <1>5, <1>6 DEF PagesInv
-----------------------------------------------------------------------------
(* The edits.                                                              *)

\* What every edit is.
SoundEdit(p, c, keys) ==
    /\ P!Edit(p, c, keys) /\ ChangesOnly(p, c, keys) /\ Takes(p, c, asked'[p])
    /\ UpToDate(p, keys) /\ Sound(store) => Sound(P!Merged(c, keys))
    /\ UpToDate(p, keys) /\ ~orphaned' /\ Settled(store) => Settled(P!Merged(c, keys))

Edited(p) == /\ copy[p] # None /\ Asks
             /\ \E c \in Stores, keys \in SUBSET P!Keys : SoundEdit(p, c, keys)

LEMMA CopyIsStores ==
    ASSUME PagesInv, NEW p \in Page, copy[p] # None
    PROVE  copy[p] \in Stores
  BY DEF PagesInv, PagesType

LEMMA AsksNothing ==
    ASSUME PagesInv, asked' = asked, orphaned' = orphaned
    PROVE  Asks
  BY DEF PagesInv, PagesType, Asks

\* The items of one kind change, one of them by what is taken from it or added.
LEMMA ItemsEdited ==
    ASSUME NEW s \in Stores, NEW i \in Item, NEW S \in SUBSET Prof
    PROVE  /\ [s EXCEPT !.items[i] = S] \in Stores
           /\ [s EXCEPT !.items[i] = S].profiles = s.profiles
           /\ [s EXCEPT !.items[i] = S].active = s.active
           /\ \A j \in Item : [s EXCEPT !.items[i] = S].items[j] = IF j = i THEN S ELSE s.items[j]
  BY DEF Stores, Contents

\* An edit of one item.
LEMMA EditItem ==
    ASSUME PagesInv, Asks, NEW p \in Page, copy[p] # None, NEW i \in Item,
           NEW S \in SUBSET Prof,
           P!Edit(p, [copy[p] EXCEPT !.items[i] = S], {KindOf[i]}),
           S = {} => i \in asked'[p],
           UpToDate(p, {KindOf[i]}) => S \subseteq store.items[i] \cup {Global} \cup copy[p].profiles
    PROVE  Edited(p)
<1> DEFINE keys == {KindOf[i]}
<1>1. PICK c : c = [copy[p] EXCEPT !.items[i] = S]
  OBVIOUS
<1>2. /\ c \in Stores /\ c.profiles = copy[p].profiles /\ c.active = copy[p].active
      /\ \A j \in Item : c.items[j] = IF j = i THEN S ELSE copy[p].items[j]
  <2>1. PICK s \in Stores : s = copy[p]
    BY CopyIsStores
  <2>2. c = [s EXCEPT !.items[i] = S]
    BY <1>1, <2>1
  <2>3. /\ c \in Stores /\ c.profiles = s.profiles /\ c.active = s.active
        /\ \A j \in Item : c.items[j] = IF j = i THEN S ELSE s.items[j]
    BY <2>2, ItemsEdited
  <2>4. QED
    BY <2>1, <2>3
<1>3. keys \subseteq P!Keys /\ "profiles" \notin keys /\ "settings" \notin keys
  BY KeysOfItems
<1>4. ChangesOnly(p, c, keys) /\ Takes(p, c, asked'[p])
  BY <1>2, <1>3 DEF ChangesOnly, Takes
<1>5. UpToDate(p, keys) /\ Sound(store) => Sound(P!Merged(c, keys))
  <2> SUFFICES ASSUME UpToDate(p, keys), Sound(store), NEW j \in Item
               PROVE  P!Merged(c, keys).items[j] \subseteq P!Merged(c, keys).profiles \cup {Global}
    BY DEF Sound
  <2>1. /\ P!Merged(c, keys).items[j] = IF KindOf[j] \in keys THEN c.items[j] ELSE store.items[j]
        /\ P!Merged(c, keys).profiles = store.profiles
    BY <1>3, MergedParts
  <2>2. store.items[j] \subseteq store.profiles \cup {Global}
        /\ store.items[i] \subseteq store.profiles \cup {Global}
    BY DEF Sound
  <2>3. KindOf[j] \in keys => copy[p].items[j] = store.items[j]
    BY WriterKnows
  <2>4. copy[p].profiles \subseteq store.profiles
    <3>1. ~(P!Keys \subseteq behind[p])
      BY <1>3 DEF UpToDate
    <3>2. QED
      BY <3>1, WriterKnows
  <2>5. S \subseteq store.profiles \cup {Global}
    BY <2>2, <2>4
  <2>6. QED
    BY <1>2, <2>1, <2>2, <2>3, <2>5
<1>6. UpToDate(p, keys) /\ ~orphaned' /\ Settled(store) => Settled(P!Merged(c, keys))
  BY <1>3, MergedParts DEF Settled
<1>7. QED
  BY <1>1, <1>2, <1>3, <1>4, <1>5, <1>6 DEF Edited, SoundEdit

LEMMA SaveItemEdits ==
    ASSUME PagesInv, NEW p \in Page, NEW i \in Item, NEW prof \in Prof, P!SaveItem(p, i, prof)
    PROVE  Edited(p)
<1>1. copy[p] # None /\ prof \in copy[p].profiles \cup {Global} /\ asked' = asked
      /\ orphaned' = orphaned
  BY DEF P!SaveItem, P!IsOpen, P!Choices
<1>2. PICK S : S = copy[p].items[i] \cup {prof}
  OBVIOUS
<1>3. S \in SUBSET Prof
  BY <1>1, <1>2, CopyIsStores DEF Stores, Contents
<1>4. P!Edit(p, [copy[p] EXCEPT !.items[i] = S], {KindOf[i]})
  BY <1>2 DEF P!SaveItem
<1>5. UpToDate(p, {KindOf[i]}) => S \subseteq store.items[i] \cup {Global} \cup copy[p].profiles
  <2> SUFFICES ASSUME UpToDate(p, {KindOf[i]}) PROVE copy[p].items[i] = store.items[i]
    BY <1>1, <1>2
  <2>1. QED
    BY <1>1, WriterKnows
<1>6. QED
  BY <1>1, <1>2, <1>3, <1>4, <1>5, AsksNothing, EditItem

LEMMA RemoveFromProfileEdits ==
    ASSUME PagesInv, NEW p \in Page, NEW i \in Item, NEW prof \in Prof,
           P!RemoveFromProfile(p, i, prof)
    PROVE  Edited(p)
<1>1. copy[p] # None /\ prof \in copy[p].items[i] /\ asked' = asked /\ orphaned' = orphaned
  BY DEF P!RemoveFromProfile, P!IsOpen
<1>2. PICK S : S = P!Without(copy[p].items[i], prof)
  OBVIOUS
<1>3. S \in SUBSET Prof /\ S # {} /\ S \subseteq copy[p].items[i] \cup {Global}
  BY <1>1, <1>2, CopyIsStores DEF Stores, Contents, P!Without, Prof
<1>4. P!Edit(p, [copy[p] EXCEPT !.items[i] = S], {KindOf[i]})
  BY <1>2 DEF P!RemoveFromProfile
<1>5. UpToDate(p, {KindOf[i]}) => S \subseteq store.items[i] \cup {Global} \cup copy[p].profiles
  <2> SUFFICES ASSUME UpToDate(p, {KindOf[i]}) PROVE copy[p].items[i] = store.items[i]
    BY <1>3
  <2>1. QED
    BY <1>1, WriterKnows
<1>6. QED
  BY <1>1, <1>3, <1>4, <1>5, AsksNothing, EditItem

LEMMA DeleteItemEdits ==
    ASSUME PagesInv, NEW p \in Page, NEW i \in Item, P!DeleteItem(p, i)
    PROVE  Edited(p)
<1>1. copy[p] # None /\ asked' = [asked EXCEPT ![p] = @ \cup {i}] /\ orphaned' = orphaned
  BY DEF P!DeleteItem, P!IsOpen
<1>2. Asks /\ i \in asked'[p]
  BY <1>1 DEF PagesInv, PagesType, Asks
<1>3. P!Edit(p, [copy[p] EXCEPT !.items[i] = {}], {KindOf[i]})
  BY DEF P!DeleteItem
<1>4. QED
  BY <1>1, <1>2, <1>3, EditItem

LEMMA SaveProfileEdits ==
    ASSUME PagesInv, NEW p \in Page, NEW prof \in Profile, P!SaveProfile(p, prof)
    PROVE  Edited(p)
<1> DEFINE keys == {"profiles"}
<1>1. copy[p] # None /\ asked' = asked /\ orphaned' = orphaned
  BY DEF P!SaveProfile, P!IsOpen
<1>2. PICK c : c = [copy[p] EXCEPT !.profiles = @ \cup {prof}]
  OBVIOUS
<1>3. /\ c \in Stores /\ c.profiles = copy[p].profiles \cup {prof}
      /\ c.active = copy[p].active /\ c.items = copy[p].items
  BY <1>1, <1>2, CopyIsStores DEF Stores
<1>4. P!Edit(p, c, keys)
  BY <1>2 DEF P!SaveProfile
<1>5. keys \subseteq P!Keys /\ "settings" \notin keys /\ \A i \in Item : KindOf[i] \notin keys
  BY KeysOfItems
<1>6. ChangesOnly(p, c, keys) /\ Takes(p, c, asked'[p])
  BY <1>3 DEF ChangesOnly, Takes
<1>7. UpToDate(p, keys) => store.profiles \subseteq P!Merged(c, keys).profiles
  <2> SUFFICES ASSUME UpToDate(p, keys) PROVE store.profiles \subseteq c.profiles
    BY MergedParts
  <2>1. copy[p].profiles = store.profiles
    BY <1>1, WriterKnows
  <2>2. QED
    BY <1>3, <2>1
<1>8. UpToDate(p, keys) /\ Sound(store) => Sound(P!Merged(c, keys))
  BY <1>5, <1>7, MergedParts DEF Sound
<1>9. UpToDate(p, keys) /\ ~orphaned' /\ Settled(store) => Settled(P!Merged(c, keys))
  BY <1>5, <1>7, MergedParts DEF Settled
<1>10. QED
  BY <1>1, <1>3, <1>4, <1>5, <1>6, <1>8, <1>9, AsksNothing DEF Edited, SoundEdit

LEMMA SetActiveProfileEdits ==
    ASSUME PagesInv, NEW p \in Page, NEW prof \in Prof, P!SetActiveProfile(p, prof)
    PROVE  Edited(p)
<1> DEFINE keys == {"settings"}
<1>1. copy[p] # None /\ prof \in copy[p].profiles \cup {Global} /\ asked' = asked
      /\ orphaned' = orphaned
  BY DEF P!SetActiveProfile, P!IsOpen, P!Choices
<1>2. PICK c : c = [copy[p] EXCEPT !.active = prof]
  OBVIOUS
<1>3. /\ c \in Stores /\ c.profiles = copy[p].profiles
      /\ c.active = prof /\ c.items = copy[p].items
  BY <1>1, <1>2, CopyIsStores DEF Stores
<1>4. P!Edit(p, c, keys)
  BY <1>2 DEF P!SetActiveProfile
<1>5. keys \subseteq P!Keys /\ "profiles" \notin keys /\ \A i \in Item : KindOf[i] \notin keys
  BY KeysOfItems
<1>6. ChangesOnly(p, c, keys) /\ Takes(p, c, asked'[p])
  BY <1>3 DEF ChangesOnly, Takes
<1>7. UpToDate(p, keys) /\ Sound(store) => Sound(P!Merged(c, keys))
  BY <1>5, MergedParts DEF Sound
<1>8. UpToDate(p, keys) /\ ~orphaned' /\ Settled(store) => Settled(P!Merged(c, keys))
  <2> SUFFICES ASSUME UpToDate(p, keys) PROVE prof \in store.profiles \cup {Global}
    BY <1>3, <1>5, MergedParts DEF Settled
  <2>1. ~(P!Keys \subseteq behind[p])
    BY KeysOfItems DEF UpToDate
  <2>2. copy[p].profiles \subseteq store.profiles
    BY <1>1, <2>1, WriterKnows
  <2>3. QED
    BY <1>1, <2>2
<1>9. QED
  BY <1>1, <1>3, <1>4, <1>5, <1>6, <1>7, <1>8, AsksNothing DEF Edited, SoundEdit

\* An edit of everything.
LEMMA EditAll ==
    ASSUME PagesInv, Asks, NEW p \in Page, copy[p] # None, NEW c \in Stores,
           P!Edit(p, c, P!Keys), Takes(p, c, asked'[p]),
           UpToDate(p, P!Keys) /\ Sound(store) => Sound(c),
           UpToDate(p, P!Keys) /\ ~orphaned' /\ Settled(store) => Settled(c)
    PROVE  Edited(p)
<1>1. ChangesOnly(p, c, P!Keys)
  BY KeysOfItems DEF ChangesOnly
<1>2. /\ \A i \in Item : P!Merged(c, P!Keys).items[i] = c.items[i]
      /\ P!Merged(c, P!Keys).profiles = c.profiles /\ P!Merged(c, P!Keys).active = c.active
  BY KeysOfItems, MergedParts
<1>3. (Sound(c) => Sound(P!Merged(c, P!Keys))) /\ (Settled(c) => Settled(P!Merged(c, P!Keys)))
  BY <1>2 DEF Sound, Settled
<1>4. QED
  BY <1>1, <1>3 DEF Edited, SoundEdit

\* What a page that is not behind has.
LEMMA CopyIsSound ==
    ASSUME PagesInv, NEW p \in Page, copy[p] # None, UpToDate(p, P!Keys)
    PROVE  /\ Sound(store) => Sound(copy[p])
           /\ Settled(store) => Settled(copy[p])
<1>1. /\ \A i \in Item : copy[p].items[i] = store.items[i]
      /\ copy[p].profiles = store.profiles /\ copy[p].active = store.active
  BY KeysOfItems, WriterKnows
<1>2. QED
  BY <1>1 DEF Sound, Settled

LEMMA DeleteProfileEdits ==
    ASSUME PagesInv, NEW p \in Page, NEW prof \in Profile, P!DeleteProfile(p, prof)
    PROVE  Edited(p)
<1>1. copy[p] # None /\ prof \in copy[p].profiles /\ asked' = asked
      /\ orphaned' = (orphaned \/ copy[p].active = prof)
  BY DEF P!DeleteProfile, P!IsOpen
<1>2. copy[p] \in Stores
  BY <1>1, CopyIsStores
<1>3. PICK rest : rest = [copy[p] EXCEPT !.profiles = @ \ {prof},
                              !.items = [i \in Item |-> IF prof \in @[i] THEN P!Disowned(i, @[i], prof) ELSE @[i]]]
  OBVIOUS
<1>4. \A i \in Item : P!Disowned(i, copy[p].items[i], prof) \in SUBSET Prof
  BY <1>2 DEF Stores, Contents, P!Disowned, P!Without, Prof
<1>5. /\ rest \in Stores /\ rest.profiles = copy[p].profiles \ {prof}
      /\ rest.active = copy[p].active
      /\ \A i \in Item : rest.items[i] = IF prof \in copy[p].items[i]
                                         THEN P!Disowned(i, copy[p].items[i], prof)
                                         ELSE copy[p].items[i]
  BY <1>2, <1>3, <1>4 DEF Stores, Contents
<1>6. PICK a : a = IF P!ActiveOf(rest) = prof THEN Global ELSE rest.active
  OBVIOUS
<1>7. a \in Prof /\ (a = Global \/ a = rest.active)
  BY <1>5, <1>6 DEF Stores, Prof
<1>8. PICK c : c = [rest EXCEPT !.active = a]
  OBVIOUS
<1>9. c \in Stores /\ c.profiles = rest.profiles /\ c.items = rest.items /\ c.active = a
  BY <1>5, <1>7, <1>8 DEF Stores
<1>10. P!Edit(p, c, P!Keys)
  BY <1>3, <1>6, <1>8 DEF P!DeleteProfile
<1>11. Asks
  BY <1>1 DEF PagesInv, PagesType, Asks
<1>12. \A i \in Item : prof \in copy[p].items[i] => P!Disowned(i, copy[p].items[i], prof) # {}
  BY DEF P!Disowned, P!Without
<1>13. Takes(p, c, asked'[p])
  BY <1>5, <1>9, <1>12 DEF Takes
<1>14. Sound(copy[p]) => Sound(c)
  <2> SUFFICES ASSUME Sound(copy[p]), NEW i \in Item
               PROVE  c.items[i] \subseteq (copy[p].profiles \ {prof}) \cup {Global}
    BY <1>5, <1>9 DEF Sound
  <2>1. copy[p].items[i] \subseteq copy[p].profiles \cup {Global}
    BY DEF Sound
  <2>2. QED
    BY <1>5, <1>9, <2>1 DEF P!Disowned, P!Without
<1>15. ~orphaned' /\ Settled(copy[p]) => Settled(c)
  BY <1>1, <1>5, <1>7, <1>9 DEF Settled
<1>16. /\ UpToDate(p, P!Keys) /\ Sound(store) => Sound(c)
       /\ UpToDate(p, P!Keys) /\ ~orphaned' /\ Settled(store) => Settled(c)
  BY <1>1, <1>14, <1>15, CopyIsSound
<1>17. QED
  BY <1>1, <1>9, <1>10, <1>11, <1>13, <1>16, EditAll

LEMMA RestoreBackupEdits ==
    ASSUME PagesInv, NEW p \in Page, NEW prof \in Profile, NEW S \in SUBSET Item,
           P!RestoreBackup(p, S, prof)
    PROVE  Edited(p)
<1>1. copy[p] # None /\ asked' = asked /\ orphaned' = orphaned
  BY DEF P!RestoreBackup, P!IsOpen
<1>2. copy[p] \in Stores
  BY <1>1, CopyIsStores
<1>3. PICK c : c = [profiles |-> copy[p].profiles \cup {prof},
                    items |-> [i \in Item |-> IF i \in S THEN {prof} ELSE copy[p].items[i]],
                    active |-> prof]
  OBVIOUS
<1>4. c \in Stores
  BY <1>2, <1>3 DEF Stores, Contents, Prof
<1>5. P!Edit(p, c, P!Keys)
  BY <1>3 DEF P!RestoreBackup
<1>6. Takes(p, c, asked'[p])
  BY <1>3 DEF Takes
<1>7. (Sound(copy[p]) => Sound(c)) /\ Settled(c)
  BY <1>3 DEF Sound, Settled
<1>8. UpToDate(p, P!Keys) /\ Sound(store) => Sound(c)
  BY <1>1, <1>7, CopyIsSound
<1>9. QED
  BY <1>1, <1>4, <1>5, <1>6, <1>7, <1>8, AsksNothing, EditAll
LEMMA EveryEdit ==
    ASSUME PagesInv, NEW p \in Page, P!Editing(p)
    PROVE  Edited(p)
<1>1. CASE \E i \in Item, prof \in Profile \cup {Global} :
              P!SaveItem(p, i, prof) \/ P!RemoveFromProfile(p, i, prof)
  BY <1>1, SaveItemEdits, RemoveFromProfileEdits DEF Prof
<1>2. CASE \E i \in Item : P!DeleteItem(p, i)
  BY <1>2, DeleteItemEdits
<1>3. CASE \E prof \in Profile : P!SaveProfile(p, prof) \/ P!DeleteProfile(p, prof)
  BY <1>3, SaveProfileEdits, DeleteProfileEdits
<1>4. CASE \E prof \in Profile \cup {Global} : P!SetActiveProfile(p, prof)
  BY <1>4, SetActiveProfileEdits DEF Prof
<1>5. CASE \E prof \in Profile, S \in SUBSET Item : P!RestoreBackup(p, S, prof)
  BY <1>5, RestoreBackupEdits
<1>6. QED
  BY <1>1, <1>2, <1>3, <1>4, <1>5 DEF P!Editing

-----------------------------------------------------------------------------
(* Loads, the popup and the recorder, synchronisation.                     *)

LEMMA LoadKeeps ==
    ASSUME PagesInv, NEW p \in Page, P!Load(p)
    PROVE  PagesInv'
<1>1. /\ copy' = [copy EXCEPT ![p] = store] /\ behind' = [behind EXCEPT ![p] = {}]
      /\ asked' = [asked EXCEPT ![p] = {}]
      /\ UNCHANGED <<store, other, cloud, crossed, refused, orphaned>>
  BY DEF P!Load
<1>2. PagesType /\ p \in P!Reader
  BY DEF PagesInv, P!Reader
<1>3. PagesType'
  BY <1>1, <1>2 DEF PagesType
<1>4. \A q \in Page : Current(q)'
  <2> SUFFICES ASSUME NEW q \in Page PROVE Current(q)'
    OBVIOUS
  <2>1. CASE q = p
    <3>1. copy'[q] = store /\ behind'[q] = {}
      BY <2>1, <1>1, <1>2 DEF PagesType
    <3>2. SameAsStored(q)' /\ KnowsProfiles(q)' /\ LacksOnPurpose(q)'
      BY <3>1, <1>1 DEF SameAsStored, KnowsProfiles, LacksOnPurpose
    <3>3. QED
      BY <3>2 DEF Current
  <2>2. CASE q # p
    <3>1. copy'[q] = copy[q] /\ behind'[q] = behind[q] /\ asked'[q] = asked[q] /\ Current(q)
      BY <2>2, <1>1, <1>2 DEF PagesInv, PagesType, P!Reader
    <3>2. QED
      BY <3>1, <1>1 DEF Current, SameAsStored, KnowsProfiles, LacksOnPurpose
  <2>3. QED
    BY <2>1, <2>2
<1>5. \A k \in Others : Reread(k)'
  <2> SUFFICES ASSUME NEW k \in Others PROVE Reread(k)'
    OBVIOUS
  <2>1. behind'[k] = behind[k] /\ Reread(k)
    BY <1>1, <1>2, Names DEF PagesInv, PagesType, P!Reader
  <2>2. QED
    BY <2>1, <1>1 DEF Reread
<1>6. QED
  BY <1>1, <1>3, <1>4, <1>5 DEF PagesInv, Sound, Settled

LEMMA ReadKindKeeps ==
    ASSUME PagesInv, NEW k \in Others, P!ReadKind(k)
    PROVE  PagesInv'
<1>1. /\ other' = [other EXCEPT ![k] = store.items] /\ behind' = [behind EXCEPT ![k] = {}]
      /\ UNCHANGED <<store, copy, cloud, asked, crossed, refused, orphaned>>
  BY DEF P!ReadKind, P!history
<1>2. PagesType /\ k \in P!Reader
  BY DEF PagesInv, P!Reader
<1>3. PagesType'
  <2>1. store.items \in Contents
    BY <1>2 DEF PagesType, Stores
  <2>2. QED
    BY <1>1, <1>2, <2>1 DEF PagesType
<1>4. \A q \in Page : Current(q)'
  <2> SUFFICES ASSUME NEW q \in Page PROVE Current(q)'
    OBVIOUS
  <2>1. behind'[q] = behind[q] /\ Current(q)
    BY <1>1, <1>2, Names DEF PagesInv, PagesType, P!Reader
  <2>2. QED
    BY <2>1, <1>1 DEF Current, SameAsStored, KnowsProfiles, LacksOnPurpose
<1>5. \A j \in Others : Reread(j)'
  <2> SUFFICES ASSUME NEW j \in Others PROVE Reread(j)'
    OBVIOUS
  <2>1. CASE j = k
    BY <2>1, <1>1, <1>2 DEF Reread, PagesType
  <2>2. CASE j # k
    <3>1. other'[j] = other[j] /\ behind'[j] = behind[j] /\ Reread(j)
      BY <2>2, <1>1, <1>2 DEF PagesInv, PagesType, P!Reader
    <3>2. QED
      BY <3>1, <1>1 DEF Reread
  <2>3. QED
    BY <2>1, <2>2
<1>6. QED
  BY <1>1, <1>3, <1>4, <1>5 DEF PagesInv, Sound, Settled

\* What the popup or the recorder writes.
LEMMA WriteKindParts ==
    ASSUME PagesInv, NEW k \in Others, NEW i \in Item, P!WriteKind(k, i)
    PROVE  /\ other[k] # None /\ KindOf[i] = k /\ k \in P!Keys
           /\ store'.profiles = store.profiles /\ store'.active = store.active
           /\ \A j \in Item : store'.items[j] = IF KindOf[j] # k THEN store.items[j]
                                                ELSE IF j = i THEN other[k][j] \cup {Global}
                                                ELSE other[k][j]
           /\ store' \in Stores
           /\ other' = [other EXCEPT ![k] = None]
           /\ behind' = [r \in P!Reader |-> IF r = k THEN behind[r] \ {k} ELSE behind[r] \cup {k}]
           /\ crossed' = (crossed \/ k \in behind[k])
           /\ UNCHANGED <<copy, cloud, asked, refused, orphaned>>
<1>1. PagesType
  BY DEF PagesInv
<1>2. other[k] # None /\ KindOf[i] = k /\ other' = [other EXCEPT ![k] = None]
      /\ UNCHANGED <<copy, cloud, asked, refused, orphaned>>
  BY DEF P!WriteKind, P!Items
<1>3. k \in P!Keys
  BY <1>2, KeysOfItems
<1>4. /\ behind' = [r \in P!Reader |-> IF r = k THEN behind[r] \ {k} ELSE behind[r] \cup {k}]
      /\ crossed' = (crossed \/ k \in behind[k])
  BY DEF P!WriteKind, P!Written, P!Reader
<1>5. PICK T : T = [j \in Item |-> IF KindOf[j] # k THEN store.items[j]
                                   ELSE IF j = i THEN other[k][j] \cup {Global}
                                   ELSE other[k][j]]
  OBVIOUS
<1>6. store' = [store EXCEPT !.items = T]
  BY <1>5 DEF P!WriteKind
<1>7. T \in Contents
  <2>1. store.items \in Contents /\ other[k] \in Contents
    BY <1>1, <1>2 DEF PagesType, Stores
  <2>2. QED
    BY <1>5, <2>1 DEF Contents, Prof
<1>8. store \in Stores
  BY <1>1 DEF PagesType
<1>9. store' \in Stores /\ store'.profiles = store.profiles /\ store'.active = store.active
      /\ store'.items = T
  BY <1>6, <1>7, <1>8 DEF Stores
<1>10. QED
  BY <1>2, <1>3, <1>4, <1>5, <1>9

LEMMA WriteKindKeeps ==
    ASSUME PagesInv, NEW k \in Others, NEW i \in Item, P!WriteKind(k, i)
    PROVE  PagesInv'
<1>1. /\ other[k] # None /\ KindOf[i] = k /\ k \in P!Keys
      /\ store'.profiles = store.profiles /\ store'.active = store.active
      /\ \A j \in Item : store'.items[j] = IF KindOf[j] # k THEN store.items[j]
                                           ELSE IF j = i THEN other[k][j] \cup {Global}
                                           ELSE other[k][j]
      /\ store' \in Stores
      /\ other' = [other EXCEPT ![k] = None]
      /\ behind' = [r \in P!Reader |-> IF r = k THEN behind[r] \ {k} ELSE behind[r] \cup {k}]
      /\ crossed' = (crossed \/ k \in behind[k])
      /\ UNCHANGED <<copy, cloud, asked, refused, orphaned>>
  BY WriteKindParts
<1>2. PagesType
  BY DEF PagesInv
<1>3. PagesType'
  <2>1. behind' \in [P!Reader -> SUBSET P!Keys]
    BY <1>1, <1>2 DEF PagesType
  <2>2. QED
    BY <1>1, <1>2, <2>1 DEF PagesType
<1>4. \A q \in Page : Current(q)'
  <2> SUFFICES ASSUME NEW q \in Page PROVE Current(q)'
    OBVIOUS
  <2>1. behind'[q] = behind[q] \cup {k} /\ Current(q)
    BY <1>1, Names DEF PagesInv, P!Reader
  <2>2. QED
    BY <2>1, <1>1 DEF Current, SameAsStored, KnowsProfiles, LacksOnPurpose
<1>5. \A j \in Others : Reread(j)'
  <2> SUFFICES ASSUME NEW j \in Others PROVE Reread(j)'
    OBVIOUS
  <2>1. CASE j = k
    BY <2>1, <1>1, <1>2 DEF Reread, PagesType
  <2>2. CASE j # k
    <3>1. other'[j] = other[j] /\ behind'[j] = behind[j] \cup {k} /\ Reread(j)
      BY <2>2, <1>1, <1>2 DEF PagesInv, PagesType, P!Reader
    <3>2. QED
      BY <2>2, <3>1, <1>1 DEF Reread, P!Items
  <2>3. QED
    BY <2>1, <2>2
<1>6. ~crossed' => \A j \in Item : store'.items[j] \subseteq store.items[j] \cup {Global}
  <2> SUFFICES ASSUME ~crossed', NEW j \in Item, KindOf[j] = k
               PROVE  other[k][j] = store.items[j]
    BY <1>1
  <2>1. Reread(k) /\ k \notin behind[k]
    BY <1>1 DEF PagesInv
  <2>2. QED
    BY <1>1, <2>1 DEF Reread, P!Items
<1>7. crossed' \/ refused' \/ (Sound(store)' /\ (cloud' # None => Sound(cloud)'))
  BY <1>1, <1>6 DEF PagesInv, Sound
<1>8. orphaned' \/ crossed' \/ refused' \/ (Settled(store)' /\ (cloud' # None => Settled(cloud)'))
  BY <1>1 DEF PagesInv, Settled
<1>9. QED
  BY <1>3, <1>4, <1>5, <1>7, <1>8 DEF PagesInv

LEMMA PushKeeps == ASSUME PagesInv, P!Push PROVE PagesInv'
<1>1. cloud' = store /\ UNCHANGED <<store, copy, behind, other, asked, crossed, refused, orphaned>>
  BY DEF P!Push, P!pages, P!history
<1>2. PagesType'
  BY <1>1 DEF PagesInv, PagesType
<1>3. (\A p \in Page : Current(p)') /\ \A k \in Others : Reread(k)'
  BY <1>1 DEF PagesInv, Current, SameAsStored, KnowsProfiles, LacksOnPurpose, Reread
<1>4. QED
  BY <1>1, <1>2, <1>3 DEF PagesInv, Sound, Settled

LEMMA PullKeeps ==
    ASSUME PagesInv, NEW p \in Page \cup {None}, P!Pull(p)
    PROVE  PagesInv'
<1>1. /\ cloud # None /\ store' = cloud
      /\ behind' = [r \in P!Reader |-> IF r = p THEN {} ELSE P!Keys]
      /\ copy' = IF p \in Page THEN [copy EXCEPT ![p] = cloud] ELSE copy
      /\ UNCHANGED <<other, cloud, asked, crossed, refused, orphaned>>
  BY DEF P!Pull, P!history
<1>2. PagesType
  BY DEF PagesInv
<1>3. cloud \in Stores
  BY <1>1, <1>2 DEF PagesType
<1>4. PagesType'
  <2>1. behind' \in [P!Reader -> SUBSET P!Keys]
    BY <1>1
  <2>2. copy' \in [Page -> {None} \cup Stores]
    BY <1>1, <1>2, <1>3 DEF PagesType
  <2>3. QED
    BY <1>1, <1>2, <1>3, <2>1, <2>2 DEF PagesType
<1>5. \A q \in Page : Current(q)'
  <2> SUFFICES ASSUME NEW q \in Page PROVE Current(q)'
    OBVIOUS
  <2>1. CASE q = p
    <3>1. copy'[q] = store'
      BY <2>1, <1>1, <1>2 DEF PagesType
    <3>2. SameAsStored(q)' /\ KnowsProfiles(q)' /\ LacksOnPurpose(q)'
      BY <3>1 DEF SameAsStored, KnowsProfiles, LacksOnPurpose
    <3>3. QED
      BY <3>2 DEF Current
  <2>2. CASE q # p
    <3>1. behind'[q] = P!Keys
      BY <2>2, <1>1 DEF P!Reader
    <3>2. SameAsStored(q)' /\ KnowsProfiles(q)' /\ LacksOnPurpose(q)'
      BY <3>1, KeysOfItems DEF SameAsStored, KnowsProfiles, LacksOnPurpose
    <3>3. QED
      BY <3>2 DEF Current
  <2>3. QED
    BY <2>1, <2>2
<1>6. \A k \in Others : Reread(k)'
  <2> SUFFICES ASSUME NEW k \in Others PROVE Reread(k)'
    OBVIOUS
  <2>1. behind'[k] = P!Keys
    BY <1>1, Names DEF P!Reader
  <2>2. QED
    BY <2>1, KeysOfItems DEF Reread, P!Items
<1>7. QED
  BY <1>1, <1>4, <1>5, <1>6 DEF PagesInv, Sound, Settled

LEMMA PagesUnchanged ==
    ASSUME PagesInv, UNCHANGED pagesVars
    PROVE  PagesInv'
<1>1. UNCHANGED <<store, copy, behind, other, cloud, asked, crossed, refused, orphaned>>
  BY DEF pagesVars
<1>2. PagesType'
  BY <1>1 DEF PagesInv, PagesType
<1>3. (\A p \in Page : Current(p)') /\ \A k \in Others : Reread(k)'
  BY <1>1 DEF PagesInv, Current, SameAsStored, KnowsProfiles, LacksOnPurpose, Reread
<1>4. QED
  BY <1>1, <1>2, <1>3 DEF PagesInv, Sound, Settled

LEMMA EditingKeeps ==
    ASSUME PagesInv, NEW p \in Page, P!Editing(p)
    PROVE  PagesInv'
  BY EveryEdit, EditKeeps DEF Edited, SoundEdit

LEMMA PagesKeep == ASSUME PagesInv, P!Next PROVE PagesInv'
<1>1. CASE \E p \in Page : P!Load(p) \/ P!Editing(p)
  BY <1>1, LoadKeeps, EditingKeeps
<1>2. CASE \E k \in Others : P!ReadKind(k) \/ \E i \in Item : P!WriteKind(k, i)
  BY <1>2, ReadKindKeeps, WriteKindKeeps
<1>3. CASE P!Push
  BY <1>3, PushKeeps
<1>4. CASE \E p \in Page \cup {None} : P!Pull(p)
  BY <1>4, PullKeeps
<1>5. QED
  BY <1>1, <1>2, <1>3, <1>4 DEF P!Next

\* A step is one of the part's, or leaves its variables alone.
LEMMA PagesSteps ==
    ASSUME [Next]_vars, part = "pages"
    PROVE  part' = part /\ (P!Next \/ UNCHANGED pagesVars)
<1>1. CASE Next
  BY <1>1 DEF Next, CaptchaStep, RecorderStep, AutofillStep, PagesStep
<1>2. CASE UNCHANGED vars
  BY <1>2 DEF vars
<1>3. QED
  BY <1>1, <1>2

LEMMA PartStays == ASSUME [Next]_vars PROVE part' = part
  BY DEF Next, CaptchaStep, RecorderStep, AutofillStep, PagesStep, vars

IfPages == part = "pages" => PagesInv

LEMMA PagesAlways == Spec => []IfPages
<1>1. Init => IfPages
  BY PagesInit DEF Init, IfPages
<1>2. IfPages /\ [Next]_vars => IfPages'
  BY PartStays, PagesSteps, PagesKeep, PagesUnchanged DEF IfPages
<1>3. QED
  BY <1>1, <1>2, PTL DEF Spec

\* No item of the storage is of a profile that is gone, unless a writer was behind or
\* the storage refused an edit (deleteProfile writes every kind of item, and a page
\* that knows of a profile the storage has not is behind on all keys).
THEOREM ItemsHaveProfilesAlways == Spec => []ItemsHaveProfiles
<1>1. IfPages => ItemsHaveProfiles
  BY DEF IfPages, PagesInv, Sound, ItemsHaveProfiles, P!ItemsAreOf, P!Existing
<1>2. QED
  BY <1>1, PagesAlways, PTL

\* The active profile exists unless it was deleted while active, or as above.
THEOREM ActiveProfileExistsAlways == Spec => []ActiveProfileExists
<1>1. IfPages => ActiveProfileExists
  BY DEF IfPages, PagesInv, Settled, ActiveProfileExists, P!Existing
<1>2. QED
  BY <1>1, PagesAlways, PTL

-----------------------------------------------------------------------------
(* How items leave.                                                        *)

\* A page that writes an item away, not behind on its key, was told to.
LEMMA EditedAwayOnPurpose ==
    ASSUME PagesInv, Asks, NEW p \in Page, copy[p] # None, NEW c \in Stores, NEW keys,
           P!Edit(p, c, keys), Takes(p, c, asked'[p]), NEW i \in Item, P!Leaves(i)
    PROVE  crossed' \/ i \in asked'[p]
<1>1. store.items[i] # {} /\ store'.items[i] = {}
  BY DEF P!Leaves
<1>2. store' # store
  BY <1>1
<1>3. Wrote(p, c, keys)
  BY <1>2, EditWrites
<1>4. KindOf[i] \in keys /\ c.items[i] = {}
  BY <1>1, <1>3, MergedParts DEF Wrote
<1>5. ~crossed' => KindOf[i] \notin behind[p]
  BY <1>3, <1>4 DEF Wrote
<1>6. ~crossed' /\ copy[p].items[i] = {} => i \in asked[p]
  BY <1>1, <1>5 DEF PagesInv, Current, LacksOnPurpose
<1>7. QED
  BY <1>4, <1>6 DEF Takes, Asks
LEMMA EditsLeaveOnPurpose ==
    ASSUME PagesInv, NEW p \in Page, P!Editing(p), NEW i \in Item, P!Leaves(i)
    PROVE  crossed' \/ i \in asked'[p]
<1>1. copy[p] # None /\ Asks
  BY EveryEdit DEF Edited
<1>2. PICK c \in Stores, keys \in SUBSET P!Keys :
          P!Edit(p, c, keys) /\ Takes(p, c, asked'[p])
  BY EveryEdit DEF Edited, SoundEdit
<1>3. QED
  BY <1>1, <1>2, EditedAwayOnPurpose

LEMMA WritesLeaveNothing ==
    ASSUME PagesInv, NEW k \in Others, NEW i \in Item, P!WriteKind(k, i),
           NEW j \in Item, P!Leaves(j)
    PROVE  crossed'
<1>1. /\ other[k] # None /\ crossed' = (crossed \/ k \in behind[k])
      /\ store'.items[j] = IF KindOf[j] # k THEN store.items[j]
                           ELSE IF j = i THEN other[k][j] \cup {Global}
                           ELSE other[k][j]
  BY WriteKindParts
<1>2. store.items[j] # {} /\ store'.items[j] = {}
  BY DEF P!Leaves
<1>3. KindOf[j] = k /\ other[k][j] = {}
  BY <1>1, <1>2
<1>4. Reread(k)
  BY DEF PagesInv
<1>5. QED
  BY <1>1, <1>2, <1>3, <1>4 DEF Reread, P!Items

LEMMA StepsLeaveOnPurpose ==
    ASSUME PagesInv, P!Next, NEW i \in Item, P!Leaves(i)
    PROVE  crossed' \/ P!Meant(i)
<1>1. store' # store
  BY DEF P!Leaves
<1>2. CASE \E p \in Page : P!Load(p) \/ P!Editing(p)
  <2>1. PICK p \in Page : P!Editing(p)
    BY <1>1, <1>2 DEF P!Load
  <2>2. crossed' \/ i \in asked'[p]
    BY <2>1, EditsLeaveOnPurpose
  <2>3. QED
    BY <2>2 DEF P!Meant
<1>3. CASE \E k \in Others : P!ReadKind(k) \/ \E j \in Item : P!WriteKind(k, j)
  <2>1. PICK k \in Others, j \in Item : P!WriteKind(k, j)
    BY <1>1, <1>3 DEF P!ReadKind
  <2>2. QED
    BY <2>1, WritesLeaveNothing
<1>4. CASE P!Push
  BY <1>1, <1>4 DEF P!Push
<1>5. CASE \E p \in Page \cup {None} : P!Pull(p)
  BY <1>5 DEF P!Meant
<1>6. QED
  BY <1>2, <1>3, <1>4, <1>5 DEF P!Next

\* An item leaves the storage because a page was told to delete it, or with a pull, or
\* when a writer of its key was behind (an options page writes its whole copy).
THEOREM ItemsLeaveOnPurposeAlways == Spec => ItemsLeaveOnPurpose
<1>1. IfPages /\ [Next]_vars =>
          [part = "pages" => \A i \in Item : P!Leaves(i) => crossed' \/ P!Meant(i)]_vars
  <2> SUFFICES ASSUME IfPages, [Next]_vars, part = "pages", NEW i \in Item, P!Leaves(i)
               PROVE  crossed' \/ P!Meant(i)
    OBVIOUS
  <2>1. PagesInv
    BY DEF IfPages
  <2>2. P!Next \/ UNCHANGED pagesVars
    BY PagesSteps
  <2>3. CASE UNCHANGED pagesVars
    BY <2>3 DEF pagesVars, P!Leaves
  <2>4. QED
    BY <2>1, <2>2, <2>3, StepsLeaveOnPurpose
<1>2. QED
  BY <1>1, PagesAlways, PTL DEF Spec, ItemsLeaveOnPurpose
-----------------------------------------------------------------------------
(* The captcha of a page.                                                  *)

Shown == 1 .. Images
Place == {"idle", "load", "merge", "status", "reading", "asking", "delayed", "waiting", "typing"}
Runs == [at : Place, asks : BOOLEAN, asked : BOOLEAN, got : BOOLEAN \cup {None},
         image : Shown \cup {None}]

CaptchaType ==
    /\ image \in Shown /\ filled \in Shown \cup {None}
    /\ route \in BOOLEAN /\ server \in BOOLEAN /\ cache \in BOOLEAN \cup {None}
    /\ solving \in BOOLEAN /\ doubled \in BOOLEAN
    /\ kept \in {None} \cup [key : {KeyOf[i] : i \in Shown}, answer : Shown]
    /\ call \in [Solve -> Runs]

HasAnswer(r) == r.at \in {"asking", "delayed", "waiting", "typing"} => r.image # None

AtMostOneInside == \A c, d \in Solve : K!Inside(c) /\ K!Inside(d) => c = d

CaptchaInv ==
    /\ CaptchaType
    /\ \A c \in Solve : HasAnswer(call[c])
    /\ ~doubled => /\ K!FlagIsExact /\ AtMostOneInside
                   /\ \A c \in Solve : ~K!Buying(c)

\* The records a run is given.
LEMMA RunFields ==
    ASSUME NEW r \in Runs, NEW x \in Place, NEW v \in Shown \cup {None}, NEW b \in BOOLEAN,
           NEW g \in BOOLEAN \cup {None}
    PROVE  /\ [r EXCEPT !.at = x] \in Runs /\ [r EXCEPT !.at = x].at = x
           /\ [r EXCEPT !.at = x].image = r.image
           /\ [r EXCEPT !.at = x, !.image = v] \in Runs
           /\ [r EXCEPT !.at = x, !.image = v].at = x
           /\ [r EXCEPT !.at = x, !.image = v].image = v
           /\ [r EXCEPT !.at = x, !.asks = b] \in Runs
           /\ [r EXCEPT !.at = x, !.asks = b].at = x
           /\ [r EXCEPT !.at = x, !.got = g] \in Runs
           /\ [r EXCEPT !.at = x, !.got = g].at = x
           /\ [r EXCEPT !.at = x, !.asked = b, !.got = g] \in Runs
           /\ [r EXCEPT !.at = x, !.asked = b, !.got = g].at = x
           /\ [r EXCEPT !.at = x, !.asked = b, !.got = g].asked = b
  BY DEF Runs

LEMMA RestIsRun == K!Rest \in Runs /\ K!Rest.at = "idle"
  BY DEF K!Rest, Runs, Place

LEMMA CaptchaInit == K!Init => CaptchaInv
<1> SUFFICES ASSUME K!Init PROVE CaptchaInv
  OBVIOUS
<1>1. PICK s \in Solve : call = [d \in Solve |-> IF d = s THEN [K!Rest EXCEPT !.at = "load"] ELSE K!Rest]
  BY DEF K!Init
<1>2. [K!Rest EXCEPT !.at = "load"] \in Runs /\ [K!Rest EXCEPT !.at = "load"].at = "load"
  <2>1. PICK r : r = K!Rest
    OBVIOUS
  <2>2. r \in Runs
    BY <2>1, RestIsRun
  <2>3. "load" \in Place
    BY DEF Place
  <2>4. [r EXCEPT !.at = "load"] \in Runs /\ [r EXCEPT !.at = "load"].at = "load"
    BY <2>2, <2>3 DEF Runs
  <2>5. QED
    BY <2>1, <2>4
<1>3. call \in [Solve -> Runs] /\ \A c \in Solve : call[c].at \in {"idle", "load"}
  BY <1>1, <1>2, RestIsRun
<1>4. 1 \in Shown
  BY Bounds DEF Shown
<1>5. CaptchaType
  BY <1>3, <1>4 DEF K!Init, CaptchaType
<1>6. \A c \in Solve : HasAnswer(call[c])
  BY <1>3 DEF HasAnswer
<1>7. \A c \in Solve : ~K!Inside(c)
  BY <1>3 DEF K!Inside
<1>8. K!FlagIsExact /\ AtMostOneInside /\ \A c \in Solve : ~K!Buying(c)
  BY <1>7 DEF K!Init, K!FlagIsExact, AtMostOneInside, K!Buying
<1>9. QED
  BY <1>5, <1>6, <1>8 DEF CaptchaInv

\* What stays of the type when a run moves.
Around == /\ image' \in Shown /\ filled' \in Shown \cup {None}
          /\ route' \in BOOLEAN /\ server' \in BOOLEAN /\ cache' \in BOOLEAN \cup {None}
          /\ kept' \in {None} \cup [key : {KeyOf[i] : i \in Shown}, answer : Shown]
          /\ solving' \in BOOLEAN /\ doubled' \in BOOLEAN

InsidePlace(x) == x \in {"reading", "asking", "delayed", "waiting", "typing"}

\* One run moves: outside, past the flag, further inside, or out.
LEMMA OneRunMoves ==
    ASSUME CaptchaInv, Around, NEW c \in Solve, NEW r \in Runs, HasAnswer(r),
           call' = [call EXCEPT ![c] = r],
           doubled => doubled',
           r.at # "asking",
           kept' # None /\ kept' # kept => K!Inside(c),
           \/ /\ ~K!Inside(c) /\ ~InsidePlace(r.at) /\ solving' = solving
           \/ /\ ~K!Inside(c) /\ InsidePlace(r.at) /\ solving' = TRUE
              /\ doubled' = (doubled \/ \E d \in Solve \ {c} : K!Inside(d))
           \/ /\ K!Inside(c) /\ InsidePlace(r.at) /\ solving' = solving
           \/ /\ K!Inside(c) /\ ~InsidePlace(r.at) /\ solving' = FALSE
    PROVE  CaptchaInv'
<1>1. call \in [Solve -> Runs]
  BY DEF CaptchaInv, CaptchaType
<1>2. call' \in [Solve -> Runs] /\ call'[c] = r /\ \A d \in Solve \ {c} : call'[d] = call[d]
  BY <1>1
<1>3. CaptchaType'
  BY <1>2 DEF CaptchaType, Around
<1>4. \A d \in Solve : HasAnswer(call'[d])
  BY <1>2 DEF CaptchaInv
<1>5. ASSUME ~doubled' PROVE K!FlagIsExact' /\ AtMostOneInside' /\ \A d \in Solve : ~K!Buying(d)'
  <2>1. ~doubled /\ K!FlagIsExact /\ AtMostOneInside /\ (\A d \in Solve : ~K!Buying(d))
        /\ solving \in BOOLEAN
    BY <1>5 DEF CaptchaInv, CaptchaType
  <2>2. K!FlagIsExact' /\ AtMostOneInside'
    BY <1>2, <1>5, <2>1 DEF K!FlagIsExact, AtMostOneInside, K!Inside, InsidePlace
  <2>3. \A d \in Solve : ~K!Buying(d)'
    <3> SUFFICES ASSUME NEW d \in Solve, K!Buying(d)' PROVE FALSE
      OBVIOUS
    <3>1. d # c /\ call'[d] = call[d] /\ K!Inside(d)
      BY <1>2 DEF K!Buying, K!At, K!Inside
    <3>2. ~K!Inside(c)
      BY <2>1, <3>1 DEF AtMostOneInside
    <3>3. kept' = kept
      BY <3>2 DEF K!Buying
    <3>4. QED
      BY <2>1, <3>1, <3>3 DEF K!Buying, K!At
  <2>4. QED
    BY <2>2, <2>3
<1>6. QED
  BY <1>3, <1>4, <1>5 DEF CaptchaInv

\* A run asks the server for an image it has no answer to.
LEMMA OneRunAsks ==
    ASSUME CaptchaInv, Around, NEW c \in Solve, NEW r \in Runs, HasAnswer(r),
           call' = [call EXCEPT ![c] = r], K!Inside(c), r.at = "asking",
           solving' = solving, doubled' = doubled, kept' = kept,
           kept = None \/ kept.key # KeyOf[r.image]
    PROVE  CaptchaInv'
<1>1. call \in [Solve -> Runs]
  BY DEF CaptchaInv, CaptchaType
<1>2. call' \in [Solve -> Runs] /\ call'[c] = r /\ \A d \in Solve \ {c} : call'[d] = call[d]
  BY <1>1
<1>3. CaptchaType'
  BY <1>2 DEF CaptchaType, Around
<1>4. \A d \in Solve : HasAnswer(call'[d])
  BY <1>2 DEF CaptchaInv
<1>5. ASSUME ~doubled' PROVE K!FlagIsExact' /\ AtMostOneInside' /\ \A d \in Solve : ~K!Buying(d)'
  <2>1. ~doubled /\ K!FlagIsExact /\ AtMostOneInside /\ (\A d \in Solve : ~K!Buying(d))
    BY <1>5 DEF CaptchaInv
  <2>2. K!FlagIsExact' /\ AtMostOneInside'
    BY <1>2, <2>1 DEF K!FlagIsExact, AtMostOneInside, K!Inside
  <2>3. \A d \in Solve : ~K!Buying(d)'
    BY <1>2, <2>1 DEF K!Buying, K!At
  <2>4. QED
    BY <2>2, <2>3
<1>6. QED
  BY <1>3, <1>4, <1>5 DEF CaptchaInv

\* Steps in which no run moves.
LEMMA NoRunMoves ==
    ASSUME CaptchaInv, Around, UNCHANGED <<call, kept, solving, doubled>>
    PROVE  CaptchaInv'
<1>1. CaptchaType' /\ \A c \in Solve : HasAnswer(call'[c])
  BY DEF CaptchaInv, CaptchaType, Around
<1>2. ~doubled' => K!FlagIsExact' /\ AtMostOneInside' /\ \A c \in Solve : ~K!Buying(c)'
  BY DEF CaptchaInv, K!FlagIsExact, AtMostOneInside, K!Buying, K!Inside, K!At
<1>3. QED
  BY <1>1, <1>2 DEF CaptchaInv
LEMMA CallOf ==
    ASSUME CaptchaInv, NEW c \in Solve
    PROVE  call[c] \in Runs /\ HasAnswer(call[c]) /\ call[c].image \in Shown \cup {None}
  BY DEF CaptchaInv, CaptchaType, Runs

\* A run that goes to another place and keeps the rest.
LEMMA RunGoes ==
    ASSUME CaptchaInv, NEW c \in Solve, NEW x \in Place, K!Goes(c, x),
           HasAnswer([call[c] EXCEPT !.at = x])
    PROVE  \E r \in Runs : HasAnswer(r) /\ r.at = x /\ r.image = call[c].image
                           /\ call' = [call EXCEPT ![c] = r]
<1>1. PICK s \in Runs : s = call[c]
  BY CallOf
<1>2. [s EXCEPT !.at = x] \in Runs /\ [s EXCEPT !.at = x].at = x /\ [s EXCEPT !.at = x].image = s.image
  BY <1>1 DEF Runs
<1>3. call' = [call EXCEPT ![c] = [s EXCEPT !.at = x]]
  BY <1>1 DEF K!Goes
<1>4. QED
  BY <1>1, <1>2, <1>3

LEMMA RunRests ==
    ASSUME NEW c \in Solve, K!Rests(c)
    PROVE  \E r \in Runs : HasAnswer(r) /\ r.at = "idle" /\ call' = [call EXCEPT ![c] = r]
<1>1. K!Rest \in Runs /\ K!Rest.at = "idle"
  BY RestIsRun
<1>2. HasAnswer(K!Rest)
  BY <1>1 DEF HasAnswer
<1>3. QED
  BY <1>1, <1>2 DEF K!Rests

\* The type of what a step leaves alone.
LEMMA AroundStays ==
    ASSUME CaptchaInv
    PROVE  /\ UNCHANGED image => image' \in Shown
           /\ UNCHANGED filled => filled' \in Shown \cup {None}
           /\ UNCHANGED <<route, server>> => route' \in BOOLEAN /\ server' \in BOOLEAN
           /\ UNCHANGED cache => cache' \in BOOLEAN \cup {None}
           /\ UNCHANGED kept => kept' \in {None} \cup [key : {KeyOf[i] : i \in Shown}, answer : Shown]
           /\ UNCHANGED solving => solving' \in BOOLEAN
           /\ UNCHANGED doubled => doubled' \in BOOLEAN
  BY DEF CaptchaInv, CaptchaType

\* What Enter does.
Enters(c) == \E r \in Runs :
    /\ r.at = "reading" /\ r.asked = (call[c].at = "status")
    /\ call' = [call EXCEPT ![c] = r] /\ solving' = TRUE
    /\ doubled' = (doubled \/ \E d \in Solve \ {c} : K!Inside(d))

LEMMA RunEnters ==
    ASSUME CaptchaInv, NEW c \in Solve, K!Enter(c)
    PROVE  Enters(c)
<1>1. PICK s \in Runs : s = call[c]
  BY CallOf
<1>2. PICK b \in BOOLEAN : b = K!At(c, "status")
  BY DEF K!At
<1>3. [s EXCEPT !.at = "reading", !.asked = b, !.got = None] \in Runs
      /\ [s EXCEPT !.at = "reading", !.asked = b, !.got = None].at = "reading"
      /\ [s EXCEPT !.at = "reading", !.asked = b, !.got = None].asked = b
  <2>1. "reading" \in Place
    BY DEF Place
  <2>2. QED
    BY <2>1 DEF Runs
<1>4. call' = [call EXCEPT ![c] = [s EXCEPT !.at = "reading", !.asked = b, !.got = None]]
  BY <1>1, <1>2 DEF K!Enter
<1>5. solving' = TRUE /\ doubled' = (doubled \/ \E d \in Solve \ {c} : K!Inside(d))
  BY DEF K!Enter
<1>6. b = (call[c].at = "status")
  BY <1>2 DEF K!At
<1>7. QED
  BY <1>3, <1>4, <1>5, <1>6 DEF Enters

LEMMA EnterKeeps ==
    ASSUME CaptchaInv, NEW c \in Solve, ~K!Inside(c), Enters(c),
           image' \in Shown /\ filled' \in Shown \cup {None} /\ kept' = kept,
           route' \in BOOLEAN /\ server' \in BOOLEAN /\ cache' \in BOOLEAN \cup {None}
    PROVE  CaptchaInv'
<1>1. PICK r \in Runs : r.at = "reading" /\ call' = [call EXCEPT ![c] = r] /\ solving' = TRUE
                        /\ doubled' = (doubled \/ \E d \in Solve \ {c} : K!Inside(d))
  BY DEF Enters
<1>2. Around
  <2>1. doubled' \in BOOLEAN
    BY <1>1 DEF CaptchaInv, CaptchaType
  <2>2. kept' \in {None} \cup [key : {KeyOf[i] : i \in Shown}, answer : Shown]
    BY AroundStays
  <2>3. QED
    BY <1>1, <2>1, <2>2 DEF Around
<1>3. HasAnswer(r) /\ InsidePlace(r.at) /\ r.at # "asking" /\ (doubled => doubled')
  BY <1>1 DEF HasAnswer, InsidePlace
<1>4. QED
  BY <1>1, <1>2, <1>3, OneRunMoves

\* A run outside goes to another place outside.
LEMMA OutsideKeeps ==
    ASSUME CaptchaInv, NEW c \in Solve, ~K!Inside(c), NEW r \in Runs, HasAnswer(r),
           ~InsidePlace(r.at), call' = [call EXCEPT ![c] = r],
           UNCHANGED <<solving, doubled>>,
           image' \in Shown /\ filled' \in Shown \cup {None} /\ (kept' = kept \/ kept' = None),
           route' \in BOOLEAN /\ server' \in BOOLEAN /\ cache' \in BOOLEAN \cup {None}
    PROVE  CaptchaInv'
<1>1. Around
  BY AroundStays DEF Around
<1>2. r.at # "asking"
  BY DEF InsidePlace
<1>3. QED
  BY <1>1, <1>2, OneRunMoves

\* Proceed: the run rests, asks for the route's status, or goes past the flag.
Proceeds(c) ==
    \/ ~solving /\ Enters(c)
    \/ /\ \E r \in Runs : HasAnswer(r) /\ ~InsidePlace(r.at) /\ call' = [call EXCEPT ![c] = r]
       /\ UNCHANGED <<solving, doubled>>

LEMMA ProceedCases ==
    ASSUME CaptchaInv, NEW c \in Solve, NEW a, K!Proceed(c, a)
    PROVE  Proceeds(c)
<1>1. CASE K!Enter(c) /\ ~solving
  BY <1>1, RunEnters DEF Proceeds
<1>2. CASE K!Goes(c, "status") /\ UNCHANGED <<solving, doubled>>
  <2>1. "status" \in Place /\ HasAnswer([call[c] EXCEPT !.at = "status"])
    <3>1. PICK s \in Runs : s = call[c]
      BY CallOf
    <3>2. [s EXCEPT !.at = "status"].at = "status"
      BY DEF Runs
    <3>3. HasAnswer([s EXCEPT !.at = "status"])
      BY <3>2 DEF HasAnswer
    <3>4. QED
      BY <3>1, <3>3 DEF Place
  <2>2. \E r \in Runs : HasAnswer(r) /\ r.at = "status" /\ call' = [call EXCEPT ![c] = r]
    BY <1>2, <2>1, RunGoes
  <2>3. QED
    BY <1>2, <2>2 DEF Proceeds, InsidePlace
<1>3. CASE K!Rests(c) /\ UNCHANGED <<solving, doubled>>
  BY <1>3, RunRests DEF Proceeds, InsidePlace
<1>4. QED
  BY <1>1, <1>2, <1>3 DEF K!Proceed, K!Try

LEMMA ProceedKeeps ==
    ASSUME CaptchaInv, NEW c \in Solve, ~K!Inside(c), Proceeds(c),
           UNCHANGED <<image, filled, route, server, kept>>, cache' \in BOOLEAN \cup {None}
    PROVE  CaptchaInv'
<1>1. image' \in Shown /\ filled' \in Shown \cup {None} /\ route' \in BOOLEAN /\ server' \in BOOLEAN
  BY AroundStays
<1>2. CASE Enters(c)
  BY <1>1, <1>2, EnterKeeps
<1>3. CASE /\ \E r \in Runs : HasAnswer(r) /\ ~InsidePlace(r.at) /\ call' = [call EXCEPT ![c] = r]
           /\ UNCHANGED <<solving, doubled>>
  BY <1>1, <1>3, OutsideKeeps
<1>4. QED
  BY <1>2, <1>3 DEF Proceeds
\* Every way out clears the flag.
LEMMA LeaveKeeps ==
    ASSUME CaptchaInv, NEW c \in Solve, K!Inside(c), K!Leave(c), UNCHANGED doubled,
           UNCHANGED <<image, route, server, cache, kept>>, filled' \in Shown \cup {None}
    PROVE  CaptchaInv'
<1>1. K!Rests(c) /\ solving' = FALSE
  BY DEF K!Leave
<1>2. PICK r \in Runs : HasAnswer(r) /\ r.at = "idle" /\ call' = [call EXCEPT ![c] = r]
  BY <1>1, RunRests
<1>3. Around
  BY <1>1, AroundStays DEF Around
<1>4. ~InsidePlace(r.at) /\ r.at # "asking"
  BY <1>2 DEF InsidePlace
<1>5. QED
  BY <1>1, <1>2, <1>3, <1>4, OneRunMoves

\* A run goes further; what is kept may change.
LEMMA FurtherKeeps ==
    ASSUME CaptchaInv, NEW c \in Solve, K!Inside(c), NEW r \in Runs, HasAnswer(r),
           r.at \in {"delayed", "waiting", "typing"}, call' = [call EXCEPT ![c] = r],
           UNCHANGED <<image, route, server, cache, filled, solving, doubled>>,
           kept' \in {None} \cup [key : {KeyOf[i] : i \in Shown}, answer : Shown]
    PROVE  CaptchaInv'
<1>1. Around
  BY AroundStays DEF Around
<1>2. InsidePlace(r.at) /\ r.at # "asking"
  BY DEF InsidePlace
<1>3. QED
  BY <1>1, <1>2, OneRunMoves

LEMMA ScanKeeps == ASSUME CaptchaInv, NEW c \in Solve, K!Scan(c) PROVE CaptchaInv'
<1>1. ~K!Inside(c) /\ UNCHANGED <<image, filled, route, server, kept, cache>>
  BY DEF K!Scan, K!At, K!Inside, K!page, K!target, K!site
<1>2. cache' \in BOOLEAN \cup {None}
  BY <1>1, AroundStays
<1>3. CASE K!Goes(c, "load") /\ UNCHANGED <<solving, doubled>>
  <2>1. "load" \in Place /\ HasAnswer([call[c] EXCEPT !.at = "load"])
    <3>1. PICK s \in Runs : s = call[c]
      BY CallOf
    <3>2. HasAnswer([s EXCEPT !.at = "load"])
      BY DEF Runs, HasAnswer
    <3>3. QED
      BY <3>1, <3>2 DEF Place
  <2>2. PICK r \in Runs : HasAnswer(r) /\ r.at = "load" /\ call' = [call EXCEPT ![c] = r]
    BY <1>3, <2>1, RunGoes
  <2>3. Proceeds(c)
    BY <1>3, <2>2 DEF Proceeds, InsidePlace
  <2>4. QED
    BY <1>1, <1>2, <2>3, ProceedKeeps
<1>4. CASE K!Proceed(c, cache)
  <2>1. Proceeds(c)
    BY <1>4, ProceedCases
  <2>2. QED
    BY <1>1, <1>2, <2>1, ProceedKeeps
<1>5. QED
  BY <1>3, <1>4 DEF K!Scan

LEMMA CommandKeeps == ASSUME CaptchaInv, NEW c \in Solve, K!Command(c) PROVE CaptchaInv'
<1>1. ~K!Inside(c) /\ UNCHANGED <<image, filled, route, server, kept, cache, solving, doubled>>
  BY DEF K!Command, K!At, K!Inside, K!page, K!target, K!site, K!memory
<1>2. PICK s \in Runs : s = call[c]
  BY CallOf
<1>3. call' = [call EXCEPT ![c] = [s EXCEPT !.at = "load", !.asks = TRUE]]
  BY <1>2 DEF K!Command
<1>4. [s EXCEPT !.at = "load", !.asks = TRUE] \in Runs
      /\ HasAnswer([s EXCEPT !.at = "load", !.asks = TRUE])
      /\ ~InsidePlace([s EXCEPT !.at = "load", !.asks = TRUE].at)
  BY DEF Runs, HasAnswer, InsidePlace, Place
<1>5. Proceeds(c)
  BY <1>1, <1>3, <1>4 DEF Proceeds
<1>6. QED
  BY <1>1, <1>5, AroundStays, ProceedKeeps

LEMMA ReadRouteKeeps == ASSUME CaptchaInv, NEW c \in Solve, K!ReadRoute(c) PROVE CaptchaInv'
<1>1. ~K!Inside(c) /\ UNCHANGED <<image, filled, route, server, kept, cache, solving, doubled>>
  BY DEF K!ReadRoute, K!At, K!Inside, K!page, K!target, K!site, K!memory
<1>2. PICK s \in Runs : s = call[c]
  BY CallOf
<1>3. call' = [call EXCEPT ![c] = [s EXCEPT !.at = "merge", !.got = route]]
  BY <1>2 DEF K!ReadRoute
<1>4. route \in BOOLEAN
  BY DEF CaptchaInv, CaptchaType
<1>5. [s EXCEPT !.at = "merge", !.got = route] \in Runs
      /\ HasAnswer([s EXCEPT !.at = "merge", !.got = route])
      /\ ~InsidePlace([s EXCEPT !.at = "merge", !.got = route].at)
  BY <1>4 DEF Runs, HasAnswer, InsidePlace, Place
<1>6. Proceeds(c)
  BY <1>1, <1>3, <1>5 DEF Proceeds
<1>7. QED
  BY <1>1, <1>6, AroundStays, ProceedKeeps

LEMMA MergeRoutesKeeps == ASSUME CaptchaInv, NEW c \in Solve, K!MergeRoutes(c) PROVE CaptchaInv'
<1>1. ~K!Inside(c) /\ UNCHANGED <<image, filled, route, server, kept>>
  BY DEF K!MergeRoutes, K!At, K!Inside, K!page, K!target, K!site
<1>2. cache' \in BOOLEAN \cup {None}
  BY DEF K!MergeRoutes
<1>3. PICK a : a = cache'
  OBVIOUS
<1>4. K!Proceed(c, a)
  BY <1>3 DEF K!MergeRoutes
<1>5. Proceeds(c)
  BY <1>4, ProceedCases
<1>6. QED
  BY <1>1, <1>2, <1>5, ProceedKeeps

LEMMA StatusArrivesKeeps == ASSUME CaptchaInv, NEW c \in Solve, K!StatusArrives(c) PROVE CaptchaInv'
<1>1. ~K!Inside(c) /\ UNCHANGED <<image, filled, route, server, kept, cache>>
  BY DEF K!StatusArrives, K!At, K!Inside, K!page, K!target, K!site
<1>2. CASE K!Enter(c)
  BY <1>1, <1>2, RunEnters, EnterKeeps, AroundStays
<1>3. CASE K!Rests(c) /\ UNCHANGED <<solving, doubled>>
  <2>1. Proceeds(c)
    BY <1>3, RunRests DEF Proceeds, InsidePlace
  <2>2. QED
    BY <1>1, <2>1, AroundStays, ProceedKeeps
<1>4. QED
  BY <1>2, <1>3 DEF K!StatusArrives

LEMMA ReadImageKeeps == ASSUME CaptchaInv, NEW c \in Solve, K!ReadImage(c) PROVE CaptchaInv'
<1>1. K!Inside(c) /\ UNCHANGED <<image, filled, route, server, kept, cache, doubled>>
  BY DEF K!ReadImage, K!At, K!Inside, K!page, K!target, K!site
<1>2. PICK s \in Runs : s = call[c]
  BY CallOf
<1>3. image \in Shown /\ None \notin Shown
  BY Names DEF CaptchaInv, CaptchaType, Shown
<1>4. CASE /\ kept = None \/ kept.key # KeyOf[image]
           /\ call' = [call EXCEPT ![c].at = "asking", ![c].image = image] /\ UNCHANGED solving
  <2>1. PICK r : r = [s EXCEPT !.at = "asking", !.image = image]
    OBVIOUS
  <2>2. r \in Runs /\ r.at = "asking" /\ r.image = image
    BY <1>3, <2>1 DEF Runs, Place
  <2>3. call' = [call EXCEPT ![c] = r] /\ HasAnswer(r)
    BY <1>2, <1>3, <1>4, <2>1, <2>2 DEF HasAnswer
  <2>4. Around
    BY <1>1, <1>4, AroundStays DEF Around
  <2>5. QED
    BY <1>1, <1>4, <2>2, <2>3, <2>4, OneRunAsks
<1>5. CASE K!Leave(c)
  BY <1>1, <1>5, LeaveKeeps, AroundStays
<1>6. CASE /\ ~(kept = None \/ kept.key # KeyOf[image])
           /\ call' = [call EXCEPT ![c].at = "delayed", ![c].image = kept.answer] /\ UNCHANGED solving
  <2>1. kept.answer \in Shown
    BY <1>6 DEF CaptchaInv, CaptchaType
  <2>2. PICK r : r = [s EXCEPT !.at = "delayed", !.image = kept.answer]
    OBVIOUS
  <2>3. r \in Runs /\ r.at = "delayed" /\ r.image = kept.answer
    BY <2>1, <2>2 DEF Runs, Place
  <2>4. call' = [call EXCEPT ![c] = r] /\ HasAnswer(r)
    BY <1>2, <1>3, <1>6, <2>1, <2>2, <2>3 DEF HasAnswer
  <2>5. kept' \in {None} \cup [key : {KeyOf[i] : i \in Shown}, answer : Shown]
    BY <1>1, AroundStays
  <2>6. QED
    BY <1>1, <1>6, <2>3, <2>4, <2>5, FurtherKeeps
<1>7. QED
  BY <1>4, <1>5, <1>6 DEF K!ReadImage
LEMMA ServerSolvesKeeps == ASSUME CaptchaInv, NEW c \in Solve, K!ServerSolves(c) PROVE CaptchaInv'
<1>1. K!Inside(c) /\ UNCHANGED <<image, filled, route, server, cache, solving, doubled>>
  BY DEF K!ServerSolves, K!At, K!Inside, K!page, K!target, K!site
<1>2. call[c].at = "asking" /\ K!Goes(c, "delayed")
      /\ kept' = [key |-> KeyOf[call[c].image], answer |-> call[c].image]
  BY DEF K!ServerSolves, K!At
<1>3. call[c].image \in Shown
  BY <1>2, CallOf DEF HasAnswer
<1>4. kept' \in {None} \cup [key : {KeyOf[i] : i \in Shown}, answer : Shown]
  BY <1>2, <1>3
<1>5. "delayed" \in Place /\ HasAnswer([call[c] EXCEPT !.at = "delayed"])
  <2>1. PICK s \in Runs : s = call[c]
    BY CallOf
  <2>2. HasAnswer([s EXCEPT !.at = "delayed"])
    BY <1>3, <2>1, Names DEF Runs, HasAnswer, Shown
  <2>3. QED
    BY <2>1, <2>2 DEF Place
<1>6. PICK r \in Runs : HasAnswer(r) /\ r.at = "delayed" /\ call' = [call EXCEPT ![c] = r]
  BY <1>2, <1>5, RunGoes
<1>7. QED
  BY <1>1, <1>4, <1>6, FurtherKeeps

LEMMA SolveFailsKeeps == ASSUME CaptchaInv, NEW c \in Solve, K!SolveFails(c) PROVE CaptchaInv'
<1>1. K!Inside(c) /\ K!Leave(c) /\ UNCHANGED <<image, filled, route, server, cache, kept, doubled>>
  BY DEF K!SolveFails, K!Inside, K!page, K!target, K!site
<1>2. QED
  BY <1>1, LeaveKeeps, AroundStays

\* A run past the answer goes on with it.
LEMMA GoesOnWithAnswer ==
    ASSUME CaptchaInv, NEW c \in Solve, call[c].at \in {"delayed", "waiting"},
           NEW x \in {"waiting", "typing"}, K!Goes(c, x),
           UNCHANGED <<image, route, server, cache, filled, kept, solving, doubled>>
    PROVE  CaptchaInv'
<1>1. x \in Place /\ HasAnswer([call[c] EXCEPT !.at = x])
  <2>1. PICK s \in Runs : s = call[c] /\ HasAnswer(s)
    BY CallOf
  <2>2. HasAnswer([s EXCEPT !.at = x])
    BY <2>1 DEF Runs, HasAnswer
  <2>3. QED
    BY <2>1, <2>2 DEF Place
<1>2. PICK r \in Runs : HasAnswer(r) /\ r.at = x /\ call' = [call EXCEPT ![c] = r]
  BY <1>1, RunGoes
<1>3. kept' \in {None} \cup [key : {KeyOf[i] : i \in Shown}, answer : Shown]
  BY AroundStays
<1>4. K!Inside(c)
  BY DEF K!Inside
<1>5. QED
  BY <1>2, <1>3, <1>4, FurtherKeeps

LEMMA DelayPassesKeeps == ASSUME CaptchaInv, NEW c \in Solve, K!DelayPasses(c) PROVE CaptchaInv'
  BY GoesOnWithAnswer DEF K!DelayPasses, K!At, K!page, K!target, K!site, K!memory

LEMMA RefuseToFillKeeps == ASSUME CaptchaInv, NEW c \in Solve, K!RefuseToFill(c) PROVE CaptchaInv'
<1>1. K!Inside(c) /\ K!Leave(c) /\ UNCHANGED <<image, filled, route, server, cache, kept, doubled>>
  BY DEF K!RefuseToFill, K!At, K!Inside, K!page, K!target, K!site
<1>2. QED
  BY <1>1, LeaveKeeps, AroundStays

LEMMA GivesUpWaitingKeeps == ASSUME CaptchaInv, NEW c \in Solve, K!GivesUpWaiting(c) PROVE CaptchaInv'
<1>1. K!Inside(c) /\ K!Leave(c) /\ UNCHANGED <<image, filled, route, server, cache, kept, doubled>>
  BY DEF K!GivesUpWaiting, K!At, K!Inside, K!page, K!target, K!site
<1>2. QED
  BY <1>1, LeaveKeeps, AroundStays

LEMMA FillFieldKeeps == ASSUME CaptchaInv, NEW c \in Solve, K!FillField(c) PROVE CaptchaInv'
<1>1. call[c].at = "waiting" /\ K!Inside(c)
      /\ UNCHANGED <<image, route, server, cache, kept, doubled>>
  BY DEF K!FillField, K!At, K!Inside, K!page, K!site
<1>2. CASE K!Goes(c, "typing") /\ UNCHANGED <<filled, solving>>
  BY <1>1, <1>2, GoesOnWithAnswer
<1>3. CASE filled' = call[c].image /\ K!Leave(c)
  <2>1. filled' \in Shown \cup {None}
    BY <1>3, CallOf
  <2>2. QED
    BY <1>1, <1>3, <2>1, LeaveKeeps
<1>4. QED
  BY <1>2, <1>3 DEF K!FillField

LEMMA FinishTypingKeeps == ASSUME CaptchaInv, NEW c \in Solve, K!FinishTyping(c) PROVE CaptchaInv'
<1>1. K!Inside(c) /\ K!Leave(c) /\ filled' = call[c].image
      /\ UNCHANGED <<image, route, server, cache, kept, doubled>>
  BY DEF K!FinishTyping, K!At, K!Inside, K!page, K!site
<1>2. filled' \in Shown \cup {None}
  BY <1>1, CallOf
<1>3. QED
  BY <1>1, <1>2, LeaveKeeps

LEMMA ConfigUpdatedKeeps == ASSUME CaptchaInv, NEW c \in Solve, K!ConfigUpdated(c) PROVE CaptchaInv'
<1>1. /\ ~K!Inside(c) /\ K!Goes(c, "load") /\ UNCHANGED <<image, filled, server, solving, doubled>>
      /\ route' \in BOOLEAN /\ cache' = None /\ kept' = None
  BY DEF K!ConfigUpdated, K!At, K!Inside, K!page, K!target
<1>2. "load" \in Place /\ HasAnswer([call[c] EXCEPT !.at = "load"])
  <2>1. PICK s \in Runs : s = call[c]
    BY CallOf
  <2>2. HasAnswer([s EXCEPT !.at = "load"])
    BY DEF Runs, HasAnswer
  <2>3. QED
    BY <2>1, <2>2 DEF Place
<1>3. PICK r \in Runs : HasAnswer(r) /\ r.at = "load" /\ call' = [call EXCEPT ![c] = r]
  BY <1>1, <1>2, RunGoes
<1>4. server' \in BOOLEAN /\ image' \in Shown /\ filled' \in Shown \cup {None}
  BY <1>1 DEF CaptchaInv, CaptchaType
<1>5. ~InsidePlace(r.at)
  BY <1>3 DEF InsidePlace
<1>6. QED
  BY <1>1, <1>3, <1>4, <1>5, OutsideKeeps

LEMMA AroundThePage ==
    ASSUME CaptchaInv, K!NewImage \/ K!UserActs \/ K!ServerApproves
    PROVE  CaptchaInv'
<1>1. UNCHANGED <<filled, route, cache, kept, solving, call, doubled>>
  BY DEF K!NewImage, K!UserActs, K!ServerApproves, K!page, K!target, K!site, K!memory
<1>2. image' \in Shown /\ server' \in BOOLEAN
  <2>1. image \in Shown /\ server \in BOOLEAN
    BY DEF CaptchaInv, CaptchaType
  <2>2. CASE K!NewImage
    <3>1. image < Images /\ image' = image + 1 /\ server' = server
      BY <2>2 DEF K!NewImage, K!site
    <3>2. QED
      BY <3>1, <2>1, Bounds DEF Shown
  <2>3. CASE K!UserActs \/ K!ServerApproves
    BY <2>1, <2>3 DEF K!UserActs, K!ServerApproves, K!page, K!site
  <2>4. QED
    BY <2>2, <2>3
<1>3. Around
  BY <1>1, <1>2 DEF Around, CaptchaInv, CaptchaType
<1>4. QED
  BY <1>1, <1>3, NoRunMoves

LEMMA CaptchaKeeps == ASSUME CaptchaInv, K!Next PROVE CaptchaInv'
<1>1. ASSUME NEW c \in Solve, K!Continue(c) PROVE CaptchaInv'
  BY <1>1, ReadRouteKeeps, MergeRoutesKeeps, StatusArrivesKeeps, ReadImageKeeps,
     ServerSolvesKeeps, DelayPassesKeeps, RefuseToFillKeeps, GivesUpWaitingKeeps,
     FillFieldKeeps, FinishTypingKeeps DEF K!Continue
<1>2. ASSUME NEW c \in Solve, K!SolveFails(c) \/ K!Scan(c) \/ K!Command(c) \/ K!ConfigUpdated(c)
      PROVE  CaptchaInv'
  BY <1>2, SolveFailsKeeps, ScanKeeps, CommandKeeps, ConfigUpdatedKeeps
<1>3. QED
  BY <1>1, <1>2, AroundThePage DEF K!Next

LEMMA CaptchaUnchanged == ASSUME CaptchaInv, UNCHANGED captchaVars PROVE CaptchaInv'
<1>1. UNCHANGED <<image, filled, route, server, cache, kept, solving, call, doubled>>
  BY DEF captchaVars
<1>2. Around
  BY <1>1 DEF Around, CaptchaInv, CaptchaType
<1>3. QED
  BY <1>1, <1>2, NoRunMoves

LEMMA CaptchaSteps ==
    ASSUME [Next]_vars, part = "captcha"
    PROVE  part' = part /\ (K!Next \/ UNCHANGED captchaVars)
<1>1. CASE Next
  BY <1>1 DEF Next, CaptchaStep, RecorderStep, AutofillStep, PagesStep
<1>2. CASE UNCHANGED vars
  BY <1>2 DEF vars
<1>3. QED
  BY <1>1, <1>2

IfCaptcha == part = "captcha" => CaptchaInv

LEMMA CaptchaAlways == Spec => []IfCaptcha
<1>1. Init => IfCaptcha
  BY CaptchaInit DEF Init, IfCaptcha
<1>2. IfCaptcha /\ [Next]_vars => IfCaptcha'
  BY PartStays, CaptchaSteps, CaptchaKeeps, CaptchaUnchanged DEF IfCaptcha
<1>3. QED
  BY <1>1, <1>2, PTL DEF Spec

\* While two runs have not been past the flag at once, no run asks the server for an
\* image whose answer is kept: a run reads the image and looks up the answer in one
\* step, and what is kept changes only by the run inside.
THEOREM NoAnswerBoughtTwice == Spec => []AnswersAreNotBoughtTwice
<1>1. IfCaptcha => AnswersAreNotBoughtTwice
  BY DEF IfCaptcha, CaptchaInv, AnswersAreNotBoughtTwice
<1>2. QED
  BY <1>1, CaptchaAlways, PTL
-----------------------------------------------------------------------------
(* What the captcha's steps may not do.                                    *)

\* Only a run that has asked for the route's status passes a flag that is set.
LEMMA ProceedsAlone ==
    ASSUME CaptchaInv, NEW c \in Solve, NEW a, K!Proceed(c, a), ~doubled
    PROVE  ~doubled'
<1>1. CASE ~solving /\ Enters(c)
  <2>1. \A d \in Solve : ~K!Inside(d)
    BY <1>1 DEF CaptchaInv, K!FlagIsExact
  <2>2. QED
    BY <1>1, <2>1 DEF Enters
<1>2. CASE doubled' = doubled
  BY <1>2
<1>3. QED
  BY <1>1, <1>2, ProceedCases DEF Proceeds

LEMMA DoublingStep ==
    ASSUME CaptchaInv, K!Next, ~doubled, doubled'
    PROVE  \E c \in Solve : K!Inside(c)' /\ call'[c].asked
<1>1. doubled' # doubled
  OBVIOUS
<1>2. PICK c \in Solve : K!Scan(c) \/ K!MergeRoutes(c) \/ K!StatusArrives(c)
  BY <1>1 DEF K!Next, K!Continue, K!ReadRoute, K!ReadImage, K!ServerSolves, K!DelayPasses,
     K!RefuseToFill, K!GivesUpWaiting, K!FillField, K!FinishTyping, K!SolveFails, K!Command,
     K!ConfigUpdated, K!NewImage, K!UserActs, K!ServerApproves
<1>3. ~K!Scan(c)
  <2>1. \A a : ~K!Proceed(c, a)
    BY ProceedsAlone
  <2>2. QED
    BY <1>1, <2>1 DEF K!Scan
<1>4. ~K!MergeRoutes(c)
  <2>1. PICK a : a = cache'
    OBVIOUS
  <2>2. ~K!Proceed(c, a)
    BY ProceedsAlone
  <2>3. QED
    BY <2>1, <2>2 DEF K!MergeRoutes
<1>5. K!Enter(c) /\ call[c].at = "status"
  BY <1>1, <1>2, <1>3, <1>4 DEF K!StatusArrives, K!At
<1>6. PICK r \in Runs : r.at = "reading" /\ r.asked = TRUE /\ call' = [call EXCEPT ![c] = r]
  BY <1>5, RunEnters DEF Enters
<1>7. call'[c] = r
  BY <1>6 DEF CaptchaInv, CaptchaType
<1>8. QED
  BY <1>6, <1>7 DEF K!Inside

\* Two runs are past the flag at once only when one of them has awaited the route's
\* status in between (solve tests the flag before that await and not after it); until
\* then the flag is set exactly while a run is past it.
THEOREM OneSolveAtATimeAlways == Spec => OneSolveAtATime
<1>1. IfCaptcha /\ IfCaptcha' /\ [Next]_vars =>
          [part = "captcha" =>
              /\ ~doubled /\ doubled' => \E c \in Solve : K!Inside(c)' /\ call'[c].asked
              /\ ~doubled' => K!FlagIsExact']_vars
  <2> SUFFICES ASSUME IfCaptcha, IfCaptcha', [Next]_vars, part = "captcha"
               PROVE  /\ ~doubled /\ doubled' => \E c \in Solve : K!Inside(c)' /\ call'[c].asked
                      /\ ~doubled' => K!FlagIsExact'
    OBVIOUS
  <2>1. CaptchaInv /\ CaptchaInv' /\ (K!Next \/ UNCHANGED captchaVars)
    BY CaptchaSteps DEF IfCaptcha
  <2>2. UNCHANGED captchaVars => doubled' = doubled
    BY DEF captchaVars
  <2>3. ~doubled' => K!FlagIsExact'
    BY <2>1 DEF CaptchaInv
  <2>4. QED
    BY <2>1, <2>2, <2>3, DoublingStep
<1>2. QED
  BY <1>1, CaptchaAlways, PTL DEF Spec, OneSolveAtATime

LEMMA UserTextStays ==
    ASSUME CaptchaInv, K!Next, field = User, field' \notin {User, Empty}
    PROVE  K!Typing
<1>1. PICK c \in Solve : K!FillField(c) \/ K!FinishTyping(c)
  BY DEF K!Next, K!Continue, K!ReadRoute, K!ReadImage, K!ServerSolves, K!DelayPasses,
     K!RefuseToFill, K!GivesUpWaiting, K!SolveFails, K!Command, K!Scan, K!MergeRoutes,
     K!StatusArrives, K!ConfigUpdated, K!NewImage, K!UserActs, K!ServerApproves, K!target
<1>2. ~K!FillField(c)
  <2> SUFFICES ASSUME K!FillField(c) PROVE FALSE
    OBVIOUS
  <2>1. call[c].at = "waiting" /\ ~K!Manual(call[c].image)
    BY DEF K!FillField, K!At
  <2>2. call[c].image \in Shown \cup {None} /\ filled \in Shown \cup {None}
    BY CallOf DEF CaptchaInv, CaptchaType
  <2>3. QED
    BY <2>1, <2>2, Names DEF K!Manual, Shown
<1>3. QED
  BY <1>1, <1>2 DEF K!FinishTyping, K!Typing

\* What the user has written in the field, a step of a run writes over only as one
\* that is typing already: fillField looks at the field after all its waiting.
THEOREM ManualInputStaysAlways == Spec => ManualInputStays
<1>1. IfCaptcha /\ [Next]_vars =>
          [part = "captcha" /\ field = User /\ field' \notin {User, Empty} => K!Typing]_vars
  <2> SUFFICES ASSUME IfCaptcha, [Next]_vars, part = "captcha", field = User,
                      field' \notin {User, Empty}
               PROVE  K!Typing
    OBVIOUS
  <2>1. CaptchaInv /\ (K!Next \/ UNCHANGED captchaVars)
    BY CaptchaSteps DEF IfCaptcha
  <2>2. UNCHANGED captchaVars => field' = field
    BY DEF captchaVars
  <2>3. QED
    BY <2>1, <2>2, UserTextStays
<1>2. QED
  BY <1>1, CaptchaAlways, PTL DEF Spec, ManualInputStays
-----------------------------------------------------------------------------
(* The recorder.                                                           *)

Session == [id : R!Sessions, steps : Steps, paused : BOOLEAN]
RuleSet == [R!Sessions -> Steps]
Message == [at : {"idle", "sent", "read", "kept", "failed"}, id : Nat, steps : Steps,
            saw : {None} \cup RuleSet, heard : BOOLEAN]

RecorderType ==
    /\ session \in {None} \cup Session /\ stored \in {None} \cup Session
    /\ recording \in BOOLEAN
    /\ saves \in [Save -> Message]
    /\ rules \in RuleSet
    /\ captured \in [steps : Nat, sessions : Nat]
    /\ acts \in Nat /\ captured.sessions =< acts /\ acts =< MaxActs

\* The session of a page that records is in sessionStorage, and no other is.
Active ==
    /\ recording => session # None /\ stored = session
    /\ ~recording => stored = None
    /\ session # None => session.id =< captured.sessions

Numbers(q) == {q[i].n : i \in DOMAIN q}

\* The session and a message that is on its way differ in excused steps only; two
\* messages at once carry nothing else.
Carried(m) ==
    /\ R!InFlight(m) =>
          /\ saves[m].id \in 1 .. captured.sessions
          /\ R!StepsOf(saves[m]) \subseteq R!StepsOf(session) \cup excused
          /\ R!StepsOf(session) \subseteq R!StepsOf(saves[m]) \cup excused
          /\ \A o \in Save \ {m} : R!InFlight(o) => R!StepsOf(saves[m]) \subseteq excused
          /\ saves[m].at = "kept" =>
                R!StepsOf(saves[m]) \subseteq Numbers(rules[saves[m].id]) \cup excused
    /\ ~R!InFlight(m) => R!StepsOf(saves[m]) = {}

\* What rules hold of a session's steps, the session or its message still has.
Older(f) ==
    /\ \A s \in R!Sessions : s > captured.sessions => Numbers(f[s]) = {}
    /\ session # None => Numbers(f[session.id]) \subseteq R!StepsOf(session) \cup excused
    /\ \A m \in Save : R!InFlight(m) =>
          Numbers(f[saves[m].id]) \subseteq R!StepsOf(saves[m]) \cup excused

\* What the worker has read is what is stored, but for excused steps.
SameRules(f, g) ==
    \A s \in R!Sessions : /\ Numbers(f[s]) \subseteq Numbers(g[s]) \cup excused
                          /\ Numbers(g[s]) \subseteq Numbers(f[s]) \cup excused

Read(m) ==
    saves[m].at = "read" =>
        saves[m].saw \in RuleSet /\ Older(saves[m].saw) /\ SameRules(rules, saves[m].saw)

Found == 1 .. captured.steps \subseteq R!Kept \cup excused

RecorderInv ==
    /\ RecorderType /\ Active /\ Older(rules)
    /\ \A m \in Save : Carried(m) /\ Read(m)
    /\ Found

Step == [n : Nat, target : Target]

\* The numbers of the steps of what is captured into and removed from a recording.
LEMMA NumbersEmpty == Numbers(<<>>) = {}
  BY DEF Numbers

LEMMA NumbersOf ==
    ASSUME NEW q \in Steps
    PROVE  \A x : x \in Numbers(q) <=> \E i \in 1 .. Len(q) : x = q[i].n
  BY DEF Steps, Numbers

LEMMA NumbersAppend ==
    ASSUME NEW q \in Steps, NEW e \in Step
    PROVE  Append(q, e) \in Steps /\ Numbers(Append(q, e)) = Numbers(q) \cup {e.n}
<1>1. Append(q, e) \in Steps /\ Len(q) \in Nat /\ Len(Append(q, e)) = Len(q) + 1
      /\ \A i \in 1 .. Len(q) : Append(q, e)[i] = q[i]
      /\ Append(q, e)[Len(q) + 1] = e
  BY DEF Steps, Step
<1>2. \A i \in 1 .. Len(q) + 1 : i \in 1 .. Len(q) \/ i = Len(q) + 1
  BY <1>1
<1>3. PICK r \in Steps : r = Append(q, e)
  BY <1>1
<1>4. DOMAIN r = 1 .. Len(q) + 1 /\ DOMAIN q = 1 .. Len(q)
  BY <1>1, <1>3, LenProperties DEF Steps
<1>5. r[Len(q) + 1] = e /\ Len(q) + 1 \in 1 .. Len(q) + 1
      /\ \A i \in 1 .. Len(q) : r[i] = q[i] /\ i \in 1 .. Len(q) + 1
  BY <1>1, <1>3
<1>6. Numbers(r) \subseteq Numbers(q) \cup {e.n}
  BY <1>2, <1>4, <1>5 DEF Numbers
<1>7. Numbers(q) \subseteq Numbers(r) /\ e.n \in Numbers(r)
  BY <1>4, <1>5 DEF Numbers
<1>8. QED
  BY <1>3, <1>6, <1>7

LEMMA NumbersReplaced ==
    ASSUME NEW q \in Steps, NEW k \in 1 .. Len(q), NEW e \in Step
    PROVE  /\ [q EXCEPT ![k] = e] \in Steps
           /\ Numbers([q EXCEPT ![k] = e]) \subseteq Numbers(q) \cup {e.n}
           /\ Numbers(q) \subseteq Numbers([q EXCEPT ![k] = e]) \cup {q[k].n}
           /\ e.n \in Numbers([q EXCEPT ![k] = e])
<1>1. PICK r : r = [q EXCEPT ![k] = e]
  OBVIOUS
<1>2. r \in Steps /\ Len(r) = Len(q) /\ \A j \in 1 .. Len(q) : r[j] = IF j = k THEN e ELSE q[j]
  BY <1>1, ExceptSeq DEF Steps, Step
<1>3. (\A x : x \in Numbers(r) <=> \E i \in 1 .. Len(q) : x = r[i].n)
      /\ (\A x : x \in Numbers(q) <=> \E i \in 1 .. Len(q) : x = q[i].n)
  BY <1>2, NumbersOf
<1>4. Numbers(r) \subseteq Numbers(q) \cup {e.n}
  BY <1>2, <1>3
<1>5. Numbers(q) \subseteq Numbers(r) \cup {q[k].n}
  BY <1>2, <1>3
<1>6. e.n \in Numbers(r)
  BY <1>2, <1>3
<1>7. QED
  BY <1>1, <1>2, <1>4, <1>5, <1>6

LEMMA NumbersRemoved ==
    ASSUME NEW q \in Steps, NEW k \in 1 .. Len(q)
    PROVE  LET r == SubSeq(q, 1, k - 1) \o SubSeq(q, k + 1, Len(q))
           IN /\ r \in Steps
              /\ Numbers(r) \subseteq Numbers(q)
              /\ Numbers(q) \subseteq Numbers(r) \cup {q[k].n}
<1>1. Len(q) \in Nat /\ k \in Nat /\ k >= 1 /\ k =< Len(q)
      /\ \A i \in 1 .. Len(q) : q[i] \in Step
  <2>1. q \in Seq(Step)
    BY DEF Steps, Step
  <2>2. Len(q) \in Nat /\ \A i \in 1 .. Len(q) : q[i] \in Step
    BY <2>1, LenProperties, ElementOfSeq
  <2>3. QED
    BY <2>2
<1>2. PICK a : a = SubSeq(q, 1, k - 1)
  OBVIOUS
<1>3. PICK b : b = SubSeq(q, k + 1, Len(q))
  OBVIOUS
<1>4. a \in Seq(Step) /\ Len(a) = k - 1 /\ \A i \in 1 .. k - 1 : a[i] = q[i]
  <2>1. \A i \in 1 .. k - 1 : q[i] \in Step
    BY <1>1
  <2>2. 1 \in Int /\ k - 1 \in Int
    BY <1>1
  <2>3. /\ SubSeq(q, 1, k - 1) \in Seq(Step)
        /\ Len(SubSeq(q, 1, k - 1)) = IF 1 <= k - 1 THEN k - 1 - 1 + 1 ELSE 0
        /\ \A i \in 1 .. k - 1 - 1 + 1 : SubSeq(q, 1, k - 1)[i] = q[1 + i - 1]
    BY <2>1, <2>2, SubSeqProperties
  <2>4. QED
    BY <1>1, <1>2, <2>3
<1>5. b \in Seq(Step) /\ Len(b) = Len(q) - k /\ \A i \in 1 .. Len(q) - k : b[i] = q[k + i]
  <2>1. \A i \in k + 1 .. Len(q) : q[i] \in Step
    BY <1>1
  <2>2. k + 1 \in Int /\ Len(q) \in Int
    BY <1>1
  <2>3. /\ SubSeq(q, k + 1, Len(q)) \in Seq(Step)
        /\ Len(SubSeq(q, k + 1, Len(q))) = IF k + 1 <= Len(q) THEN Len(q) - (k + 1) + 1 ELSE 0
        /\ \A i \in 1 .. Len(q) - (k + 1) + 1 : SubSeq(q, k + 1, Len(q))[i] = q[k + 1 + i - 1]
    BY <2>1, <2>2, SubSeqProperties
  <2>4. QED
    BY <1>1, <1>3, <2>3
<1>6. PICK r : r = a \o b
  OBVIOUS
<1>7. /\ r \in Seq(Step) /\ Len(r) = Len(q) - 1
      /\ \A i \in 1 .. Len(q) - 1 : r[i] = IF i <= k - 1 THEN q[i] ELSE q[i + 1]
  <2>1. /\ r \in Seq(Step) /\ Len(r) = Len(a) + Len(b)
        /\ \A i \in 1 .. Len(a) + Len(b) : r[i] = IF i <= Len(a) THEN a[i] ELSE b[i - Len(a)]
    BY <1>4, <1>5, <1>6, ConcatProperties
  <2>2. Len(a) + Len(b) = Len(q) - 1
    BY <1>1, <1>4, <1>5
  <2>3. ASSUME NEW i \in 1 .. Len(q) - 1
        PROVE  r[i] = IF i <= k - 1 THEN q[i] ELSE q[i + 1]
    <3>1. CASE i <= k - 1
      BY <3>1, <1>1, <1>4, <2>1, <2>2
    <3>2. CASE i > k - 1
      <4>1. i - (k - 1) \in 1 .. Len(q) - k /\ k + (i - (k - 1)) = i + 1
        BY <3>2, <1>1
      <4>2. r[i] = b[i - (k - 1)]
        BY <3>2, <1>1, <1>4, <2>1, <2>2
      <4>3. b[i - (k - 1)] = q[k + (i - (k - 1))]
        BY <4>1, <1>5
      <4>4. QED
        BY <3>2, <1>1, <4>1, <4>2, <4>3
    <3>3. QED
      BY <1>1, <3>1, <3>2
  <2>4. QED
    BY <2>1, <2>2, <2>3
<1>8. r \in Steps /\ DOMAIN r = 1 .. Len(q) - 1 /\ DOMAIN q = 1 .. Len(q)
  BY <1>7 DEF Steps, Step
<1>9. Numbers(r) \subseteq Numbers(q)
  <2> SUFFICES ASSUME NEW i \in 1 .. Len(q) - 1 PROVE \E j \in 1 .. Len(q) : r[i].n = q[j].n
    BY <1>8 DEF Numbers
  <2>1. CASE i <= k - 1
    BY <2>1, <1>1, <1>7
  <2>2. CASE i > k - 1
    <3>1. i + 1 \in 1 .. Len(q) /\ r[i] = q[i + 1]
      BY <2>2, <1>1, <1>7
    <3>2. QED
      BY <3>1
  <2>3. QED
    BY <1>1, <2>1, <2>2
<1>10. Numbers(q) \subseteq Numbers(r) \cup {q[k].n}
  <2> SUFFICES ASSUME NEW j \in 1 .. Len(q), j # k
               PROVE  \E i \in 1 .. Len(q) - 1 : q[j].n = r[i].n
    BY <1>8 DEF Numbers
  <2>1. CASE j < k
    <3>1. j \in 1 .. Len(q) - 1 /\ j <= k - 1
      BY <2>1, <1>1
    <3>2. r[j] = q[j]
      BY <3>1, <1>7
    <3>3. QED
      BY <3>1, <3>2
  <2>2. CASE j > k
    <3>1. j - 1 \in 1 .. Len(q) - 1 /\ ~(j - 1 <= k - 1) /\ j - 1 + 1 = j
      BY <2>2, <1>1
    <3>2. r[j - 1] = q[j]
      BY <3>1, <1>7
    <3>3. QED
      BY <3>1, <3>2
  <2>3. QED
    BY <1>1, <2>1, <2>2
<1>11. r = SubSeq(q, 1, k - 1) \o SubSeq(q, k + 1, Len(q))
  BY <1>2, <1>3, <1>6
<1>12. QED
  BY <1>8, <1>9, <1>10, <1>11
LEMMA SessionSteps ==
    /\ R!StepsOf(None) = {}
    /\ \A s \in Session : s # None /\ R!StepsOf(s) = Numbers(s.steps)
<1>1. \A s \in Session : s \in [id : Nat, steps : Steps, paused : BOOLEAN]
  BY Bounds DEF Session, R!Sessions
<1>2. QED
  BY <1>1, Names DEF R!StepsOf, Numbers

LEMMA MessageSteps ==
    \A s \in Message : s # None /\ R!StepsOf(s) = Numbers(s.steps)
<1>1. None \notin Message
  BY Names DEF Message, RuleSet, R!Sessions
<1>2. QED
  BY <1>1 DEF R!StepsOf, Numbers

LEMMA UnsentIsMessage ==
    /\ R!Unsent \in Message /\ R!Unsent.at = "idle" /\ R!StepsOf(R!Unsent) = {}
<1>1. <<>> \in Steps
  BY DEF Steps
<1>2. R!Unsent \in Message /\ R!Unsent.at = "idle" /\ R!Unsent.steps = <<>>
  BY <1>1 DEF R!Unsent, Message
<1>3. QED
  BY <1>2, MessageSteps, NumbersEmpty

LEMMA RecorderInit == R!Init => RecorderInv
<1> SUFFICES ASSUME R!Init PROVE RecorderInv
  OBVIOUS
<1>1. /\ session = None /\ stored = None /\ recording = FALSE
      /\ saves = [m \in Save |-> R!Unsent]
      /\ rules = [s \in R!Sessions |-> <<>>]
      /\ captured = [steps |-> 0, sessions |-> 0]
      /\ excused = {} /\ acts = 0
  BY DEF R!Init
<1>2. <<>> \in Steps
  BY DEF Steps
<1>3. RecorderType
  <2>1. saves \in [Save -> Message] /\ rules \in RuleSet
    BY <1>1, <1>2, UnsentIsMessage DEF RuleSet
  <2>2. captured \in [steps : Nat, sessions : Nat] /\ captured.sessions = 0
        /\ 0 \in Nat /\ 0 =< 0 /\ 0 =< MaxActs
    BY <1>1, Bounds
  <2>3. QED
    BY <1>1, <2>1, <2>2 DEF RecorderType
<1>4. Active
  BY <1>1 DEF Active
<1>5. \A m \in Save : ~R!InFlight(m) /\ R!StepsOf(saves[m]) = {} /\ saves[m].at = "idle"
  BY <1>1, UnsentIsMessage DEF R!InFlight
<1>6. Older(rules)
  BY <1>1, <1>5, NumbersEmpty DEF Older
<1>7. \A m \in Save : Carried(m) /\ Read(m)
  BY <1>5 DEF Carried, Read
<1>8. Found
  BY <1>1 DEF Found
<1>9. QED
  BY <1>3, <1>4, <1>6, <1>7, <1>8 DEF RecorderInv

\* Where a step can be found.
LEMMA WhatIsKept ==
    ASSUME NEW x
    PROVE  x \in R!Kept <=> \/ x \in R!StepsOf(session) \/ x \in R!StepsOf(stored)
                            \/ \E m \in Save : x \in R!StepsOf(saves[m])
                            \/ \E s \in R!Sessions : x \in Numbers(rules[s])
  BY DEF R!Kept, Numbers

\* The session changes: what it loses is excused, and so is what it gains while a
\* message is on its way; or it is a new one.
SessionChanges ==
    /\ RecorderType' /\ Active' /\ excused \subseteq excused' /\ rules' = rules
    /\ \A m \in Save : /\ saves'[m].at = saves[m].at /\ saves'[m].id = saves[m].id
                       /\ saves'[m].steps = saves[m].steps /\ saves'[m].saw = saves[m].saw
    /\ captured'.sessions >= captured.sessions
    /\ session' # None => \/ session # None /\ session'.id = session.id
                          \/ session'.id > captured.sessions
    /\ R!StepsOf(session) \subseteq R!StepsOf(session') \cup excused'
    /\ R!Saving => R!StepsOf(session') \subseteq R!StepsOf(session) \cup excused'
    /\ 1 .. captured'.steps \subseteq (1 .. captured.steps) \cup R!StepsOf(session') \cup excused'

LEMMA MessagesStay ==
    ASSUME RecorderInv, SessionChanges
    PROVE  \A m \in Save : /\ R!StepsOf(saves'[m]) = R!StepsOf(saves[m])
                           /\ R!InFlight(m)' <=> R!InFlight(m)
<1>1. \A m \in Save : saves[m] \in Message /\ saves'[m] \in Message
  BY DEF RecorderInv, SessionChanges, RecorderType
<1>2. QED
  BY <1>1, MessageSteps DEF SessionChanges, R!InFlight

LEMMA OlderStays ==
    ASSUME RecorderInv, SessionChanges, NEW f \in RuleSet, Older(f)
    PROVE  Older(f)'
<1>1. captured.sessions \in Nat /\ captured'.sessions \in Nat
      /\ captured'.sessions >= captured.sessions /\ excused \subseteq excused'
  BY DEF RecorderInv, SessionChanges, RecorderType
<1>2. session' # None => session' \in Session /\ session'.id \in R!Sessions /\ session'.id \in Nat
  BY Bounds DEF SessionChanges, RecorderType, Session, R!Sessions
<1>3. \A s \in R!Sessions : s \in Nat
  BY Bounds DEF R!Sessions
<1>4. \A s \in R!Sessions : s > captured'.sessions => Numbers(f[s]) = {}
  BY <1>1, <1>3 DEF Older
<1>5. session' # None => Numbers(f[session'.id]) \subseteq R!StepsOf(session') \cup excused'
  <2> SUFFICES ASSUME session' # None
               PROVE  Numbers(f[session'.id]) \subseteq R!StepsOf(session') \cup excused'
    OBVIOUS
  <2>1. CASE session # None /\ session'.id = session.id
    <3>1. Numbers(f[session'.id]) \subseteq R!StepsOf(session) \cup excused
      BY <2>1 DEF Older
    <3>2. QED
      BY <3>1, <1>1 DEF SessionChanges
  <2>2. CASE session'.id > captured.sessions
    BY <2>2, <1>2 DEF Older
  <2>3. QED
    BY <2>1, <2>2 DEF SessionChanges
<1>6. \A m \in Save : R!InFlight(m)' =>
          Numbers(f[saves'[m].id]) \subseteq R!StepsOf(saves'[m]) \cup excused'
  BY <1>1, MessagesStay DEF Older, SessionChanges
<1>7. QED
  BY <1>4, <1>5, <1>6 DEF Older

LEMMA SessionChangeKeeps ==
    ASSUME RecorderInv, SessionChanges
    PROVE  RecorderInv'
<1>1. /\ RecorderType' /\ Active' /\ excused \subseteq excused' /\ rules' = rules
      /\ captured.sessions \in Nat /\ captured'.sessions \in Nat
      /\ captured'.sessions >= captured.sessions
      /\ rules \in RuleSet
  BY DEF RecorderInv, SessionChanges, RecorderType
<1>2. Older(rules)'
  <2>1. PICK f \in RuleSet : f = rules
    BY <1>1
  <2>2. Older(f)'
    BY <2>1, OlderStays DEF RecorderInv
  <2>3. rules' = f
    BY <2>1, <1>1
  <2>4. QED
    BY <2>2, <2>3 DEF Older
<1>3. ASSUME NEW m \in Save PROVE Carried(m)'
  <2>1. R!StepsOf(saves'[m]) = R!StepsOf(saves[m]) /\ (R!InFlight(m)' <=> R!InFlight(m))
        /\ \A o \in Save : R!InFlight(o)' <=> R!InFlight(o)
    BY MessagesStay
  <2>2. Carried(m) /\ saves'[m].at = saves[m].at /\ saves'[m].id = saves[m].id
    BY DEF RecorderInv, SessionChanges
  <2>3. R!StepsOf(session) \subseteq R!StepsOf(session') \cup excused'
    BY DEF SessionChanges
  <2>4. R!InFlight(m) => R!StepsOf(session') \subseteq R!StepsOf(session) \cup excused'
    BY DEF SessionChanges, R!Saving
  <2>5. R!InFlight(m) => saves[m].id \in 1 .. captured'.sessions
    BY <1>1, <2>2 DEF Carried
  <2>6. QED
    BY <1>1, <2>1, <2>2, <2>3, <2>4, <2>5 DEF Carried
<1>4. ASSUME NEW m \in Save PROVE Read(m)'
  <2>1. Read(m) /\ saves'[m].at = saves[m].at /\ saves'[m].saw = saves[m].saw
    BY DEF RecorderInv, SessionChanges
  <2> SUFFICES ASSUME saves[m].at = "read"
               PROVE  saves'[m].saw \in RuleSet /\ Older(saves[m].saw)' /\ SameRules(rules, saves[m].saw)'
    BY <2>1 DEF Read
  <2>2. PICK f \in RuleSet : f = saves[m].saw /\ Older(f) /\ SameRules(rules, f)
    BY <2>1 DEF Read
  <2>3. Older(f)' /\ f = saves'[m].saw
    BY <2>1, <2>2, OlderStays
  <2>4. Older(saves[m].saw)'
    BY <2>3 DEF Older
  <2>5. SameRules(rules, saves[m].saw)'
    BY <1>1, <2>2, <2>3 DEF SameRules
  <2>6. QED
    BY <2>2, <2>3, <2>4, <2>5
<1>5. Found'
  <2> SUFFICES ASSUME NEW x \in 1 .. captured'.steps, x \notin excused' PROVE x \in R!Kept'
    BY DEF Found
  <2>1. CASE x \in R!StepsOf(session')
    BY <2>1 DEF R!Kept
  <2>2. CASE x \in 1 .. captured.steps
    <3>1. x \in R!Kept
      BY <2>2, <1>1 DEF RecorderInv, Found
    <3>2. CASE x \in R!StepsOf(session)
      BY <3>2, <2>1 DEF SessionChanges
    <3>3. CASE x \in R!StepsOf(stored)
      <4>1. stored = session \/ stored = None
        BY DEF RecorderInv, Active, RecorderType
      <4>2. QED
        BY <3>2, <3>3, <4>1, SessionSteps
    <3>4. CASE \E m \in Save : x \in R!StepsOf(saves[m])
      <4>1. \E m \in Save : x \in R!StepsOf(saves'[m])
        BY <3>4, MessagesStay
      <4>2. QED
        BY <4>1 DEF R!Kept
    <3>5. CASE \E s \in R!Sessions : x \in Numbers(rules[s])
      BY <3>5, <1>1 DEF R!Kept, Numbers
    <3>6. QED
      BY <3>1, <3>2, <3>3, <3>4, <3>5, WhatIsKept
  <2>3. QED
    BY <2>1, <2>2 DEF SessionChanges
<1>6. QED
  BY <1>1, <1>2, <1>3, <1>4, <1>5 DEF RecorderInv
-----------------------------------------------------------------------------
(* The steps that change the session.                                      *)

ActsGo == UNCHANGED acts \/ R!Happens

LEMMA ActsStayBounded ==
    ASSUME RecorderInv, ActsGo
    PROVE  /\ acts' \in Nat /\ acts' =< MaxActs /\ acts' >= acts
           /\ captured.sessions \in Nat /\ captured.sessions =< acts'
<1>1. acts \in Nat /\ acts =< MaxActs /\ captured.sessions \in Nat /\ captured.sessions =< acts
  BY DEF RecorderInv, RecorderType
<1>2. acts' = acts \/ (acts < MaxActs /\ acts' = acts + 1)
  BY DEF ActsGo, R!Happens
<1>3. QED
  BY <1>1, <1>2, Bounds

\* The session of a page goes on with other steps, or paused.
LEMMA SessionEdited ==
    ASSUME RecorderInv, ActsGo, session # None, NEW s \in Session, s.id = session.id,
           session' = s, stored' = (IF recording' THEN s ELSE None), recording' \in BOOLEAN,
           UNCHANGED <<saves, rules>>,
           captured' \in [steps : Nat, sessions : Nat], captured'.sessions = captured.sessions,
           excused \subseteq excused',
           R!StepsOf(session) \subseteq R!StepsOf(s) \cup excused',
           R!Saving => R!StepsOf(s) \subseteq R!StepsOf(session) \cup excused',
           1 .. captured'.steps \subseteq (1 .. captured.steps) \cup R!StepsOf(s) \cup excused'
    PROVE  RecorderInv'
<1>1. RecorderType /\ Active
  BY DEF RecorderInv
<1>2. RecorderType'
  BY <1>1, ActsStayBounded DEF RecorderType
<1>3. s # None
  BY SessionSteps
<1>4. Active'
  BY <1>1, <1>3 DEF Active
<1>5. captured'.sessions >= captured.sessions
  BY <1>1 DEF RecorderType
<1>6. SessionChanges
  BY <1>2, <1>4, <1>5 DEF SessionChanges
<1>7. QED
  BY <1>6, SessionChangeKeeps

\* There is no session any more.
LEMMA SessionEnds ==
    ASSUME RecorderInv, ActsGo, session' = None, stored' = None, recording' = FALSE,
           UNCHANGED <<rules, captured>>, saves' \in [Save -> Message],
           \A m \in Save : /\ saves'[m].at = saves[m].at /\ saves'[m].id = saves[m].id
                           /\ saves'[m].steps = saves[m].steps /\ saves'[m].saw = saves[m].saw,
           excused \subseteq excused', R!StepsOf(session) \subseteq excused'
    PROVE  RecorderInv'
<1>1. RecorderType /\ Active
  BY DEF RecorderInv
<1>2. RecorderType'
  BY <1>1, ActsStayBounded DEF RecorderType
<1>3. Active'
  BY DEF Active
<1>4. captured'.sessions >= captured.sessions
  BY <1>1 DEF RecorderType
<1>5. R!StepsOf(session') = {}
  BY SessionSteps
<1>6. SessionChanges
  BY <1>2, <1>3, <1>4, <1>5 DEF SessionChanges
<1>7. QED
  BY <1>6, SessionChangeKeeps

LEMMA SessionOf ==
    ASSUME RecorderInv, session # None
    PROVE  session \in Session /\ session.steps \in Steps
           /\ R!StepsOf(session) = Numbers(session.steps)
  BY SessionSteps DEF RecorderInv, RecorderType, Session

LEMMA SessionWith ==
    ASSUME NEW s \in Session, NEW q \in Steps
    PROVE  /\ [s EXCEPT !.steps = q] \in Session /\ [s EXCEPT !.steps = q].id = s.id
           /\ R!StepsOf([s EXCEPT !.steps = q]) = Numbers(q)
<1>1. [s EXCEPT !.steps = q] \in Session /\ [s EXCEPT !.steps = q].id = s.id
      /\ [s EXCEPT !.steps = q].steps = q
  BY DEF Session
<1>2. QED
  BY <1>1, SessionSteps

LEMMA CaptureKeeps ==
    ASSUME RecorderInv, NEW t \in Target, R!Capture(t)
    PROVE  RecorderInv'
<1>1. recording /\ captured' = [captured EXCEPT !.steps = @ + 1]
      /\ UNCHANGED <<recording, saves, rules, acts>>
  BY DEF R!Capture
<1>2. RecorderType /\ Active
  BY DEF RecorderInv
<1>3. session # None
  BY <1>1, <1>2 DEF Active
<1>4. session \in Session /\ session.steps \in Steps /\ R!StepsOf(session) = Numbers(session.steps)
  BY <1>3, SessionOf
<1>5. PICK n : n = captured.steps + 1
  OBVIOUS
<1>6. captured' \in [steps : Nat, sessions : Nat] /\ captured'.sessions = captured.sessions
      /\ captured'.steps = n /\ n \in Nat /\ 1 .. n = (1 .. captured.steps) \cup {n}
  BY <1>1, <1>2, <1>5 DEF RecorderType
<1>7. PICK q : q = session.steps
  OBVIOUS
<1>8. PICK e : e = [n |-> n, target |-> t]
  OBVIOUS
<1>9. q \in Steps /\ e \in Step /\ e.n = n
  BY <1>4, <1>6, <1>7, <1>8 DEF Step
<1>10. PICK again : again = (t # Button /\ q # <<>> /\ q[Len(q)].target = t)
  OBVIOUS
<1>11. PICK r : r = IF again THEN [q EXCEPT ![Len(q)] = e] ELSE Append(q, e)
  OBVIOUS
<1>12. R!Render([session EXCEPT !.steps = r])
       /\ excused' = excused \cup (IF again THEN {q[Len(q)].n} ELSE {})
                             \cup (IF R!Saving THEN {n} ELSE {})
  BY <1>6, <1>7, <1>8, <1>9, <1>10, <1>11 DEF R!Capture
<1>13. /\ r \in Steps
       /\ Numbers(r) \subseteq Numbers(q) \cup {n}
       /\ Numbers(q) \subseteq Numbers(r) \cup (IF again THEN {q[Len(q)].n} ELSE {})
       /\ n \in Numbers(r)
  <2>1. CASE again
    <3>1. q \in Seq(Step) /\ q # <<>>
      BY <2>1, <1>9, <1>10 DEF Steps, Step
    <3>2. Len(q) \in Nat \ {0}
      BY <3>1, EmptySeq
    <3>3. Len(q) \in 1 .. Len(q)
      BY <3>2
    <3>4. QED
      BY <2>1, <3>3, <1>9, <1>11, NumbersReplaced
  <2>2. CASE ~again
    BY <2>2, <1>9, <1>11, NumbersAppend
  <2>3. QED
    BY <2>1, <2>2
<1>14. PICK s : s = [session EXCEPT !.steps = r]
  OBVIOUS
<1>15. s \in Session /\ s.id = session.id /\ R!StepsOf(s) = Numbers(r)
  <2>1. PICK u \in Session : u = session
    BY <1>4
  <2>2. s = [u EXCEPT !.steps = r]
    BY <1>14, <2>1
  <2>3. QED
    BY <2>1, <2>2, <1>13, SessionWith
<1>16. session' = s /\ stored' = IF recording' THEN s ELSE None
  BY <1>1, <1>12, <1>14 DEF R!Render, R!Persist
<1>17. ActsGo /\ excused \subseteq excused'
  BY <1>1, <1>12 DEF ActsGo
<1>18. R!StepsOf(session) \subseteq R!StepsOf(s) \cup excused'
  BY <1>4, <1>7, <1>12, <1>13, <1>15
<1>19. R!Saving => R!StepsOf(s) \subseteq R!StepsOf(session) \cup excused'
  BY <1>4, <1>7, <1>12, <1>13, <1>15
<1>20. 1 .. captured'.steps \subseteq (1 .. captured.steps) \cup R!StepsOf(s) \cup excused'
  BY <1>6, <1>13, <1>15
<1>21. recording' \in BOOLEAN /\ UNCHANGED <<saves, rules>>
  BY <1>1, <1>2 DEF RecorderType
<1>22. QED
  BY <1>3, <1>6, <1>15, <1>16, <1>17, <1>18, <1>19, <1>20, <1>21, SessionEdited

\* The session keeps its id, some steps go and nothing is captured.
LEMMA StepsGo ==
    ASSUME RecorderInv, ActsGo, session # None, NEW s \in Session, s.id = session.id,
           session' = s, stored' = (IF recording' THEN s ELSE None), recording' \in BOOLEAN,
           UNCHANGED <<saves, rules, captured>>, excused \subseteq excused',
           R!StepsOf(s) \subseteq R!StepsOf(session),
           R!StepsOf(session) \subseteq R!StepsOf(s) \cup excused'
    PROVE  RecorderInv'
<1>1. captured' \in [steps : Nat, sessions : Nat] /\ captured'.sessions = captured.sessions
      /\ 1 .. captured'.steps \subseteq (1 .. captured.steps) \cup R!StepsOf(s) \cup excused'
  BY DEF RecorderInv, RecorderType
<1>2. R!Saving => R!StepsOf(s) \subseteq R!StepsOf(session) \cup excused'
  OBVIOUS
<1>3. QED
  BY <1>1, <1>2, SessionEdited

LEMMA RemoveStepKeeps ==
    ASSUME RecorderInv, NEW i \in Nat, R!RemoveStep(i)
    PROVE  RecorderInv'
<1>1. session # None /\ i \in DOMAIN session.steps /\ R!Happens
      /\ excused' = excused \cup {session.steps[i].n}
      /\ UNCHANGED <<recording, saves, rules, captured>>
  BY DEF R!RemoveStep, R!CanEdit
<1>2. session \in Session /\ session.steps \in Steps /\ R!StepsOf(session) = Numbers(session.steps)
  BY <1>1, SessionOf
<1>3. PICK q \in Steps : q = session.steps
  BY <1>2
<1>4. i \in 1 .. Len(q)
  BY <1>1, <1>3, LenProperties DEF Steps
<1>5. PICK r : r = SubSeq(q, 1, i - 1) \o SubSeq(q, i + 1, Len(q))
  OBVIOUS
<1>6. r \in Steps /\ Numbers(r) \subseteq Numbers(q) /\ Numbers(q) \subseteq Numbers(r) \cup {q[i].n}
  BY <1>4, <1>5, NumbersRemoved
<1>7. PICK s : s = [session EXCEPT !.steps = r]
  OBVIOUS
<1>8. s \in Session /\ s.id = session.id /\ R!StepsOf(s) = Numbers(r)
  <2>1. PICK u \in Session : u = session
    BY <1>2
  <2>2. s = [u EXCEPT !.steps = r]
    BY <1>7, <2>1
  <2>3. QED
    BY <2>1, <2>2, <1>6, SessionWith
<1>9. R!Render(s)
  BY <1>3, <1>5, <1>7 DEF R!RemoveStep
<1>10. session' = s /\ (stored' = IF recording' THEN s ELSE None) /\ recording' \in BOOLEAN
  BY <1>1, <1>9 DEF R!Render, R!Persist, RecorderInv, RecorderType
<1>11. ActsGo
  BY <1>1 DEF ActsGo
<1>12. QED
  BY <1>1, <1>2, <1>3, <1>6, <1>8, <1>10, <1>11, StepsGo

LEMMA ClearStepsKeeps == ASSUME RecorderInv, R!ClearSteps PROVE RecorderInv'
<1>1. session # None /\ R!Happens /\ excused' = excused \cup R!StepsOf(session)
      /\ UNCHANGED <<recording, saves, rules, captured>>
  BY DEF R!ClearSteps, R!CanEdit
<1>2. session \in Session /\ <<>> \in Steps
  BY <1>1, SessionOf DEF Steps
<1>3. PICK s : s = [session EXCEPT !.steps = <<>>]
  OBVIOUS
<1>4. s \in Session /\ s.id = session.id /\ R!StepsOf(s) = {}
  <2>1. PICK u \in Session : u = session
    BY <1>2
  <2>2. s = [u EXCEPT !.steps = <<>>]
    BY <1>3, <2>1
  <2>3. QED
    BY <2>1, <2>2, <1>2, SessionWith, NumbersEmpty
<1>5. R!Render(s)
  BY <1>3 DEF R!ClearSteps
<1>6. session' = s /\ (stored' = IF recording' THEN s ELSE None) /\ recording' \in BOOLEAN
  BY <1>1, <1>5 DEF R!Render, R!Persist, RecorderInv, RecorderType
<1>7. ActsGo
  BY <1>1 DEF ActsGo
<1>8. QED
  BY <1>1, <1>4, <1>6, <1>7, StepsGo

\* A session that is paused, or not, has the same steps.
LEMMA SessionPaused ==
    ASSUME RecorderInv, session # None, NEW b \in BOOLEAN
    PROVE  \E s \in Session : /\ s = [session EXCEPT !.paused = b]
                              /\ s.id = session.id /\ R!StepsOf(s) = R!StepsOf(session)
<1>1. session \in Session /\ R!StepsOf(session) = Numbers(session.steps)
  BY SessionOf
<1>2. PICK s : s = [session EXCEPT !.paused = b]
  OBVIOUS
<1>3. s \in Session /\ s.id = session.id /\ s.steps = session.steps
  BY <1>1, <1>2 DEF Session
<1>4. QED
  BY <1>1, <1>2, <1>3, SessionSteps

LEMMA PauseKeeps == ASSUME RecorderInv, R!Pause PROVE RecorderInv'
<1>1. session # None /\ R!Happens /\ UNCHANGED <<recording, saves, rules, captured, excused>>
      /\ R!Persist([session EXCEPT !.paused = ~paused])
  BY DEF R!Pause, R!CanEdit
<1>2. PICK b \in BOOLEAN : b = ~paused
  OBVIOUS
<1>3. PICK s \in Session : /\ s = [session EXCEPT !.paused = b]
                           /\ s.id = session.id /\ R!StepsOf(s) = R!StepsOf(session)
  BY <1>1, SessionPaused
<1>4. session' = s /\ (stored' = IF recording' THEN s ELSE None) /\ recording' \in BOOLEAN
  BY <1>1, <1>2, <1>3 DEF R!Persist, RecorderInv, RecorderType
<1>5. ActsGo
  BY <1>1 DEF ActsGo
<1>6. QED
  BY <1>1, <1>3, <1>4, <1>5, StepsGo

LEMMA SavesStay ==
    ASSUME RecorderInv, UNCHANGED saves
    PROVE  /\ saves' \in [Save -> Message]
           /\ \A m \in Save : /\ saves'[m].at = saves[m].at /\ saves'[m].id = saves[m].id
                              /\ saves'[m].steps = saves[m].steps /\ saves'[m].saw = saves[m].saw
  BY DEF RecorderInv, RecorderType

LEMMA DiscardKeeps == ASSUME RecorderInv, R!Discard PROVE RecorderInv'
<1>1. /\ R!Happens /\ excused' = excused \cup R!StepsOf(session) /\ UNCHANGED <<saves, rules, captured>>
      /\ recording' = FALSE /\ stored' = None /\ session' = None
  BY DEF R!Discard, R!Finish
<1>2. ActsGo
  BY <1>1 DEF ActsGo
<1>3. QED
  BY <1>1, <1>2, SavesStay, SessionEnds

LEMMA StopKeeps == ASSUME RecorderInv, R!Stop PROVE RecorderInv'
<1>1. /\ R!Happens /\ UNCHANGED <<saves, rules, captured, excused>>
      /\ recording' = FALSE /\ stored' = None
      /\ session' = IF session = None THEN None ELSE [session EXCEPT !.paused = FALSE]
  BY DEF R!Stop, R!Finish
<1>2. ActsGo
  BY <1>1 DEF ActsGo
<1>3. CASE session = None
  BY <1>1, <1>2, <1>3, SavesStay, SessionSteps, SessionEnds
<1>4. CASE session # None
  <2>1. PICK s \in Session : /\ s = [session EXCEPT !.paused = FALSE]
                             /\ s.id = session.id /\ R!StepsOf(s) = R!StepsOf(session)
    BY <1>4, SessionPaused
  <2>2. QED
    BY <1>1, <1>2, <1>4, <2>1, StepsGo
<1>5. QED
  BY <1>3, <1>4
\* The page has the session it had, which it records or not.
LEMMA SessionResumed ==
    ASSUME RecorderInv, ActsGo, session # None, session' = session,
           stored' = (IF recording' THEN session ELSE None), recording' \in BOOLEAN,
           UNCHANGED <<rules, captured, excused>>, saves' \in [Save -> Message],
           \A m \in Save : /\ saves'[m].at = saves[m].at /\ saves'[m].id = saves[m].id
                           /\ saves'[m].steps = saves[m].steps /\ saves'[m].saw = saves[m].saw
    PROVE  RecorderInv'
<1>1. RecorderType /\ Active
  BY DEF RecorderInv
<1>2. RecorderType'
  BY <1>1, ActsStayBounded DEF RecorderType
<1>3. Active'
  BY <1>1 DEF Active
<1>4. captured'.sessions >= captured.sessions
  BY <1>1 DEF RecorderType
<1>5. SessionChanges
  BY <1>2, <1>3, <1>4 DEF SessionChanges
<1>6. QED
  BY <1>5, SessionChangeKeeps

LEMMA StartKeeps == ASSUME RecorderInv, R!Start PROVE RecorderInv'
<1>1. RecorderType /\ Active /\ R!Happens /\ ActsGo
  BY DEF RecorderInv, R!Start, ActsGo
<1>2. stored # None => stored = session
  BY <1>1 DEF Active, RecorderType
<1>3. /\ session' = IF session # None THEN session
                    ELSE [id |-> captured.sessions + 1, steps |-> <<>>, paused |-> FALSE]
      /\ stored' = session' /\ recording' = TRUE
      /\ captured' = [captured EXCEPT !.sessions = IF session # None THEN @ ELSE @ + 1]
      /\ UNCHANGED <<saves, rules, excused>>
  BY <1>2 DEF R!Start, R!Resume
<1>4. CASE session # None
  <2>1. captured' = captured
    BY <1>1, <1>3, <1>4 DEF RecorderType
  <2>2. QED
    BY <1>1, <1>3, <1>4, <2>1, SavesStay, SessionResumed
<1>5. CASE session = None
  <2>1. PICK k : k = captured.sessions + 1
    OBVIOUS
  <2>2. captured.sessions \in Nat /\ captured.sessions =< acts /\ acts \in Nat /\ acts < MaxActs
        /\ acts' = acts + 1
    BY <1>1 DEF RecorderType, R!Happens
  <2>3. k \in R!Sessions /\ k > captured.sessions /\ k =< acts' /\ k \in Nat
    BY <2>1, <2>2, Bounds DEF R!Sessions
  <2>4. captured' \in [steps : Nat, sessions : Nat] /\ captured'.sessions = k
        /\ captured'.steps = captured.steps
    BY <1>1, <1>3, <1>5, <2>1, <2>3 DEF RecorderType
  <2>5. session' = [id |-> k, steps |-> <<>>, paused |-> FALSE]
    BY <1>3, <1>5, <2>1
  <2>6. <<>> \in Steps
    BY DEF Steps
  <2>7. session' \in Session /\ session'.id = k /\ session'.steps = <<>>
    BY <2>3, <2>5, <2>6 DEF Session
  <2>8. RecorderType'
    BY <1>1, <1>3, <2>2, <2>3, <2>4, <2>7, ActsStayBounded DEF RecorderType
  <2>9. session' # None /\ R!StepsOf(session') = {}
    BY <2>7, SessionSteps, NumbersEmpty
  <2>10. Active'
    BY <1>3, <2>3, <2>4, <2>7, <2>9 DEF Active
  <2>11. R!StepsOf(session) = {}
    BY <1>5, SessionSteps
  <2>12. captured'.sessions >= captured.sessions
    BY <2>2, <2>3, <2>4
  <2>13. SessionChanges
    BY <1>3, <2>3, <2>4, <2>7, <2>8, <2>9, <2>10, <2>11, <2>12 DEF SessionChanges
  <2>14. QED
    BY <2>13, SessionChangeKeeps
<1>6. QED
  BY <1>4, <1>5

LEMMA SavesUnheard ==
    ASSUME RecorderInv, R!NextPage
    PROVE  /\ ActsGo /\ UNCHANGED <<rules, captured>> /\ saves' \in [Save -> Message]
           /\ \A m \in Save : /\ saves'[m].at = saves[m].at /\ saves'[m].id = saves[m].id
                              /\ saves'[m].steps = saves[m].steps /\ saves'[m].saw = saves[m].saw
<1>1. RecorderType
  BY DEF RecorderInv
<1>2. ActsGo /\ saves' = [m \in Save |-> [saves[m] EXCEPT !.heard = FALSE]] /\ UNCHANGED <<rules, captured>>
  BY DEF R!NextPage, ActsGo
<1>3. ASSUME NEW m \in Save
      PROVE  /\ saves'[m] \in Message
             /\ saves'[m].at = saves[m].at /\ saves'[m].id = saves[m].id
             /\ saves'[m].steps = saves[m].steps /\ saves'[m].saw = saves[m].saw
  <2>1. PICK s \in Message : s = saves[m]
    BY <1>1 DEF RecorderType
  <2>2. saves'[m] = [s EXCEPT !.heard = FALSE]
    BY <1>2, <2>1
  <2>3. QED
    BY <2>1, <2>2 DEF Message
<1>4. QED
  BY <1>2, <1>3

LEMMA NavigateKeeps == ASSUME RecorderInv, R!Navigate PROVE RecorderInv'
<1>1. R!NextPage /\ stored # None /\ UNCHANGED excused
      /\ session' = stored /\ stored' = stored /\ recording' = TRUE
  BY DEF R!Navigate, R!Resume
<1>2. stored = session
  BY <1>1 DEF Active, RecorderInv, RecorderType
<1>3. QED
  BY <1>1, <1>2, SavesUnheard, SessionResumed

LEMMA LeaveRecordingKeeps == ASSUME RecorderInv, R!LeaveRecording PROVE RecorderInv'
<1>1. R!NextPage /\ session' = None /\ stored' = None /\ recording' = FALSE
      /\ excused' = excused \cup R!StepsOf(session)
  BY DEF R!LeaveRecording
<1>2. QED
  BY <1>1, SavesUnheard, SessionEnds

LEMMA RecorderUntouched ==
    ASSUME RecorderInv,
           UNCHANGED <<session, stored, recording, saves, rules, captured, excused, acts>>
    PROVE  RecorderInv'
<1>1. RecorderType' /\ Active'
  BY DEF RecorderInv, RecorderType, Active
<1>2. captured'.sessions >= captured.sessions
  BY DEF RecorderInv, RecorderType
<1>3. session' # None => session # None /\ session'.id = session.id
  OBVIOUS
<1>4. SessionChanges
  BY <1>1, <1>2, <1>3, SavesStay DEF SessionChanges
<1>5. QED
  BY <1>4, SessionChangeKeeps

LEMMA HideTimerKeeps == ASSUME RecorderInv, R!HideTimer PROVE RecorderInv'
  BY RecorderUntouched DEF R!HideTimer
-----------------------------------------------------------------------------
(* The steps of a message.                                                 *)

\* One message changes.
LEMMA OneMessage ==
    ASSUME RecorderInv, NEW m \in Save, NEW r \in Message, saves' = [saves EXCEPT ![m] = r]
    PROVE  /\ saves' \in [Save -> Message] /\ saves'[m] = r
           /\ R!StepsOf(r) = Numbers(r.steps) /\ R!StepsOf(saves[m]) = Numbers(saves[m].steps)
           /\ saves[m] \in Message
           /\ \A o \in Save \ {m} : saves'[o] = saves[o]
<1>1. saves \in [Save -> Message]
  BY DEF RecorderInv, RecorderType
<1>2. QED
  BY <1>1, MessageSteps

\* A message is read, or fails: what it carries stays.
LEMMA MessageGoesOn ==
    ASSUME RecorderInv, ActsGo, NEW m \in Save, NEW r \in Message, saves' = [saves EXCEPT ![m] = r],
           R!InFlight(m), r.at \in {"read", "failed"}, r.id = saves[m].id, r.steps = saves[m].steps,
           r.at = "read" => r.saw = rules,
           UNCHANGED <<session, stored, recording, rules, captured, excused>>
    PROVE  RecorderInv'
<1>1. /\ saves' \in [Save -> Message] /\ saves'[m] = r
      /\ R!StepsOf(r) = Numbers(r.steps) /\ R!StepsOf(saves[m]) = Numbers(saves[m].steps)
      /\ \A o \in Save \ {m} : saves'[o] = saves[o]
  BY OneMessage
<1>2. \A o \in Save : /\ R!StepsOf(saves'[o]) = R!StepsOf(saves[o]) /\ saves'[o].id = saves[o].id
                      /\ R!InFlight(o)' <=> R!InFlight(o)
  BY <1>1 DEF R!InFlight
<1>3. RecorderType' /\ Active'
  BY <1>1, ActsStayBounded DEF RecorderInv, RecorderType, Active
<1>4. \A f \in RuleSet : Older(f) => Older(f)'
  BY <1>2 DEF Older
<1>5. rules \in RuleSet /\ Older(rules)
  BY DEF RecorderInv, RecorderType
<1>6. Older(rules)'
  <2>1. PICK f \in RuleSet : f = rules
    BY <1>5
  <2>2. Older(f)' /\ rules' = f
    BY <2>1, <1>4, <1>5
  <2>3. QED
    BY <2>2 DEF Older
<1>7. ASSUME NEW o \in Save PROVE Carried(o)'
  <2>1. Carried(o)
    BY DEF RecorderInv
  <2>2. saves'[o].at = "kept" => saves[o].at = "kept"
    BY <1>1
  <2>3. QED
    BY <1>2, <2>1, <2>2 DEF Carried
<1>8. ASSUME NEW o \in Save PROVE Read(o)'
  <2>1. CASE o = m
    <3> SUFFICES ASSUME r.at = "read"
                 PROVE  r.saw \in RuleSet /\ Older(saves[o].saw)' /\ SameRules(rules, saves[o].saw)'
      BY <1>1, <2>1 DEF Read
    <3>1. saves'[o].saw = rules'
      BY <1>1, <2>1
    <3>2. Older(saves[o].saw)'
      BY <3>1, <1>6 DEF Older
    <3>3. SameRules(rules, saves[o].saw)'
      BY <3>1 DEF SameRules
    <3>4. QED
      BY <1>5, <3>2, <3>3
  <2>2. CASE o # m
    <3>1. saves'[o] = saves[o] /\ Read(o)
      BY <1>1, <2>2 DEF RecorderInv
    <3> SUFFICES ASSUME saves[o].at = "read"
                 PROVE  saves[o].saw \in RuleSet /\ Older(saves[o].saw)' /\ SameRules(rules, saves[o].saw)'
      BY <3>1 DEF Read
    <3>2. PICK f \in RuleSet : f = saves[o].saw /\ Older(f) /\ SameRules(rules, f)
      BY <3>1 DEF Read
    <3>3. Older(f)' /\ saves'[o].saw = f
      BY <3>1, <3>2, <1>4
    <3>4. Older(saves[o].saw)'
      BY <3>3 DEF Older
    <3>5. SameRules(rules, saves[o].saw)'
      BY <3>2, <3>3 DEF SameRules
    <3>6. QED
      BY <3>2, <3>4, <3>5
  <2>3. QED
    BY <2>1, <2>2
<1>9. Found'
  <2> SUFFICES ASSUME NEW x \in 1 .. captured.steps, x \notin excused PROVE x \in R!Kept'
    BY DEF Found
  <2>1. x \in R!Kept
    BY DEF RecorderInv, Found
  <2>2. CASE \E o \in Save : x \in R!StepsOf(saves[o])
    <3>1. \E o \in Save : x \in R!StepsOf(saves'[o])
      BY <1>2, <2>2
    <3>2. QED
      BY <3>1 DEF R!Kept
  <2>3. CASE \/ x \in R!StepsOf(session) \/ x \in R!StepsOf(stored)
             \/ \E s \in R!Sessions : x \in Numbers(rules[s])
    BY <2>3 DEF R!Kept, Numbers
  <2>4. QED
    BY <2>1, <2>2, <2>3, WhatIsKept
<1>10. QED
  BY <1>3, <1>6, <1>7, <1>8, <1>9 DEF RecorderInv

LEMMA ReadRulesKeeps == ASSUME RecorderInv, NEW m \in Save, R!ReadRules(m) PROVE RecorderInv'
<1>1. saves[m].at = "sent" /\ saves' = [saves EXCEPT ![m].at = "read", ![m].saw = rules]
      /\ UNCHANGED <<session, stored, recording, rules, captured, excused, acts>>
  BY DEF R!ReadRules, R!tab
<1>2. PICK s \in Message : s = saves[m]
  BY DEF RecorderInv, RecorderType
<1>3. PICK r : r = [s EXCEPT !.at = "read", !.saw = rules]
  OBVIOUS
<1>4. rules \in RuleSet
  BY DEF RecorderInv, RecorderType
<1>5. r \in Message /\ r.at = "read" /\ r.id = saves[m].id /\ r.steps = saves[m].steps
      /\ r.saw = rules
  BY <1>2, <1>3, <1>4 DEF Message
<1>6. saves' = [saves EXCEPT ![m] = r]
  BY <1>1, <1>2, <1>3
<1>7. R!InFlight(m) /\ ActsGo
  BY <1>1 DEF R!InFlight, ActsGo
<1>8. QED
  BY <1>1, <1>5, <1>6, <1>7, MessageGoesOn

LEMMA SaveFailsKeeps == ASSUME RecorderInv, NEW m \in Save, R!SaveFails(m) PROVE RecorderInv'
<1>1. saves[m].at \in {"sent", "read"} /\ R!Happens
      /\ saves' = [saves EXCEPT ![m].at = "failed", ![m].saw = None]
      /\ UNCHANGED <<session, stored, recording, rules, captured, excused>>
  BY DEF R!SaveFails, R!tab
<1>2. PICK s \in Message : s = saves[m]
  BY DEF RecorderInv, RecorderType
<1>3. PICK r : r = [s EXCEPT !.at = "failed", !.saw = None]
  OBVIOUS
<1>4. r \in Message /\ r.at = "failed" /\ r.id = saves[m].id /\ r.steps = saves[m].steps
  BY <1>2, <1>3 DEF Message
<1>5. saves' = [saves EXCEPT ![m] = r]
  BY <1>1, <1>2, <1>3
<1>6. R!InFlight(m) /\ ActsGo
  BY <1>1 DEF R!InFlight, ActsGo
<1>7. QED
  BY <1>1, <1>4, <1>5, <1>6, MessageGoesOn

\* The session is sent: with another message on its way, all that both carry is excused.
LEMMA SaveRuleKeeps == ASSUME RecorderInv, NEW m \in Save, R!SaveRule(m) PROVE RecorderInv'
<1>1. /\ session # None /\ ~R!InFlight(m) /\ R!Happens
      /\ excused' = excused \cup (IF R!Saving THEN R!StepsOf(session)
                                  \cup UNION {R!StepsOf(saves[o]) : o \in Save} ELSE {})
      /\ session' = session /\ stored' = (IF recording THEN session ELSE None)
      /\ UNCHANGED <<recording, rules, captured>>
  BY DEF R!SaveRule, R!CanEdit, R!Persist
<1>2. PICK r : r = [R!Unsent EXCEPT !.at = "sent", !.id = session.id,
                                    !.steps = session.steps, !.heard = TRUE]
  OBVIOUS
<1>3. session \in Session /\ session.id \in R!Sessions /\ session.steps \in Steps
      /\ R!StepsOf(session) = Numbers(session.steps)
  BY <1>1, SessionOf DEF Session
<1>4. session.id \in Nat /\ session.id >= 1
  BY <1>3, Bounds DEF R!Sessions
<1>5. r = [at |-> "sent", id |-> session.id, steps |-> session.steps, saw |-> None, heard |-> TRUE]
  BY <1>2 DEF R!Unsent
<1>6. r \in Message /\ r.at = "sent" /\ r.id = session.id /\ r.steps = session.steps
  BY <1>3, <1>4, <1>5 DEF Message
<1>7. saves' = [saves EXCEPT ![m] = r]
  BY <1>2 DEF R!SaveRule
<1>8. /\ saves' \in [Save -> Message] /\ saves'[m] = r
      /\ R!StepsOf(saves'[m]) = R!StepsOf(session)
      /\ \A o \in Save \ {m} : saves'[o] = saves[o] /\ (R!InFlight(o)' <=> R!InFlight(o))
      /\ R!InFlight(m)'
  BY <1>3, <1>6, <1>7, OneMessage DEF R!InFlight
<1>9. RecorderType /\ Active /\ ActsGo
  BY <1>1 DEF RecorderInv, ActsGo
<1>10. RecorderType' /\ Active'
  BY <1>1, <1>3, <1>8, <1>9, ActsStayBounded DEF RecorderType, Active
<1>11. excused \subseteq excused'
  BY <1>1
<1>12. \A o \in Save \ {m} : R!InFlight(o) =>
          R!StepsOf(session) \subseteq excused' /\ R!StepsOf(saves[o]) \subseteq excused'
  BY <1>1 DEF R!Saving
<1>13. \A f \in RuleSet : Older(f) => Older(f)'
  <2> SUFFICES ASSUME NEW f \in RuleSet, Older(f) PROVE Older(f)'
    OBVIOUS
  <2>1. Numbers(f[session.id]) \subseteq R!StepsOf(session) \cup excused'
    BY <1>1, <1>11 DEF Older
  <2>2. \A o \in Save : R!InFlight(o)' =>
            Numbers(f[saves'[o].id]) \subseteq R!StepsOf(saves'[o]) \cup excused'
    BY <1>6, <1>8, <1>11, <2>1 DEF Older
  <2>3. QED
    BY <1>1, <2>1, <2>2 DEF Older
<1>14. Older(rules)'
  <2>1. PICK f \in RuleSet : f = rules /\ Older(f)
    BY <1>9 DEF RecorderType, RecorderInv
  <2>2. Older(f)' /\ rules' = f
    BY <2>1, <1>1, <1>13
  <2>3. QED
    BY <2>2 DEF Older
<1>15. ASSUME NEW o \in Save PROVE Carried(o)'
  <2>1. CASE o = m
    <3>1. session.id \in 1 .. captured'.sessions
      BY <1>1, <1>4, <1>9 DEF Active, RecorderType
    <3>2. \A d \in Save \ {m} : R!InFlight(d)' => R!StepsOf(saves'[m]) \subseteq excused'
      BY <1>8, <1>12
    <3>3. QED
      BY <1>1, <1>6, <1>8, <2>1, <3>1, <3>2 DEF Carried
  <2>2. CASE o # m
    <3>1. Carried(o) /\ saves'[o] = saves[o] /\ (R!InFlight(o)' <=> R!InFlight(o))
      BY <1>8, <2>2 DEF RecorderInv
    <3>2. R!InFlight(o) => \A d \in Save \ {o} : R!StepsOf(saves[o]) \subseteq excused'
      BY <1>12, <2>2
    <3>3. QED
      BY <1>1, <1>11, <3>1, <3>2 DEF Carried
  <2>3. QED
    BY <2>1, <2>2
<1>16. ASSUME NEW o \in Save PROVE Read(o)'
  <2>1. CASE o = m
    BY <1>6, <1>8, <2>1 DEF Read
  <2>2. CASE o # m
    <3>1. saves'[o] = saves[o] /\ Read(o)
      BY <1>8, <2>2 DEF RecorderInv
    <3> SUFFICES ASSUME saves[o].at = "read"
                 PROVE  saves[o].saw \in RuleSet /\ Older(saves[o].saw)' /\ SameRules(rules, saves[o].saw)'
      BY <3>1 DEF Read
    <3>2. PICK f \in RuleSet : f = saves[o].saw /\ Older(f) /\ SameRules(rules, f)
      BY <3>1 DEF Read
    <3>3. Older(f)' /\ saves'[o].saw = f
      BY <3>1, <3>2, <1>13
    <3>4. Older(saves[o].saw)'
      BY <3>3 DEF Older
    <3>5. SameRules(rules, saves[o].saw)'
      BY <1>1, <1>11, <3>2, <3>3 DEF SameRules
    <3>6. QED
      BY <3>2, <3>4, <3>5
  <2>3. QED
    BY <2>1, <2>2
<1>17. Found'
  <2> SUFFICES ASSUME NEW x \in 1 .. captured.steps, x \notin excused' PROVE x \in R!Kept'
    BY <1>1 DEF Found
  <2>1. x \in R!Kept
    BY <1>11 DEF RecorderInv, Found
  <2>2. CASE \E o \in Save : x \in R!StepsOf(saves[o])
    <3>1. R!StepsOf(saves[m]) = {}
      BY <1>1 DEF RecorderInv, Carried
    <3>2. PICK o \in Save \ {m} : x \in R!StepsOf(saves[o])
      BY <2>2, <3>1
    <3>3. x \in R!StepsOf(saves'[o])
      BY <1>8, <3>2
    <3>4. QED
      BY <3>3 DEF R!Kept
  <2>3. CASE x \in R!StepsOf(stored)
    <3>1. stored = session \/ stored = None
      BY <1>9 DEF Active, RecorderType
    <3>2. x \in R!StepsOf(session')
      BY <1>1, <2>3, <3>1, SessionSteps
    <3>3. QED
      BY <3>2 DEF R!Kept
  <2>4. CASE x \in R!StepsOf(session) \/ \E s \in R!Sessions : x \in Numbers(rules[s])
    BY <1>1, <2>4 DEF R!Kept, Numbers
  <2>5. QED
    BY <2>1, <2>2, <2>3, <2>4, WhatIsKept
<1>18. QED
  BY <1>10, <1>14, <1>15, <1>16, <1>17 DEF RecorderInv
\* What was read is written with the message's steps in the place of its session's.
LEMMA WriteRulesKeeps == ASSUME RecorderInv, NEW m \in Save, R!WriteRules(m) PROVE RecorderInv'
<1>1. /\ saves[m].at = "read"
      /\ rules' = [saves[m].saw EXCEPT ![saves[m].id] = saves[m].steps]
      /\ saves' = [saves EXCEPT ![m].at = "kept", ![m].saw = None]
      /\ UNCHANGED <<session, stored, recording, captured, excused, acts>>
  BY DEF R!WriteRules, R!tab
<1>2. PICK s \in Message : s = saves[m]
  BY DEF RecorderInv, RecorderType
<1>3. PICK r : r = [s EXCEPT !.at = "kept", !.saw = None]
  OBVIOUS
<1>4. r \in Message /\ r.at = "kept" /\ r.id = s.id /\ r.steps = s.steps /\ s.steps \in Steps
  BY <1>2, <1>3 DEF Message
<1>5. saves' = [saves EXCEPT ![m] = r]
  BY <1>1, <1>2, <1>3
<1>6. /\ saves' \in [Save -> Message] /\ saves'[m] = r
      /\ R!StepsOf(r) = Numbers(s.steps) /\ R!StepsOf(s) = Numbers(s.steps)
      /\ \A o \in Save \ {m} : saves'[o] = saves[o]
  BY <1>2, <1>4, <1>5, OneMessage
<1>7. \A o \in Save : /\ R!StepsOf(saves'[o]) = R!StepsOf(saves[o]) /\ saves'[o].id = saves[o].id
                      /\ R!InFlight(o)' <=> R!InFlight(o)
  BY <1>1, <1>2, <1>4, <1>6 DEF R!InFlight
<1>8. RecorderType /\ Active /\ Carried(m) /\ Read(m) /\ R!InFlight(m)
  BY <1>1 DEF RecorderInv, R!InFlight
<1>9. PICK g \in RuleSet : g = s.saw /\ Older(g) /\ SameRules(rules, g)
  BY <1>1, <1>2, <1>8 DEF Read
<1>10. s.id \in 1 .. captured.sessions /\ s.id \in R!Sessions
  <2>1. s.id \in 1 .. captured.sessions
    BY <1>2, <1>8 DEF Carried
  <2>2. captured.sessions \in Nat /\ captured.sessions =< MaxActs
    BY <1>8, Bounds DEF RecorderType
  <2>3. QED
    BY <2>1, <2>2, Bounds DEF R!Sessions
<1>11. PICK h : h = [g EXCEPT ![s.id] = s.steps]
  OBVIOUS
<1>12. rules' = h /\ h \in RuleSet
       /\ \A i \in R!Sessions : Numbers(h[i]) = IF i = s.id THEN R!StepsOf(s) ELSE Numbers(g[i])
  BY <1>1, <1>2, <1>4, <1>6, <1>9, <1>10, <1>11 DEF RuleSet
<1>13. RecorderType' /\ Active'
  BY <1>1, <1>6, <1>8, <1>12 DEF RecorderType, Active
<1>14. \A f \in RuleSet : Older(f) => Older(f)'
  BY <1>1, <1>7 DEF Older
<1>15. Older(h)
  <2>1. \A i \in R!Sessions : i > captured.sessions => Numbers(h[i]) = {}
    <3> SUFFICES ASSUME NEW i \in R!Sessions, i > captured.sessions PROVE Numbers(h[i]) = {}
      OBVIOUS
    <3>1. i # s.id
      BY <1>8, <1>10 DEF RecorderType
    <3>2. QED
      BY <3>1, <1>9, <1>12 DEF Older
  <2>2. session # None => Numbers(h[session.id]) \subseteq R!StepsOf(session) \cup excused
    <3> SUFFICES ASSUME session # None
                 PROVE  Numbers(h[session.id]) \subseteq R!StepsOf(session) \cup excused
      OBVIOUS
    <3>1. session.id \in R!Sessions
      BY SessionOf DEF Session
    <3>2. Numbers(g[session.id]) \subseteq R!StepsOf(session) \cup excused
      BY <1>9 DEF Older
    <3>3. R!StepsOf(s) \subseteq R!StepsOf(session) \cup excused
      BY <1>2, <1>8 DEF Carried
    <3>4. QED
      BY <3>1, <3>2, <3>3, <1>12
  <2>3. ASSUME NEW o \in Save, R!InFlight(o)
        PROVE  Numbers(h[saves[o].id]) \subseteq R!StepsOf(saves[o]) \cup excused
    <3>1. saves[o].id \in 1 .. captured.sessions
      BY <2>3 DEF RecorderInv, Carried
    <3>2. saves[o].id \in R!Sessions
      BY <3>1, <1>8, Bounds DEF RecorderType, R!Sessions
    <3>3. Numbers(g[saves[o].id]) \subseteq R!StepsOf(saves[o]) \cup excused
      BY <2>3, <1>9 DEF Older
    <3>4. o # m => R!StepsOf(s) \subseteq excused
      BY <2>3, <1>2, <1>8 DEF Carried
    <3>5. QED
      BY <3>2, <3>3, <3>4, <1>2, <1>12
  <2>4. QED
    BY <2>1, <2>2, <2>3 DEF Older
<1>16. Older(rules)'
  <2>1. Older(h)'
    BY <1>12, <1>14, <1>15
  <2>2. QED
    BY <1>12, <2>1 DEF Older
<1>17. ASSUME NEW o \in Save PROVE Carried(o)'
  <2>1. Carried(o)
    BY DEF RecorderInv
  <2>2. R!InFlight(o) /\ saves'[o].at = "kept" =>
            R!StepsOf(saves[o]) \subseteq Numbers(h[saves[o].id]) \cup excused
    <3>1. CASE o = m
      BY <3>1, <1>2, <1>10, <1>12
    <3>2. CASE o # m
      BY <3>2, <1>8, <2>1 DEF Carried
    <3>3. QED
      BY <3>1, <3>2
  <2>3. QED
    BY <1>1, <1>7, <1>12, <2>1, <2>2 DEF Carried
<1>18. ASSUME NEW o \in Save PROVE Read(o)'
  <2>1. CASE o = m
    BY <1>4, <1>6, <2>1 DEF Read
  <2>2. CASE o # m
    <3>1. saves'[o] = saves[o] /\ Read(o)
      BY <1>6, <2>2 DEF RecorderInv
    <3> SUFFICES ASSUME saves[o].at = "read"
                 PROVE  saves[o].saw \in RuleSet /\ Older(saves[o].saw)' /\ SameRules(rules, saves[o].saw)'
      BY <3>1 DEF Read
    <3>2. PICK f \in RuleSet : f = saves[o].saw /\ Older(f) /\ SameRules(rules, f)
      BY <3>1 DEF Read
    <3>3. Older(f)' /\ saves'[o].saw = f
      BY <3>1, <3>2, <1>14
    <3>4. Older(saves[o].saw)'
      BY <3>3 DEF Older
    <3>5. R!InFlight(o)
      BY DEF R!InFlight
    <3>6. R!StepsOf(s) \subseteq excused
      BY <1>2, <1>8, <2>2, <3>5 DEF Carried
    <3>7. Numbers(f[s.id]) \subseteq R!StepsOf(s) \cup excused
      BY <1>2, <1>8, <3>2 DEF Older
    <3>8. ASSUME NEW i \in R!Sessions
          PROVE  /\ Numbers(h[i]) \subseteq Numbers(f[i]) \cup excused
                 /\ Numbers(f[i]) \subseteq Numbers(h[i]) \cup excused
      <4>1. CASE i = s.id
        BY <4>1, <3>6, <3>7, <1>12
      <4>2. CASE i # s.id
        <5>1. Numbers(h[i]) = Numbers(g[i])
          BY <4>2, <1>12
        <5>2. Numbers(g[i]) \subseteq Numbers(rules[i]) \cup excused
              /\ Numbers(rules[i]) \subseteq Numbers(g[i]) \cup excused
          BY <1>9 DEF SameRules
        <5>3. Numbers(f[i]) \subseteq Numbers(rules[i]) \cup excused
              /\ Numbers(rules[i]) \subseteq Numbers(f[i]) \cup excused
          BY <3>2 DEF SameRules
        <5>4. QED
          BY <5>1, <5>2, <5>3
      <4>3. QED
        BY <4>1, <4>2
    <3>9. SameRules(h, f)
      BY <3>8 DEF SameRules
    <3>10. SameRules(rules, saves[o].saw)'
      BY <1>1, <1>12, <3>3, <3>9 DEF SameRules
    <3>11. QED
      BY <3>2, <3>4, <3>10
  <2>3. QED
    BY <2>1, <2>2
<1>19. Found'
  <2> SUFFICES ASSUME NEW x \in 1 .. captured.steps, x \notin excused PROVE x \in R!Kept'
    BY <1>1 DEF Found
  <2>1. x \in R!Kept
    BY DEF RecorderInv, Found
  <2>2. CASE \E o \in Save : x \in R!StepsOf(saves[o])
    <3>1. \E o \in Save : x \in R!StepsOf(saves'[o])
      BY <1>7, <2>2
    <3>2. QED
      BY <3>1 DEF R!Kept
  <2>3. CASE x \in R!StepsOf(session) \/ x \in R!StepsOf(stored)
    BY <1>1, <2>3 DEF R!Kept
  <2>4. CASE \E i \in R!Sessions : x \in Numbers(rules[i])
    <3>1. PICK i \in R!Sessions : x \in Numbers(rules[i])
      BY <2>4
    <3>2. CASE i = s.id
      <4>1. x \in R!StepsOf(saves[m])
        BY <3>1, <3>2, <1>2, <1>8 DEF RecorderInv, Older
      <4>2. QED
        BY <4>1, <2>2
    <3>3. CASE i # s.id
      <4>1. x \in Numbers(h[i])
        BY <3>1, <3>3, <1>9, <1>12 DEF SameRules
      <4>2. QED
        BY <4>1, <1>12 DEF R!Kept, Numbers
    <3>4. QED
      BY <3>2, <3>3
  <2>5. QED
    BY <2>1, <2>2, <2>3, <2>4, WhatIsKept
<1>20. QED
  BY <1>13, <1>16, <1>17, <1>18, <1>19 DEF RecorderInv

\* The answer comes: the session ends with a save that was kept and is heard of, and
\* what the message carried is then in the rules, or the session has it.
LEMMA AnswerKeeps == ASSUME RecorderInv, NEW m \in Save, R!Answer(m) PROVE RecorderInv'
<1>1. /\ saves[m].at \in {"kept", "failed"} /\ saves' = [saves EXCEPT ![m] = R!Unsent]
      /\ UNCHANGED <<rules, captured, excused, acts>>
      /\ \/ /\ saves[m].at = "kept" /\ session' = None /\ stored' = None /\ recording' = FALSE
         \/ UNCHANGED <<session, stored, recording>>
  BY DEF R!Answer, R!Finish, R!tab
<1>2. /\ saves' \in [Save -> Message] /\ saves'[m] = R!Unsent
      /\ \A o \in Save \ {m} : saves'[o] = saves[o] /\ (R!InFlight(o)' <=> R!InFlight(o))
      /\ ~R!InFlight(m)' /\ R!StepsOf(saves'[m]) = {}
  BY <1>1, UnsentIsMessage, OneMessage DEF R!InFlight
<1>3. RecorderType /\ Active /\ Carried(m) /\ R!InFlight(m)
  BY <1>1 DEF RecorderInv, R!InFlight
<1>4. RecorderType' /\ Active'
  <2>1. CASE session' = None /\ stored' = None /\ recording' = FALSE
    BY <1>1, <1>2, <1>3, <2>1 DEF RecorderType, Active
  <2>2. CASE UNCHANGED <<session, stored, recording>>
    <3>1. RecorderType'
      BY <1>1, <1>2, <1>3, <2>2 DEF RecorderType
    <3>2. Active'
      BY <1>1, <1>3, <2>2 DEF Active
    <3>3. QED
      BY <3>1, <3>2
  <2>3. QED
    BY <1>1, <2>1, <2>2
<1>5. R!StepsOf(session') \subseteq R!StepsOf(session)
  BY <1>1, SessionSteps
<1>6. session' # None => session' = session
  BY <1>1
<1>7. \A f \in RuleSet : Older(f) => Older(f)'
  BY <1>1, <1>2, <1>6 DEF Older
<1>8. Older(rules)'
  <2>1. PICK f \in RuleSet : f = rules /\ Older(f)
    BY <1>3 DEF RecorderType, RecorderInv
  <2>2. Older(f)' /\ rules' = f
    BY <2>1, <1>1, <1>7
  <2>3. QED
    BY <2>2 DEF Older
<1>9. ASSUME NEW o \in Save PROVE Carried(o)'
  <2>1. CASE o = m
    BY <1>2, <2>1 DEF Carried
  <2>2. CASE o # m
    <3>1. Carried(o) /\ saves'[o] = saves[o] /\ (R!InFlight(o)' <=> R!InFlight(o))
      BY <1>2, <2>2 DEF RecorderInv
    <3>2. R!InFlight(o) => R!StepsOf(saves[o]) \subseteq excused
      BY <1>3, <2>2, <3>1 DEF Carried
    <3>3. R!InFlight(o) => \A d \in Save \ {o} : R!InFlight(d)' => R!StepsOf(saves[o]) \subseteq excused
      BY <3>2
    <3>4. QED
      BY <1>1, <1>5, <3>1, <3>2, <3>3 DEF Carried
  <2>3. QED
    BY <2>1, <2>2
<1>10. ASSUME NEW o \in Save PROVE Read(o)'
  <2>1. CASE o = m
    BY <1>2, <2>1, UnsentIsMessage DEF Read
  <2>2. CASE o # m
    <3>1. saves'[o] = saves[o] /\ Read(o)
      BY <1>2, <2>2 DEF RecorderInv
    <3> SUFFICES ASSUME saves[o].at = "read"
                 PROVE  saves[o].saw \in RuleSet /\ Older(saves[o].saw)' /\ SameRules(rules, saves[o].saw)'
      BY <3>1 DEF Read
    <3>2. PICK f \in RuleSet : f = saves[o].saw /\ Older(f) /\ SameRules(rules, f)
      BY <3>1 DEF Read
    <3>3. Older(f)' /\ saves'[o].saw = f
      BY <3>1, <3>2, <1>7
    <3>4. Older(saves[o].saw)'
      BY <3>3 DEF Older
    <3>5. SameRules(rules, saves[o].saw)'
      BY <1>1, <3>2, <3>3 DEF SameRules
    <3>6. QED
      BY <3>2, <3>4, <3>5
  <2>3. QED
    BY <2>1, <2>2
<1>11. Found'
  <2> SUFFICES ASSUME NEW x \in 1 .. captured.steps, x \notin excused PROVE x \in R!Kept'
    BY <1>1 DEF Found
  <2>1. x \in R!Kept
    BY DEF RecorderInv, Found
  <2>2. CASE \E i \in R!Sessions : x \in Numbers(rules[i])
    BY <1>1, <2>2 DEF R!Kept, Numbers
  <2>3. CASE x \in R!StepsOf(session)
    <3>1. CASE session' = session
      BY <2>3, <3>1 DEF R!Kept
    <3>2. CASE saves[m].at = "kept"
      <4>1. x \in Numbers(rules[saves[m].id])
        BY <1>3, <2>3, <3>2 DEF Carried
      <4>2. saves[m].id \in R!Sessions
        BY <1>3, Bounds DEF Carried, RecorderType, R!Sessions
      <4>3. QED
        BY <2>2, <4>1, <4>2
    <3>3. QED
      BY <1>1, <3>1, <3>2
  <2>4. CASE x \in R!StepsOf(stored)
    <3>1. stored = session \/ stored = None
      BY <1>3 DEF Active, RecorderType
    <3>2. QED
      BY <2>3, <2>4, <3>1, SessionSteps
  <2>5. CASE \E o \in Save : x \in R!StepsOf(saves[o])
    <3>1. PICK o \in Save : x \in R!StepsOf(saves[o])
      BY <2>5
    <3>2. CASE o = m
      BY <3>1, <3>2, <1>3, <2>3 DEF Carried
    <3>3. CASE o # m
      <4>1. x \in R!StepsOf(saves'[o])
        BY <3>1, <3>3, <1>2
      <4>2. QED
        BY <4>1 DEF R!Kept
    <3>4. QED
      BY <3>2, <3>3
  <2>6. QED
    BY <2>1, <2>2, <2>3, <2>4, <2>5, WhatIsKept
<1>12. QED
  BY <1>4, <1>8, <1>9, <1>10, <1>11 DEF RecorderInv

LEMMA RecorderKeeps == ASSUME RecorderInv, R!Next PROVE RecorderInv'
<1>1. CASE R!Editing
  <2>1. \A i \in 1 .. MaxSteps : i \in Nat
    BY Bounds
  <2>2. QED
    BY <1>1, <2>1, CaptureKeeps, RemoveStepKeeps, ClearStepsKeeps, PauseKeeps DEF R!Editing
<1>2. CASE R!Ending
  BY <1>2, DiscardKeeps, StopKeeps, HideTimerKeeps, StartKeeps, NavigateKeeps,
     LeaveRecordingKeeps DEF R!Ending
<1>3. CASE \E m \in Save : R!Sending(m)
  BY <1>3, SaveRuleKeeps, ReadRulesKeeps, WriteRulesKeeps, SaveFailsKeeps, AnswerKeeps DEF R!Sending
<1>4. QED
  BY <1>1, <1>2, <1>3 DEF R!Next

LEMMA RecorderSteps ==
    ASSUME [Next]_vars, part = "recorder"
    PROVE  part' = part /\ (R!Next \/ UNCHANGED recorderVars)
<1>1. CASE Next
  BY <1>1 DEF Next, CaptchaStep, RecorderStep, AutofillStep, PagesStep
<1>2. CASE UNCHANGED vars
  BY <1>2 DEF vars
<1>3. QED
  BY <1>1, <1>2

IfRecorder == part = "recorder" => RecorderInv

LEMMA RecorderAlways == Spec => []IfRecorder
<1>1. Init => IfRecorder
  BY RecorderInit DEF Init, IfRecorder
<1>2. UNCHANGED recorderVars /\ RecorderInv => RecorderInv'
  BY RecorderUntouched DEF recorderVars
<1>3. IfRecorder /\ [Next]_vars => IfRecorder'
  BY <1>2, PartStays, RecorderSteps, RecorderKeeps DEF IfRecorder
<1>4. QED
  BY <1>1, <1>3, PTL DEF Spec

\* A captured step is in the session, on its way to the rules, or in them, unless the
\* user dropped it, it was captured or saved while another save was on its way, or its
\* page was left for one that does not find the session: stopped, of another origin, or
\* without storage.
THEOREM NoStepVanishesEver == Spec => []NoStepVanishes
<1>1. IfRecorder => NoStepVanishes
  BY DEF IfRecorder, RecorderInv, Found, NoStepVanishes
<1>2. QED
  BY <1>1, RecorderAlways, PTL
-----------------------------------------------------------------------------
(* Autofill.                                                               *)

Stage == {"idle", "load", "limits", "step", "target"}

\* What the order of the matching rules lists, and the keys of their steps.
Listed == {F!Ranked(F!Matching(a), k) : a \in Address, k \in Nat}
StepKey == Address \X Listed \X Nat

FillRun == [at : Stage, force : BOOLEAN, left : Seq(Listed), i : Nat, tries : Nat,
            key : {None} \cup StepKey, fresh : BOOLEAN]

AutofillType ==
    /\ address \in Address
    /\ dom \in [F!Field -> {Blank, ByRule, User}]
    /\ running \in BOOLEAN
    /\ run \in [Run -> FillRun]

\* The flag lets one run through.
OneRun ==
    /\ running <=> F!InProgress
    /\ \A c, d \in Run : ~F!At(c, "idle") /\ ~F!At(d, "idle") => c = d

\* What runs have done since the address changed is completed at this address.
DoneIsCompleted ==
    /\ done # {} => pageKey = address
    /\ \A x \in done : <<address, x[1], x[2]>> \in completed

AtStep(r) == r.at \in {"step", "target"}

\* A run begun at this address awaits its target with a key of it, and one that is
\* automatic only for a step that is not done.
Awaits(c) ==
    /\ AtStep(run[c]) => run[c].left # <<>>
    /\ run[c].fresh => pageKey = address
    /\ F!At(c, "target") =>
          /\ run[c].fresh => run[c].key = F!Key(c)
          /\ ~run[c].force => <<F!Rule(c), run[c].i>> \notin done

AutofillInv == AutofillType /\ OneRun /\ DoneIsCompleted /\ \A c \in Run : Awaits(c)

LEMMA OrderIsList == ASSUME NEW a \in Address PROVE F!Ordered(F!Matching(a)) \in Seq(Listed)
<1>0. \A S : F!Cardinality(S) = Cardinality(S)
  BY DEF F!Cardinality, Cardinality
<1>1. PICK n : n = Cardinality(F!Matching(a))
  OBVIOUS
<1>2. n \in Nat
  BY <1>1, Bounds, FS_Subset, FS_CardinalityType DEF F!Matching
<1>3. \A k \in 1 .. n : F!Ranked(F!Matching(a), k) \in Listed
  BY <1>2 DEF Listed
<1>4. F!Ordered(F!Matching(a)) \in [1 .. n -> Listed]
  BY <1>0, <1>1, <1>3 DEF F!Ordered
<1>5. QED
  BY <1>2, <1>4, SeqDef

LEMMA AllowedIsList ==
    ASSUME NEW s \in Seq(Listed) PROVE F!Allowed(s) \in Seq(Listed)
<1>1. PICK n \in Nat : n =< Len(s) /\ F!Allowed(s) = SubSeq(s, 1, n)
  BY Bounds DEF F!Allowed
<1>2. \A i \in 1 .. n : s[i] \in Listed
  BY <1>1
<1>3. QED
  BY <1>1, <1>2, SubSeqProperties

LEMMA RunTyped ==
    ASSUME AutofillInv, NEW c \in Run
    PROVE  /\ run[c] \in FillRun
           /\ run[c].left # <<>> => F!Rule(c) \in Listed
           /\ run[c].left # <<>> => F!Key(c) \in StepKey
<1>1. run[c] \in FillRun /\ address \in Address
  BY DEF AutofillInv, AutofillType
<1>2. run[c].left \in Seq(Listed) /\ run[c].i \in Nat
  BY <1>1 DEF FillRun
<1>3. run[c].left # <<>> => Head(run[c].left) \in Listed
  BY <1>2, HeadTailProperties
<1>4. QED
  BY <1>1, <1>2, <1>3 DEF F!Rule, F!Key, StepKey

LEMMA FillRestIsRun == F!Rest \in FillRun /\ F!Rest.at = "idle" /\ ~F!Rest.fresh
<1>1. <<>> \in Seq(Listed)
  BY EmptySeq
<1>2. QED
  BY <1>1 DEF F!Rest, FillRun, Stage

LEMMA AutofillInit == F!Init => AutofillInv
<1> SUFFICES ASSUME F!Init PROVE AutofillInv
  OBVIOUS
<1>1. AutofillType
  BY FillRestIsRun DEF F!Init, AutofillType
<1>2. \A c \in Run : run[c].at = "idle" /\ ~run[c].fresh
  BY FillRestIsRun DEF F!Init
<1>3. OneRun /\ DoneIsCompleted
  BY <1>2 DEF F!Init, OneRun, DoneIsCompleted, F!InProgress, F!At
<1>4. \A c \in Run : Awaits(c)
  BY <1>2 DEF Awaits, AtStep, F!At
<1>5. QED
  BY <1>1, <1>3, <1>4 DEF AutofillInv

-----------------------------------------------------------------------------
(* A run in progress moves on, or ends.                                    *)

Becomes(c, r) == /\ run' = [run EXCEPT ![c] = r] /\ r \in FillRun
                 /\ running' = (r.at # "idle")

\* The place of a run after its step, and that it keeps what it was begun with.
GoesTo(c, r, places) ==
    /\ Becomes(c, r) /\ r.at \in places
    /\ AtStep(r) => r.left # <<>>
    /\ r.fresh => run[c].fresh

LEMMA ExitGoes ==
    ASSUME AutofillInv, NEW c \in Run, F!Exit(c)
    PROVE  GoesTo(c, F!Rest, {"idle"})
  BY FillRestIsRun DEF F!Exit, GoesTo, Becomes, AtStep

LEMMA RunsOn ==
    ASSUME AutofillInv, NEW c \in Run, ~F!At(c, "idle")
    PROVE  running = TRUE /\ \A d \in Run \ {c} : run[d].at = "idle"
  BY DEF AutofillInv, AutofillType, OneRun, F!InProgress, F!At

\* Only the run that moves is in progress.
LEMMA OneRunStays ==
    ASSUME AutofillInv, NEW c \in Run, NEW r, Becomes(c, r),
           \A d \in Run \ {c} : run[d].at = "idle"
    PROVE  /\ OneRun' /\ running' \in BOOLEAN /\ run' \in [Run -> FillRun]
           /\ run'[c] = r
           /\ \A d \in Run \ {c} : run'[d] = run[d]
<1>1. run \in [Run -> FillRun]
  BY DEF AutofillInv, AutofillType
<1>2. /\ run' \in [Run -> FillRun] /\ run'[c] = r
      /\ \A d \in Run \ {c} : run'[d] = run[d]
  BY <1>1 DEF Becomes
<1>3. running' \in BOOLEAN /\ (running' <=> r.at # "idle")
  BY DEF Becomes
<1>4. OneRun'
  BY <1>2, <1>3 DEF OneRun, F!InProgress, F!At
<1>5. QED
  BY <1>2, <1>3, <1>4

LEMMA AdvanceGoes ==
    ASSUME AutofillInv, NEW c \in Run, AtStep(run[c]), NEW stops, F!Advance(c, stops)
    PROVE  \E r : GoesTo(c, r, {"idle", "step"}) /\ r # run[c]
<1>1. PICK q \in FillRun : q = run[c]
  BY RunTyped
<1>2. /\ q.left \in Seq(Listed) /\ q.left # <<>> /\ q.i \in Nat /\ q.at # "idle"
      /\ running = TRUE /\ run \in [Run -> FillRun]
  BY <1>1, RunsOn DEF FillRun, AutofillInv, AutofillType, Awaits, AtStep, F!At
<1>3. CASE F!Exit(c)
  <2>1. GoesTo(c, F!Rest, {"idle"})
    BY <1>3, ExitGoes
  <2>2. F!Rest # run[c]
    BY <1>1, <1>2, FillRestIsRun
  <2>3. QED
    BY <2>1, <2>2 DEF GoesTo
<1>4. CASE /\ run' = [run EXCEPT ![c].at = "step", ![c].i = @ + 1, ![c].tries = 0, ![c].key = None]
           /\ running' = running
  <2>0. PICK n \in Nat : n = q.i + 1
    BY <1>2
  <2> DEFINE r == [q EXCEPT !.at = "step", !.i = n, !.tries = 0, !.key = None]
  <2>1. run' = [run EXCEPT ![c] = r]
    BY <1>1, <1>2, <1>4, <2>0
  <2>2. /\ r \in FillRun /\ r.at = "step" /\ r.left = q.left /\ r.fresh = q.fresh
        /\ r.i = n
    BY DEF FillRun, Stage
  <2>3. r # q
    <3> HIDE DEF r
    <3> QED
      BY <1>2, <2>0, <2>2
  <2>4. QED
    BY <1>1, <1>2, <1>4, <2>1, <2>2, <2>3 DEF GoesTo, Becomes
<1>5. CASE /\ Len(run[c].left) > 1 /\ running' = running
           /\ run' = [run EXCEPT ![c].at = "step", ![c].left = Tail(@), ![c].i = 1,
                                 ![c].tries = 0, ![c].key = None]
  <2>1. PICK t : t = Tail(q.left)
    OBVIOUS
  <2>2. t \in Seq(Listed) /\ Len(t) = Len(q.left) - 1 /\ Len(q.left) \in Nat
    BY <1>2, <2>1, HeadTailProperties
  <2>3. t # q.left /\ t # <<>>
    BY <1>1, <1>5, <2>2
  <2> DEFINE r == [q EXCEPT !.at = "step", !.left = t, !.i = 1, !.tries = 0, !.key = None]
  <2>4. run' = [run EXCEPT ![c] = r]
    BY <1>1, <1>2, <1>5, <2>1
  <2>5. r \in FillRun /\ r.at = "step" /\ r.left = t /\ r.fresh = q.fresh
    BY <2>2 DEF FillRun, Stage
  <2>6. QED
    BY <1>1, <1>2, <1>5, <2>3, <2>4, <2>5 DEF GoesTo, Becomes
<1>6. QED
  BY <1>3, <1>4, <1>5 DEF F!Advance

LEMMA AttemptedGoes ==
    ASSUME AutofillInv, NEW c \in Run, AtStep(run[c]), F!Attempted(c)
    PROVE  \E r : GoesTo(c, r, {"idle", "step"}) /\ r # run[c]
<1>1. PICK q \in FillRun : q = run[c]
  BY RunTyped
<1>2. /\ q.left # <<>> /\ q.tries \in Nat
      /\ running = TRUE /\ run \in [Run -> FillRun]
  BY <1>1, RunsOn DEF FillRun, AutofillInv, AutofillType, Awaits, AtStep, F!At
<1>3. CASE /\ run' = [run EXCEPT ![c].at = "step", ![c].tries = @ + 1, ![c].key = None]
           /\ running' = running
  <2>0. PICK n \in Nat : n = q.tries + 1
    BY <1>2
  <2> DEFINE r == [q EXCEPT !.at = "step", !.tries = n, !.key = None]
  <2>1. run' = [run EXCEPT ![c] = r]
    BY <1>1, <1>2, <1>3, <2>0
  <2>2. /\ r \in FillRun /\ r.at = "step" /\ r.left = q.left /\ r.fresh = q.fresh
        /\ r.tries = n
    BY DEF FillRun, Stage
  <2>3. r # q
    <3> HIDE DEF r
    <3> QED
      BY <1>2, <2>0, <2>2
  <2>4. QED
    BY <1>1, <1>2, <1>3, <2>1, <2>2, <2>3 DEF GoesTo, Becomes
<1>4. CASE F!Advance(c, F!Rule(c) \in Flows)
  BY <1>4, AdvanceGoes
<1>5. QED
  BY <1>3, <1>4 DEF F!Attempted

Dom == [F!Field -> {Blank, ByRule, User}]

LEMMA DomKeeps ==
    ASSUME AutofillInv, NEW f, NEW v \in {Blank, ByRule, User}, dom' = [dom EXCEPT ![f] = v]
    PROVE  dom' \in Dom /\ \A g \in F!Field : g # f => dom'[g] = dom[g]
  BY DEF AutofillInv, AutofillType, Dom

\* A run that moves on, but not to await a target, keeps the invariant if what it has
\* done is completed.
LEMMA MovedKeeps ==
    ASSUME AutofillInv, NEW c \in Run, ~F!At(c, "idle"),
           NEW r, GoesTo(c, r, {"idle", "limits", "step"}),
           UNCHANGED <<address, pageKey>>, dom' \in Dom, DoneIsCompleted'
    PROVE  AutofillInv'
<1>1. \A d \in Run \ {c} : run[d].at = "idle"
  BY RunsOn
<1>2. /\ OneRun' /\ running' \in BOOLEAN /\ run' \in [Run -> FillRun] /\ run'[c] = r
      /\ \A d \in Run \ {c} : run'[d] = run[d]
  BY <1>1, OneRunStays DEF GoesTo
<1>3. AutofillType'
  BY <1>2 DEF AutofillInv, AutofillType, Dom
<1>4. ASSUME NEW d \in Run PROVE Awaits(d)'
  <2>1. run[d].fresh => pageKey = address
    BY DEF AutofillInv, Awaits
  <2>2. CASE d = c
    BY <1>2, <2>1, <2>2 DEF GoesTo, Awaits, F!At
  <2>3. CASE d # c
    BY <1>1, <1>2, <2>1, <2>3 DEF Awaits, AtStep, F!At
  <2>4. QED
    BY <2>2, <2>3
<1>5. QED
  BY <1>2, <1>3, <1>4 DEF AutofillInv

LEMMA SameDone ==
    ASSUME AutofillInv, UNCHANGED <<address, pageKey, completed, done>> PROVE DoneIsCompleted'
  BY DEF AutofillInv, DoneIsCompleted

LEMMA SameDom == ASSUME AutofillInv, UNCHANGED dom PROVE dom' \in Dom
  BY DEF AutofillInv, AutofillType, Dom

LEMMA FillBeginsKeeps ==
    ASSUME AutofillInv, NEW c \in Run, NEW force \in BOOLEAN, F!Enter(c, force),
           UNCHANGED <<address, dom, done>>
    PROVE  AutofillInv'
<1>1. \A d \in Run : run[d].at = "idle"
  BY DEF F!Enter, AutofillInv, OneRun, F!InProgress, F!At
<1>2. PICK r \in FillRun : /\ run' = [run EXCEPT ![c] = r] /\ r.at = "load"
  <2>1. [F!Rest EXCEPT !.at = "load", !.force = force, !.fresh = TRUE] \in FillRun
    BY FillRestIsRun DEF FillRun, Stage
  <2>2. [F!Rest EXCEPT !.at = "load", !.force = force, !.fresh = TRUE].at = "load"
    BY DEF F!Rest
  <2>3. QED
    BY <2>1, <2>2 DEF F!Enter
<1>3. Becomes(c, r)
  BY <1>2 DEF Becomes, F!Enter
<1>4. /\ OneRun' /\ running' \in BOOLEAN /\ run' \in [Run -> FillRun] /\ run'[c] = r
      /\ \A d \in Run \ {c} : run'[d] = run[d]
  BY <1>1, <1>3, OneRunStays
<1>5. AutofillType'
  BY <1>4 DEF AutofillInv, AutofillType
<1>6. pageKey' = address'
  BY DEF F!Enter
<1>7. DoneIsCompleted'
  BY <1>6 DEF AutofillInv, DoneIsCompleted, F!Enter
<1>8. \A d \in Run : Awaits(d)'
  BY <1>1, <1>2, <1>4, <1>6 DEF Awaits, AtStep, F!At
<1>9. QED
  BY <1>4, <1>5, <1>7, <1>8 DEF AutofillInv

\* What happens around the engine.
LEMMA RunsUntouched ==
    ASSUME AutofillInv, UNCHANGED <<address, running, pageKey, completed, run, done>>, dom' \in Dom
    PROVE  AutofillInv'
<1>1. AutofillType'
  BY DEF AutofillInv, AutofillType, Dom
<1>2. OneRun'
  BY DEF AutofillInv, OneRun, F!InProgress, F!At
<1>3. \A c \in Run : Awaits(c)'
  BY DEF AutofillInv, Awaits, AtStep, F!At, F!Key, F!Rule
<1>4. QED
  BY <1>1, <1>2, <1>3, SameDone DEF AutofillInv

LEMMA TimerFiresKeeps == ASSUME AutofillInv, NEW c \in Run, F!TimerFires(c) PROVE AutofillInv'
<1>1. CASE F!Enter(c, FALSE)
  BY <1>1, FillBeginsKeeps DEF F!TimerFires, F!document
<1>2. CASE UNCHANGED <<running, pageKey, completed, run>>
  BY <1>2, SameDom, RunsUntouched DEF F!TimerFires, F!document
<1>3. QED
  BY <1>1, <1>2 DEF F!TimerFires

LEMMA FillCommandKeeps == ASSUME AutofillInv, NEW c \in Run, F!Command(c) PROVE AutofillInv'
  BY FillBeginsKeeps DEF F!Command, F!document, F!history

LEMMA LoadStateKeeps == ASSUME AutofillInv, NEW c \in Run, F!LoadState(c) PROVE AutofillInv'
<1>1. /\ UNCHANGED <<address, pageKey>> /\ dom' \in Dom /\ DoneIsCompleted' /\ ~F!At(c, "idle")
  BY SameDone, SameDom DEF F!LoadState, F!document, F!history, F!At
<1>2. PICK q \in FillRun : q = run[c]
  BY RunTyped
<1>3. CASE F!Exit(c)
  BY <1>1, <1>3, ExitGoes, MovedKeeps DEF GoesTo
<1>4. CASE /\ run' = [run EXCEPT ![c].at = "limits", ![c].left = F!Ordered(F!Matching(address))]
           /\ running' = running
  <2>1. PICK s \in Seq(Listed) : s = F!Ordered(F!Matching(address))
    BY OrderIsList DEF AutofillInv, AutofillType
  <2> DEFINE r == [q EXCEPT !.at = "limits", !.left = s]
  <2>2. run' = [run EXCEPT ![c] = r]
    BY <1>2, <1>4, <2>1 DEF AutofillInv, AutofillType
  <2>3. r \in FillRun /\ r.at = "limits" /\ r.fresh = q.fresh
    BY DEF FillRun, Stage
  <2>4. GoesTo(c, r, {"idle", "limits", "step"})
    BY <1>1, <1>2, <1>4, <2>2, <2>3, RunsOn DEF GoesTo, Becomes, AtStep
  <2>5. QED
    BY <1>1, <2>4, MovedKeeps
<1>5. QED
  BY <1>3, <1>4 DEF F!LoadState

LEMMA LoadFailsKeeps == ASSUME AutofillInv, NEW c \in Run, F!LoadFails(c) PROVE AutofillInv'
<1>1. /\ UNCHANGED <<address, pageKey>> /\ dom' \in Dom /\ DoneIsCompleted' /\ ~F!At(c, "idle")
  BY SameDone, SameDom DEF F!LoadFails, F!document, F!At
<1>2. QED
  BY <1>1, ExitGoes, MovedKeeps DEF F!LoadFails, GoesTo

LEMMA LoadRuntimeLimitsKeeps ==
    ASSUME AutofillInv, NEW c \in Run, F!LoadRuntimeLimits(c) PROVE AutofillInv'
<1>1. /\ UNCHANGED <<address, pageKey>> /\ dom' \in Dom /\ DoneIsCompleted' /\ ~F!At(c, "idle")
  BY SameDone, SameDom DEF F!LoadRuntimeLimits, F!document, F!history, F!At
<1>2. PICK q \in FillRun : q = run[c]
  BY RunTyped
<1>3. q.left \in Seq(Listed)
  BY DEF FillRun
<1>4. CASE F!Exit(c)
  BY <1>1, <1>4, ExitGoes, MovedKeeps DEF GoesTo
<1>5. CASE /\ F!Allowed(run[c].left) # <<>> /\ running' = running
           /\ run' = [run EXCEPT ![c].at = "step", ![c].left = F!Allowed(run[c].left)]
  <2>1. PICK s \in Seq(Listed) : s = F!Allowed(q.left)
    BY <1>3, AllowedIsList
  <2> DEFINE r == [q EXCEPT !.at = "step", !.left = s]
  <2>2. run' = [run EXCEPT ![c] = r]
    BY <1>2, <1>5, <2>1 DEF AutofillInv, AutofillType
  <2>3. r \in FillRun /\ r.at = "step" /\ r.left = s /\ r.fresh = q.fresh
    BY DEF FillRun, Stage
  <2>4. GoesTo(c, r, {"idle", "limits", "step"})
    BY <1>1, <1>2, <1>5, <2>1, <2>2, <2>3, RunsOn DEF GoesTo, Becomes, AtStep
  <2>5. QED
    BY <1>1, <2>4, MovedKeeps
<1>6. CASE run[c].left # <<>> /\ run' = [run EXCEPT ![c].at = "step"] /\ running' = running
  <2> DEFINE r == [q EXCEPT !.at = "step"]
  <2>1. run' = [run EXCEPT ![c] = r]
    BY <1>2, <1>6 DEF AutofillInv, AutofillType
  <2>2. r \in FillRun /\ r.at = "step" /\ r.left = q.left /\ r.fresh = q.fresh
    BY DEF FillRun, Stage
  <2>3. GoesTo(c, r, {"idle", "limits", "step"})
    BY <1>1, <1>2, <1>6, <2>1, <2>2, RunsOn DEF GoesTo, Becomes, AtStep
  <2>4. QED
    BY <1>1, <2>3, MovedKeeps
<1>7. QED
  BY <1>4, <1>5, <1>6 DEF F!LoadRuntimeLimits
-----------------------------------------------------------------------------
(* What a step writes.                                                     *)

\* A step that may be done: forced, or not done at this address.
MayDo(c, key) == /\ run[c].fresh => pageKey = address /\ key = F!Key(c)
                 /\ ~run[c].force => <<F!Rule(c), run[c].i>> \notin done

LEMMA PerformWrites ==
    ASSUME AutofillInv, NEW c \in Run, AtStep(run[c]), NEW key, MayDo(c, key),
           F!Perform(c, key), UNCHANGED <<address, pageKey>>
    PROVE  /\ AutofillInv'
           /\ run'[c] # run[c]
           /\ \A f \in F!Field : f # F!FieldOf(c) => dom'[f] = dom[f]
<1>1. PICK v \in {Blank, ByRule, User} : dom' = [dom EXCEPT ![F!FieldOf(c)] = v]
  BY DEF F!Perform
<1>2. dom' \in Dom /\ \A f \in F!Field : f # F!FieldOf(c) => dom'[f] = dom[f]
  BY <1>1, DomKeeps
<1>3. PICK r : GoesTo(c, r, {"idle", "step"}) /\ r # run[c]
  BY AdvanceGoes, AttemptedGoes DEF F!Perform
<1>4. GoesTo(c, r, {"idle", "limits", "step"}) /\ ~F!At(c, "idle")
  BY <1>3 DEF GoesTo, AtStep, F!At
<1>5. DoneIsCompleted'
  <2>1. CASE UNCHANGED <<completed, done>>
    BY <2>1, SameDone
  <2>2. CASE /\ completed' = completed \cup {key}
             /\ done' = IF run[c].fresh THEN done \cup {<<key[2], key[3]>>} ELSE done
    <3>1. DoneIsCompleted
      BY DEF AutofillInv
    <3>2. CASE run[c].fresh
      <4>1. key = <<address, key[2], key[3]>> /\ pageKey = address
        BY <3>2 DEF MayDo, F!Key
      <4>2. QED
        BY <2>2, <3>1, <3>2, <4>1 DEF DoneIsCompleted
    <3>3. CASE ~run[c].fresh
      BY <2>2, <3>1, <3>3 DEF DoneIsCompleted
    <3>4. QED
      BY <3>2, <3>3
  <2>3. QED
    BY <2>1, <2>2 DEF F!Perform
<1>6. AutofillInv'
  BY <1>2, <1>4, <1>5, MovedKeeps
<1>7. run'[c] = r
  BY <1>3 DEF GoesTo, Becomes, AutofillInv, AutofillType
<1>8. QED
  BY <1>2, <1>3, <1>6, <1>7

\* At its step a run may do what it has not completed at this address.
LEMMA NotCompletedMayBeDone ==
    ASSUME AutofillInv, NEW c \in Run, run[c].force \/ F!Key(c) \notin completed
    PROVE  MayDo(c, F!Key(c))
<1>1. run[c].fresh => pageKey = address
  BY DEF AutofillInv, Awaits
<1>2. <<F!Rule(c), run[c].i>> \in done => F!Key(c) \in completed
  BY DEF AutofillInv, DoneIsCompleted, F!Key
<1>3. QED
  BY <1>1, <1>2 DEF MayDo

LEMMA AwaitedMayBeDone ==
    ASSUME AutofillInv, NEW c \in Run, F!At(c, "target")
    PROVE  AtStep(run[c]) /\ MayDo(c, run[c].key)
  BY DEF AutofillInv, Awaits, AtStep, F!At, MayDo

LEMMA AwaitTargetKeeps ==
    ASSUME AutofillInv, NEW c \in Run, F!At(c, "step"), MayDo(c, F!Key(c)),
           run' = [run EXCEPT ![c].at = "target", ![c].key = F!Key(c)],
           UNCHANGED <<address, dom, running, pageKey, completed, done>>
    PROVE  AutofillInv'
<1>1. PICK q \in FillRun : q = run[c]
  BY RunTyped
<1>2. q.at = "step" /\ q.left # <<>> /\ running = TRUE
  BY <1>1, RunsOn DEF AutofillInv, Awaits, AtStep, F!At
<1>3. PICK k \in StepKey : k = F!Key(c)
  BY <1>1, <1>2, RunTyped
<1> DEFINE r == [q EXCEPT !.at = "target", !.key = k]
<1>4. run' = [run EXCEPT ![c] = r]
  BY <1>1, <1>3 DEF AutofillInv, AutofillType
<1>5. /\ r \in FillRun /\ r.at = "target" /\ r.key = k /\ r.left = q.left
      /\ r.fresh = q.fresh /\ r.i = q.i /\ r.force = q.force
  BY DEF FillRun, Stage
<1> HIDE DEF r
<1>6. Becomes(c, r) /\ \A d \in Run \ {c} : run[d].at = "idle"
  BY <1>2, <1>4, <1>5, RunsOn DEF Becomes, F!At
<1>7. /\ OneRun' /\ running' \in BOOLEAN /\ run' \in [Run -> FillRun] /\ run'[c] = r
      /\ \A d \in Run \ {c} : run'[d] = run[d]
  BY <1>6, OneRunStays
<1>8. AutofillType'
  BY <1>7 DEF AutofillInv, AutofillType
<1>9. Awaits(c)'
  BY <1>1, <1>2, <1>3, <1>5, <1>7 DEF MayDo, Awaits, AtStep, F!At, F!Key, F!Rule,
     AutofillInv
<1>10. ASSUME NEW d \in Run \ {c} PROVE Awaits(d)'
  <2>1. Awaits(d)
    BY DEF AutofillInv
  <2>2. QED
    BY <1>6, <1>7, <2>1 DEF Awaits, AtStep, F!At
<1>11. QED
  BY <1>7, <1>8, <1>9, <1>10, SameDone DEF AutofillInv

\* A run that goes on without doing its step.
LEMMA SkippedKeeps ==
    ASSUME AutofillInv, NEW c \in Run, AtStep(run[c]),
           F!Attempted(c) \/ \E stops : F!Advance(c, stops),
           UNCHANGED <<address, dom, pageKey, completed, done>>
    PROVE  AutofillInv'
<1>1. PICK r : GoesTo(c, r, {"idle", "step"})
  BY AdvanceGoes, AttemptedGoes
<1>2. GoesTo(c, r, {"idle", "limits", "step"}) /\ ~F!At(c, "idle")
  BY <1>1 DEF GoesTo, AtStep, F!At
<1>3. QED
  BY <1>2, SameDone, SameDom, MovedKeeps

LEMMA ExecuteStepKeeps == ASSUME AutofillInv, NEW c \in Run, F!ExecuteStep(c) PROVE AutofillInv'
<1>1. F!At(c, "step") /\ AtStep(run[c]) /\ UNCHANGED <<address, pageKey>>
  BY DEF F!ExecuteStep, F!At, AtStep
<1>2. CASE F!Advance(c, FALSE) /\ UNCHANGED <<dom, completed, F!history>>
  BY <1>1, <1>2, SkippedKeeps DEF F!history
<1>3. CASE run[c].force \/ F!Key(c) \notin completed
  <2>1. MayDo(c, F!Key(c))
    BY <1>3, NotCompletedMayBeDone
  <2>2. CASE F!Perform(c, F!Key(c))
    BY <1>1, <2>1, <2>2, PerformWrites
  <2>3. CASE /\ run' = [run EXCEPT ![c].at = "target", ![c].key = F!Key(c)]
             /\ UNCHANGED <<dom, running, completed, F!history>>
    BY <1>1, <2>1, <2>3, AwaitTargetKeeps DEF F!history
  <2>4. QED
    BY <1>3, <2>2, <2>3 DEF F!ExecuteStep
<1>4. QED
  BY <1>2, <1>3 DEF F!ExecuteStep

LEMMA TargetAppearsKeeps == ASSUME AutofillInv, NEW c \in Run, F!TargetAppears(c) PROVE AutofillInv'
  BY AwaitedMayBeDone, PerformWrites DEF F!TargetAppears

LEMMA TargetMissingKeeps == ASSUME AutofillInv, NEW c \in Run, F!TargetMissing(c) PROVE AutofillInv'
<1>1. AtStep(run[c]) /\ UNCHANGED <<address, dom, pageKey, completed, done>>
  BY DEF F!TargetMissing, F!document, F!At, AtStep
<1>2. F!Attempted(c) \/ \E stops : F!Advance(c, stops)
  BY DEF F!TargetMissing
<1>3. QED
  BY <1>1, <1>2, SkippedKeeps

LEMMA AroundTheEngine ==
    ASSUME AutofillInv,
           \/ \E f \in F!Field : F!Appear(f) \/ F!UserEdits(f)
           \/ F!ShowOrHide \/ F!Switch
    PROVE  AutofillInv'
<1>1. CASE \E f \in F!Field : F!UserEdits(f)
  <2>1. PICK f \in F!Field : F!UserEdits(f)
    BY <1>1
  <2>2. dom' \in Dom
    BY <2>1, DomKeeps DEF F!UserEdits
  <2>3. QED
    BY <2>1, <2>2, RunsUntouched DEF F!UserEdits, F!engine, F!history
<1>2. CASE F!ShowOrHide \/ F!Switch \/ \E f \in F!Field : F!Appear(f)
  BY <1>2, SameDom, RunsUntouched DEF F!ShowOrHide, F!Switch, F!Appear, F!document,
     F!engine, F!history
<1>3. QED
  BY <1>1, <1>2

\* After a change of address no run is of this address, and none has done a step of it.
LEMMA AddressChangeKeeps ==
    ASSUME AutofillInv, NEW a \in Address, F!Navigate(a) PROVE AutofillInv'
<1>1. /\ run \in [Run -> FillRun] /\ run' = [c \in Run |-> [run[c] EXCEPT !.fresh = FALSE]]
      /\ address' \in Address /\ done' = {} /\ UNCHANGED running
  BY DEF F!Navigate, AutofillInv, AutofillType
<1>2. ASSUME NEW q \in FillRun
      PROVE  LET r == [q EXCEPT !.fresh = FALSE]
             IN /\ r \in FillRun /\ r.at = q.at /\ r.left = q.left /\ ~r.fresh
  BY DEF FillRun
<1>3. ASSUME NEW c \in Run
      PROVE  run'[c] \in FillRun /\ run'[c].at = run[c].at /\ run'[c].left = run[c].left
             /\ ~run'[c].fresh
  <2>1. run[c] \in FillRun /\ run'[c] = [run[c] EXCEPT !.fresh = FALSE]
    BY <1>1
  <2>2. QED
    BY <1>2, <2>1
<1>4. run' \in [Run -> FillRun]
  <2>1. run' = [c \in Run |-> run'[c]]
    BY <1>1
  <2>2. QED
    BY <1>3, <2>1
<1>5. dom' \in Dom
  BY DEF F!Navigate, Dom
<1>6. AutofillType'
  BY <1>1, <1>4, <1>5 DEF AutofillInv, AutofillType, Dom
<1>7. OneRun'
  BY <1>1, <1>3 DEF AutofillInv, OneRun, F!InProgress, F!At
<1>8. DoneIsCompleted'
  BY <1>1 DEF DoneIsCompleted
<1>9. ASSUME NEW c \in Run PROVE Awaits(c)'
  <2>1. AtStep(run'[c]) => run'[c].left # <<>>
    BY <1>3 DEF AutofillInv, Awaits, AtStep
  <2>2. ~run'[c].fresh /\ done' = {}
    BY <1>1, <1>3
  <2>3. QED
    BY <2>1, <2>2 DEF Awaits, AtStep
<1>10. QED
  BY <1>6, <1>7, <1>8, <1>9 DEF AutofillInv

LEMMA AutofillKeeps == ASSUME AutofillInv, F!Next PROVE AutofillInv'
<1>1. CASE \E c \in Run : F!Continue(c)
  BY <1>1, LoadStateKeeps, LoadRuntimeLimitsKeeps, ExecuteStepKeeps, TargetAppearsKeeps,
     TargetMissingKeeps DEF F!Continue
<1>2. CASE \E c \in Run : F!TimerFires(c) \/ F!LoadFails(c) \/ F!Command(c)
  BY <1>2, TimerFiresKeeps, LoadFailsKeeps, FillCommandKeeps
<1>3. CASE \E a \in Address : F!Navigate(a)
  BY <1>3, AddressChangeKeeps
<1>4. QED
  BY <1>1, <1>2, <1>3, AroundTheEngine DEF F!Next

LEMMA AutofillSteps ==
    ASSUME [Next]_vars, part = "autofill"
    PROVE  part' = part /\ (F!Next \/ UNCHANGED autofillVars)
<1>1. CASE Next
  BY <1>1 DEF Next, CaptchaStep, RecorderStep, AutofillStep, PagesStep
<1>2. CASE UNCHANGED vars
  BY <1>2 DEF vars
<1>3. QED
  BY <1>1, <1>2

IfAutofill == part = "autofill" => AutofillInv

LEMMA AutofillAlways == Spec => []IfAutofill
<1>1. Init => IfAutofill
  BY AutofillInit DEF Init, IfAutofill
<1>2. UNCHANGED autofillVars /\ AutofillInv => AutofillInv'
  BY SameDom, RunsUntouched DEF autofillVars
<1>3. IfAutofill /\ [Next]_vars => IfAutofill'
  BY <1>2, PartStays, AutofillSteps, AutofillKeeps DEF IfAutofill
<1>4. QED
  BY <1>1, <1>3, PTL DEF Spec

\* Only a step of a run writes what the page or the user did not.
LEMMA WritesAreSteps ==
    ASSUME AutofillInv, F!Next, NEW f \in F!Field, F!Overwrites(f)
    PROVE  \E c \in Run : F!Writes(c, f) /\ F!MayOverwrite(c)
<1>1. dom'[f] # dom[f] /\ dom'[f] # User /\ address' = address
  BY Names DEF F!Overwrites
<1>2. ASSUME NEW c \in Run, AtStep(run[c]), NEW key, MayDo(c, key), F!Perform(c, key),
             UNCHANGED <<address, pageKey>>
      PROVE  F!Writes(c, f) /\ F!MayOverwrite(c)
  <2>1. run'[c] # run[c] /\ f = F!FieldOf(c)
    BY <1>1, <1>2, PerformWrites
  <2>2. QED
    BY <1>2, <2>1 DEF F!Writes, F!MayOverwrite, MayDo, AtStep
<1>3. CASE \E c \in Run : F!ExecuteStep(c)
  <2>1. PICK c \in Run : F!ExecuteStep(c)
    BY <1>3
  <2>2. F!Perform(c, F!Key(c)) /\ (run[c].force \/ F!Key(c) \notin completed)
    BY <1>1, <2>1 DEF F!ExecuteStep
  <2>3. AtStep(run[c]) /\ UNCHANGED <<address, pageKey>>
    BY <2>1 DEF F!ExecuteStep, F!At, AtStep
  <2>4. QED
    BY <1>2, <2>2, <2>3, NotCompletedMayBeDone
<1>4. CASE \E c \in Run : F!TargetAppears(c)
  BY <1>2, <1>4, AwaitedMayBeDone DEF F!TargetAppears
<1>5. CASE \E g \in F!Field : F!UserEdits(g)
  <2>1. PICK g \in F!Field : F!UserEdits(g)
    BY <1>5
  <2>2. dom' = [dom EXCEPT ![g] = User] /\ dom \in Dom
    BY <2>1 DEF F!UserEdits, AutofillInv, AutofillType, Dom
  <2>3. QED
    BY <1>1, <2>2 DEF Dom
<1>6. CASE UNCHANGED dom \/ \E a \in Address : F!Navigate(a)
  BY <1>1, <1>6 DEF F!Navigate
<1>7. QED
  BY <1>3, <1>4, <1>5, <1>6 DEF F!Next, F!Continue, F!LoadState, F!LoadRuntimeLimits,
     F!TargetMissing, F!TimerFires, F!LoadFails, F!Command, F!Appear, F!ShowOrHide,
     F!Switch, F!document

\* An automatic run writes over what the user has written only for a step that no run
\* begun at the document's address has done since it came to it: completedStepKeys is
\* kept per address, and the first run begun there forgets what an earlier one did.
THEOREM EditsSurviveAutomaticRunsAlways == Spec => EditsSurviveAutomaticRuns
<1>1. IfAutofill /\ [Next]_vars =>
          [part = "autofill" =>
              \A f \in F!Field :
                  F!Overwrites(f) => \E c \in Run : F!Writes(c, f) /\ F!MayOverwrite(c)]_vars
  <2> SUFFICES ASSUME IfAutofill, [Next]_vars, part = "autofill",
                      NEW f \in F!Field, F!Overwrites(f)
               PROVE  \E c \in Run : F!Writes(c, f) /\ F!MayOverwrite(c)
    OBVIOUS
  <2>1. AutofillInv /\ (F!Next \/ UNCHANGED autofillVars)
    BY AutofillSteps DEF IfAutofill
  <2>2. dom[f] = User /\ dom'[f] \in {ByRule, Blank}
    BY DEF F!Overwrites
  <2>3. CASE UNCHANGED autofillVars
    BY <2>2, <2>3, Names DEF autofillVars
  <2>4. QED
    BY <2>1, <2>3, WritesAreSteps
<1>2. QED
  BY <1>1, AutofillAlways, PTL DEF Spec, EditsSurviveAutomaticRuns
=============================================================================
