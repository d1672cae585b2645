--------------------------- MODULE ExtensionPages ---------------------------
(***************************************************************************)
(* Who edits the automations (options/options.js, popup/popup.js, the      *)
(* recorder's handler).  Rules, scripts and captcha routes are items of    *)
(* one or more profiles, each kind of item under one key of the storage.   *)
(* An options page loads everything once, edits its copy and writes whole  *)
(* keys; the popup and the recorder read a key, then write it whole.       *)
(* Nothing tells a page that its copy is old.                              *)
(***************************************************************************)
EXTENDS Naturals, FiniteSets

CONSTANTS
    Page,     \* options pages
    Profile,  \* profiles besides Global
    Global,   \* DEFAULT_PROFILE_ID
    Item,     \* rules, scripts, captcha routes
    KindOf,   \* the key of each item
    Others,   \* the kinds the popup and the recorder write
    MaxEdits, \* bound on edits, loads and failures
    None

VARIABLES
    store,    \* profiles, the profiles of each item ({}: no such item), the active one
    copy,     \* state of each options page
    behind,   \* keys others have written since the page, or the other, read them
    other,    \* what the writer of each kind has read, or None
    cloud,    \* the copy that was last pushed
    asked,    \* history: items each page was told to delete
    crossed,  \* history: a key was written by one that was behind
    refused,  \* history: the storage refused an edit, which the page's copy keeps
    orphaned, \* history: the active profile was deleted
    edits

pages == <<copy, behind, other>>
history == <<asked, crossed, refused, orphaned>>
vars == <<store, pages, cloud, history, edits>>

Kind == {KindOf[i] : i \in Item}
Keys == Kind \cup {"profiles", "settings"}
Items(k) == {i \in Item : KindOf[i] = k}
Reader == Page \cup Others
Nothing == [i \in Item |-> {}]
IsOpen(p) == copy[p] # None
Happens == edits < MaxEdits /\ edits' = edits + 1

Init == /\ \E S \in SUBSET Profile :
              store = [profiles |-> S, items |-> Nothing, active |-> Global]
        /\ copy = [p \in Page |-> None]
        /\ behind = [r \in Reader |-> {}]
        /\ other = [k \in Others |-> None]
        /\ cloud = None
        /\ asked = [p \in Page |-> {}]
        /\ crossed = FALSE /\ refused = FALSE /\ orphaned = FALSE /\ edits = 0
-----------------------------------------------------------------------------
(* An options page: loadState, then edits of the copy.                     *)

Load(p) ==
    /\ Happens
    /\ copy' = [copy EXCEPT ![p] = store]
    /\ behind' = [behind EXCEPT ![p] = {}]
    /\ asked' = [asked EXCEPT ![p] = {}]
    /\ UNCHANGED <<store, other, cloud, crossed, refused, orphaned>>

\* Everyone else is behind on the keys that `who` writes.
Written(who, keys) ==
    /\ behind' = [r \in Reader |-> IF r = who THEN behind[r] \ keys ELSE behind[r] \cup keys]
    /\ crossed' = (crossed \/ (who \in Reader /\ behind[who] \cap keys # {}))

Merged(c, keys) ==
    [profiles |-> IF "profiles" \in keys THEN c.profiles ELSE store.profiles,
     items    |-> [i \in Item |-> IF KindOf[i] \in keys THEN c.items[i] ELSE store.items[i]],
     active   |-> IF "settings" \in keys THEN c.active ELSE store.active]

\* The copy is changed first; when the storage refuses, it stays changed.
Edit(p, c, keys) ==
    /\ Happens
    /\ copy' = [copy EXCEPT ![p] = c]
    /\ \/ store' = Merged(c, keys) /\ Written(p, keys) /\ UNCHANGED refused
       \/ refused' = TRUE /\ UNCHANGED <<store, behind, crossed>>
    /\ UNCHANGED <<other, cloud>>

Choices(p) == copy[p].profiles \cup {Global}
HasItem(p, i) == copy[p].items[i] # {}

\* saveRule, saveScript, saveCaptchaConfig, cloneProfileItem: the profile joins.  A
\* captcha route whose selectors or domain change is read as the same item: the code
\* gives it a new id, and under the old one takes the profile away or drops the route.
SaveItem(p, i, prof) ==
    /\ IsOpen(p) /\ prof \in Choices(p)
    /\ Edit(p, [copy[p] EXCEPT !.items[i] = @ \cup {prof}], {KindOf[i]})
    /\ UNCHANGED <<asked, orphaned>>

\* removeItemProfile: an item keeps a profile, and Global is left for no other.
Without(ids, prof) == IF ids = {prof} THEN {Global} ELSE ids \ {prof}

\* deleteProfile: a captcha route has Global for the profile whatever others it has.
Disowned(i, ids, prof) ==
    IF KindOf[i] = "routes" THEN (ids \ {prof}) \cup {Global} ELSE Without(ids, prof)

RemoveFromProfile(p, i, prof) ==
    /\ IsOpen(p) /\ prof \in copy[p].items[i]
    /\ copy[p].items[i] # {Global}
    /\ Edit(p, [copy[p] EXCEPT !.items[i] = Without(@, prof)], {KindOf[i]})
    /\ UNCHANGED <<asked, orphaned>>

DeleteItem(p, i) ==
    /\ IsOpen(p) /\ HasItem(p, i)
    /\ asked' = [asked EXCEPT ![p] = @ \cup {i}]
    /\ Edit(p, [copy[p] EXCEPT !.items[i] = {}], {KindOf[i]})
    /\ UNCHANGED orphaned

SaveProfile(p, prof) ==
    /\ IsOpen(p)
    /\ Edit(p, [copy[p] EXCEPT !.profiles = @ \cup {prof}], {"profiles"})
    /\ UNCHANGED <<asked, orphaned>>

\* MUTANT of DeleteProfile: the items are moved in the page's copy only.
DeleteProfileAlone(p, prof) ==
    /\ IsOpen(p) /\ prof \in copy[p].profiles
    /\ Edit(p, [copy[p] EXCEPT !.profiles = @ \ {prof},
                               !.items = [i \in Item |-> IF prof \in @[i] THEN Disowned(i, @[i], prof) ELSE @[i]]],
            {"profiles", "settings"})
    /\ orphaned' = (orphaned \/ copy[p].active = prof)
    /\ UNCHANGED asked

\* The active profile is asked for once the profile is gone from the copy, and
\* then is Global: the settings go on naming the profile that was deleted.
ActiveOf(c) == IF c.active \in c.profiles THEN c.active ELSE Global

DeleteProfile(p, prof) ==
    /\ IsOpen(p) /\ prof \in copy[p].profiles
    /\ LET rest == [copy[p] EXCEPT !.profiles = @ \ {prof},
                                   !.items = [i \in Item |-> IF prof \in @[i] THEN Disowned(i, @[i], prof) ELSE @[i]]]
       IN Edit(p, [rest EXCEPT !.active = IF ActiveOf(rest) = prof THEN Global ELSE @], Keys)
    /\ orphaned' = (orphaned \/ copy[p].active = prof)
    /\ UNCHANGED asked

SetActiveProfile(p, prof) ==
    /\ IsOpen(p) /\ prof \in Choices(p)
    /\ Edit(p, [copy[p] EXCEPT !.active = prof], {"settings"})
    /\ UNCHANGED <<asked, orphaned>>

\* MUTANT of RestoreBackup: what the page had goes.
RestoreBackupReplaces(p, S, prof) ==
    /\ IsOpen(p) /\ prof \notin copy[p].profiles \cup store.profiles
    /\ S # {} /\ \A i \in S : copy[p].items[i] = {} /\ store.items[i] = {}
    /\ Edit(p, [profiles |-> copy[p].profiles \cup {prof},
                items |-> [i \in Item |-> IF i \in S THEN {prof} ELSE {}],
                active |-> prof], Keys)
    /\ UNCHANGED <<asked, orphaned>>

\* MUTANT of RestoreBackup: the new profile is not saved.
RestoreBackupHalf(p, S, prof) ==
    /\ IsOpen(p) /\ prof \notin copy[p].profiles \cup store.profiles
    /\ S # {} /\ \A i \in S : copy[p].items[i] = {} /\ store.items[i] = {}
    /\ Edit(p, [profiles |-> copy[p].profiles,
                items |-> [i \in Item |-> IF i \in S THEN {prof} ELSE copy[p].items[i]],
                active |-> prof], Keys)
    /\ UNCHANGED <<asked, orphaned>>

\* restoreBackup: new items in a new profile, which becomes the active one.
RestoreBackup(p, S, prof) ==
    /\ IsOpen(p) /\ prof \notin copy[p].profiles \cup store.profiles
    /\ S # {} /\ \A i \in S : copy[p].items[i] = {} /\ store.items[i] = {}
    /\ Edit(p, [profiles |-> copy[p].profiles \cup {prof},
                items |-> [i \in Item |-> IF i \in S THEN {prof} ELSE copy[p].items[i]],
                active |-> prof], Keys)
    /\ UNCHANGED <<asked, orphaned>>
-----------------------------------------------------------------------------
(* The popup and the recorder: a key is read, and written some time later. *)

ReadKind(k) ==
    /\ other[k] = None /\ Happens
    /\ other' = [other EXCEPT ![k] = store.items]
    /\ behind' = [behind EXCEPT ![k] = {}]
    /\ UNCHANGED <<store, copy, cloud, history>>

\* RECORDER_SAVE_RULE and saveCaptchaRoute add an item, togglePopupScript none.
WriteKind(k, i) ==
    /\ other[k] # None /\ i \in Items(k)
    /\ store' = [store EXCEPT !.items = [j \in Item |->
                    IF KindOf[j] # k THEN store.items[j]
                    ELSE IF j = i THEN other[k][j] \cup {Global} ELSE other[k][j]]]
    /\ other' = [other EXCEPT ![k] = None]
    /\ Written(k, {k})
    /\ UNCHANGED <<copy, cloud, asked, refused, orphaned, edits>>
-----------------------------------------------------------------------------
(* Synchronisation (CloudSync): the whole is pushed, and pulled.           *)

Push == /\ Happens
        /\ cloud' = store
        /\ UNCHANGED <<store, pages, history>>

\* Only the options page that asked for the pull loads what came.
Pull(p) ==
    /\ cloud # None /\ Happens
    /\ store' = cloud
    /\ behind' = [r \in Reader |-> IF r = p THEN {} ELSE Keys]
    /\ copy' = IF p \in Page THEN [copy EXCEPT ![p] = cloud] ELSE copy
    /\ UNCHANGED <<other, cloud, history>>
-----------------------------------------------------------------------------
Editing(p) == \/ \E i \in Item, prof \in Profile \cup {Global} :
                    SaveItem(p, i, prof) \/ RemoveFromProfile(p, i, prof)
              \/ \E i \in Item : DeleteItem(p, i)
              \/ \E prof \in Profile : SaveProfile(p, prof) \/ DeleteProfile(p, prof)
              \/ \E prof \in Profile \cup {Global} : SetActiveProfile(p, prof)
              \/ \E prof \in Profile, S \in SUBSET Item : RestoreBackup(p, S, prof)

Next == \/ \E p \in Page : Load(p) \/ Editing(p)
        \/ \E k \in Others : ReadKind(k) \/ \E i \in Item : WriteKind(k, i)
        \/ Push \/ \E p \in Page \cup {None} : Pull(p)
-----------------------------------------------------------------------------
(* How an item may leave, and what names a profile that exists.            *)

Leaves(i) == store.items[i] # {} /\ store'.items[i] = {}
Meant(i) == (\E p \in Page : i \in asked'[p]) \/ \E p \in Page \cup {None} : Pull(p)
ItemsAreOf(ids) == \A i \in Item : store.items[i] \subseteq ids
Existing == store.profiles \cup {Global}
=============================================================================
