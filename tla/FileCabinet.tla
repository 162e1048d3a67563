----------------------------- MODULE FileCabinet -----------------------------
(***************************************************************************)
(* What a drive promises about its files: a version takes the place of the *)
(* content that its author had seen, which goes to the older ones; so only *)
(* what two authors replace at once can get lost.  A file shows nothing    *)
(* that the store has not taken, shares nothing with another, and is       *)
(* erased only as ripe trash that nobody works on and that was not held    *)
(* when its erasure was decided: from then on a hold comes too late.       *)
(***************************************************************************)
CONSTANTS Files, Keys, None

VARIABLES
    state,           \* NONE, LIVE, TRASH or GONE
    current, older,  \* the content of each file, and those it had
    ripe, held,      \* files long enough in the trash; files under a hold
    doomed,          \* files the erasure of which is decided
    objects,         \* the contents in the store
    drafts,          \* versions under way: for a file, a content, seen when it had another
    doubted          \* contents whose author was not told that they are in place

cabinet == <<state, current, older, ripe, held, doomed, objects, drafts, doubted>>

Draft == [file: Files, key: Keys, on: Keys]

Is(f, s) == state[f] = s
Contents(f) == (older[f] \cup {current[f]}) \ {None}
Known(k) == \E f \in Files : k \in Contents(f)

Init ==
    /\ state = [f \in Files |-> "NONE"] /\ current = [f \in Files |-> None]
    /\ older = [f \in Files |-> {}]
    /\ ripe = {} /\ held = {} /\ doomed = {} /\ objects = {} /\ drafts = {} /\ doubted = {}

\* The store takes a content, in answer to an author who may be gone by then.
Store(k) ==
    /\ ~Known(k) /\ objects' = objects \cup {k} /\ drafts' \subseteq drafts
    /\ UNCHANGED <<state, current, older, ripe, held, doomed, doubted>>

MayDoubt(k) == doubted' \in {doubted, doubted \cup {k}}

Add(f, k) ==
    /\ Is(f, "NONE") /\ k \in objects /\ ~Known(k)
    /\ state' = [state EXCEPT ![f] = "LIVE"] /\ current' = [current EXCEPT ![f] = k]
    /\ MayDoubt(k)
    /\ UNCHANGED <<older, ripe, held, doomed, objects, drafts>>

Begin(d) ==
    /\ Is(d.file, "LIVE") /\ d.on = current[d.file] /\ drafts' = drafts \cup {d}
    /\ UNCHANGED <<state, current, older, ripe, held, doomed, objects, doubted>>

\* A new content, or an older one of the same file again.
Publish(d) ==
    LET f == d.file IN
    /\ d \in drafts /\ drafts' \in {drafts, drafts \ {d}}
    /\ state[f] \in {"LIVE", "TRASH"} /\ f \notin ripe
    /\ current' = [current EXCEPT ![f] = d.key] /\ older' = [older EXCEPT ![f] = @ \cup {d.on}]
    /\ \/ d.key \in objects /\ ~Known(d.key) /\ MayDoubt(d.key)
       \/ d.key \in older[f] /\ UNCHANGED doubted
    /\ UNCHANGED <<state, ripe, held, doomed, objects>>

\* Authors give up, and may wonder whether what they had stored is of use.
Forget ==
    /\ drafts' \subseteq drafts /\ \A k \in doubted' \ doubted : ~Known(k)
    /\ UNCHANGED <<state, current, older, ripe, held, doomed, objects>>

\* An author in doubt takes a content away, or it belongs to ripe trash.
Remove(k) ==
    /\ k \in doubted \/ \A f \in Files : k \in Contents(f) => Is(f, "TRASH") /\ f \in ripe
    /\ objects' = objects \ {k} /\ doubted' \in {doubted, doubted \ {k}}
    /\ UNCHANGED <<state, current, older, ripe, held, doomed, drafts>>

Trash(f) ==
    /\ Is(f, "LIVE") /\ state' = [state EXCEPT ![f] = "TRASH"]
    /\ UNCHANGED <<current, older, ripe, held, doomed, objects, drafts, doubted>>

Ripen(f) ==
    /\ Is(f, "TRASH") /\ ripe' = ripe \cup {f}
    /\ UNCHANGED <<state, current, older, held, doomed, objects, drafts, doubted>>

\* A hold may come so late that what it names is gone.
HoldOrRelease(f) ==
    /\ ~Is(f, "NONE") /\ held' \in {held \cup {f}, held \ {f}}
    /\ UNCHANGED <<state, current, older, ripe, doomed, objects, drafts, doubted>>

Condemn(f) ==
    /\ Is(f, "TRASH") /\ f \in ripe \ held /\ doomed' = doomed \cup {f}
    /\ UNCHANGED <<state, current, older, ripe, held, objects, drafts, doubted>>

Spare ==
    /\ doomed' \subseteq doomed
    /\ UNCHANGED <<state, current, older, ripe, held, objects, drafts, doubted>>

Erase(f) ==
    /\ Is(f, "TRASH") /\ f \in ripe \cap doomed /\ \A d \in drafts : d.file # f
    /\ state' = [state EXCEPT ![f] = "GONE"] /\ current' = [current EXCEPT ![f] = None]
    /\ older' = [older EXCEPT ![f] = {}] /\ ripe' = ripe \ {f}
    /\ doomed' \in {doomed, doomed \ {f}}
    /\ UNCHANGED <<held, objects, drafts, doubted>>

Next ==
    \/ \E k \in Keys : Store(k) \/ Remove(k) \/ \E f \in Files : Add(f, k)
    \/ \E d \in Draft : Begin(d) \/ Publish(d)
    \/ Forget \/ Spare
    \/ \E f \in Files : \/ Trash(f) \/ Ripen(f) \/ HoldOrRelease(f)
                         \/ Condemn(f) \/ Erase(f)

Spec == Init /\ [][Next]_cabinet
==============================================================================
