------------------------------- MODULE SeaDeps -------------------------------
(***************************************************************************)
(* The dependency tree of a naude executable: every launch materialises    *)
(* the embedded packages into <cache>/sea-deps/<sig>, which all launches   *)
(* of that build share, and then runs from it (materializeDeps).  The      *)
(* cache may be the system's temporary directory, whose cleaner deletes    *)
(* old files and leaves their directories.  Launches race, may be killed   *)
(* anywhere, and process ids are reused.                                   *)
(***************************************************************************)
EXTENDS Naturals

CONSTANTS Pids,       \* process ids; one launch at a time has each
          Packages,   \* packages of the embedded tarball
          DotEntry,   \* what else it unpacks under node_modules (.bin)
          MaxFaults   \* kills and failures (a bound for TLC)

ASSUME SeaAssumption ==
  /\ DotEntry \notin Packages
  /\ MaxFaults \in Nat

Entries == Packages \cup {DotEntry}

\* A path holds a tree or nothing: whether a marker is in it, the packages the
\* marker lists, and what is there.  A package is there or not as a whole: its
\* package.json stands for it.
Trees == [there : BOOLEAN, marked : BOOLEAN, listed : SUBSET Packages, have : SUBSET Entries]
NoTree    == [there |-> FALSE, marked |-> FALSE, listed |-> {}, have |-> {}]
EmptyTree == [NoTree EXCEPT !.there = TRUE]

VARIABLES
  dir,         \* the tree at <cache>/sea-deps/<sig>, or NoTree
  tmp, stale,  \* pid -> the tree at `.partial-<pid>`, at `.stale-<pid>`
  pc,
  aged,        \* the tree at dir is old enough for the cleaner
  faults,
  gap,         \* history: a launch died between moving dir aside and publishing
  displaced,   \* history: a whole tree was moved aside
  cleaned,     \* history: running launches whose tree the cleaner reached
  littered     \* history: pids that died, failed, or could not delete a tree

trees   == <<dir, tmp, stale>>
history == <<gap, displaced, cleaned, littered>>
vars    == <<trees, pc, aged, faults, history>>

-----------------------------------------------------------------------------
\* Mutants: the old check, of the directory only; a list with the dot entries.
JustThere(t) == t.there
EveryEntry(t) == t.have

\* unpackedWhole: the marker is there and all it lists is there.
UnpackedWhole(t) == t.marked /\ t.listed \subseteq t.have

\* What the marker lists: packages, not entries whose name starts with a dot.
PackageManifests(t) == t.have \cap Packages

Complete(t) == t.there /\ Packages \subseteq t.have

Resting == {"idle", "running", "unpackFailed", "placeFailed"}
Placing == {"placing", "moving", "deleting", "publishing", "lost"}
Fault == faults < MaxFaults /\ faults' = faults + 1
Goto(p, next) == pc' = [pc EXCEPT ![p] = next]

Init ==
  /\ \/ dir = NoTree
     \/ \E S \in SUBSET Entries : \E marked \in BOOLEAN :
          dir = [there |-> TRUE, marked |-> marked, listed |-> IF marked THEN Packages ELSE {},
                 have |-> S]
  /\ tmp = [p \in Pids |-> NoTree]
  /\ stale = [p \in Pids |-> NoTree]
  /\ pc = [p \in Pids |-> "idle"]
  /\ aged = TRUE
  /\ faults = 0 /\ gap = FALSE /\ displaced = FALSE
  /\ cleaned = {} /\ littered = {}

-----------------------------------------------------------------------------
\* A launch begins; a whole tree is run from as it is.
Launch(p) ==
  /\ pc[p] \in {"idle", "unpackFailed", "placeFailed"}
  /\ Goto(p, IF UnpackedWhole(dir) THEN "running" ELSE "clearing")
  /\ UNCHANGED <<trees, aged, faults, history>>

\* rm -rf of a partial tree an earlier process of this id left, then mkdir.
Clear(p) ==
  /\ pc[p] = "clearing"
  /\ tmp' = [tmp EXCEPT ![p] = EmptyTree]
  /\ Goto(p, "unpacking")
  /\ UNCHANGED <<dir, stale, aged, faults, history>>

\* Mutant: how tar ended is not looked at.
UnpackAnyhow(p) ==
  /\ pc[p] = "unpacking"
  /\ \E S \in SUBSET Entries : tmp' = [tmp EXCEPT ![p].have = S]
  /\ Goto(p, "marking")
  /\ UNCHANGED <<dir, stale, aged, faults, history>>

Unpack(p) ==
  /\ pc[p] = "unpacking"
  /\ tmp' = [tmp EXCEPT ![p].have = Entries]
  /\ Goto(p, "marking")
  /\ UNCHANGED <<dir, stale, aged, faults, history>>

\* No tar, no space, a write error: the exception leaves what was unpacked.
UnpackFails(p) ==
  /\ pc[p] = "unpacking"
  /\ Fault
  /\ \E S \in SUBSET Entries : tmp' = [tmp EXCEPT ![p].have = S]
  /\ littered' = littered \cup {p}
  /\ Goto(p, "unpackFailed")
  /\ UNCHANGED <<dir, stale, aged, gap, displaced, cleaned>>

WriteMarker(p) ==
  /\ pc[p] = "marking"
  /\ tmp' = [tmp EXCEPT ![p].marked = TRUE,
                         ![p].listed = PackageManifests(tmp[p])]
  /\ Goto(p, "placing")
  /\ UNCHANGED <<dir, stale, aged, faults, history>>

\* Mutant: a tree that is there is never moved aside.
RecheckNothing(p) ==
  /\ pc[p] = "placing"
  /\ Goto(p, "publishing")
  /\ UNCHANGED <<trees, aged, faults, history>>

\* Is there a tree in the way that is not whole?
Recheck(p) ==
  /\ pc[p] = "placing"
  /\ Goto(p, IF dir.there /\ ~UnpackedWhole(dir) THEN "moving" ELSE "publishing")
  /\ UNCHANGED <<trees, aged, faults, history>>

\* rename(dir, .stale-<pid>), whatever is at dir by now.
MoveAside(p) ==
  /\ pc[p] = "moving" /\ dir.there /\ ~stale[p].there
  /\ stale' = [stale EXCEPT ![p] = dir]
  /\ dir' = NoTree
  /\ displaced' = (displaced \/ UnpackedWhole(dir))
  /\ Goto(p, "deleting")
  /\ UNCHANGED <<tmp, aged, faults, gap, cleaned, littered>>

\* Another launch moved it first, or a tree left at .stale-<pid> is in the way.
MoveRefused(p) ==
  /\ pc[p] = "moving" /\ (~dir.there \/ stale[p].there)
  /\ Goto(p, "publishing")
  /\ UNCHANGED <<trees, aged, faults, history>>

\* rm -rf of what was moved aside; a failure leaves it and is ignored.
DeleteStale(p) ==
  /\ pc[p] = "deleting"
  /\ \/ stale' = [stale EXCEPT ![p] = NoTree] /\ UNCHANGED <<faults, littered>>
     \/ Fault /\ littered' = littered \cup {p} /\ UNCHANGED stale
  /\ Goto(p, "publishing")
  /\ UNCHANGED <<dir, tmp, aged, gap, displaced, cleaned>>

\* rename(.partial-<pid>, dir): no rename replaces a directory with files in it.
Publish(p) ==
  /\ pc[p] = "publishing" /\ ~dir.there
  /\ dir' = tmp[p]
  /\ tmp' = [tmp EXCEPT ![p] = NoTree]
  /\ aged' = FALSE
  /\ gap' = FALSE
  /\ Goto(p, "running")
  /\ UNCHANGED <<stale, faults, displaced, cleaned, littered>>

PublishRefused(p) ==
  /\ pc[p] = "publishing" /\ dir.there
  /\ Goto(p, "lost")
  /\ UNCHANGED <<trees, aged, faults, history>>

\* Mutant: the loser of a race leaves its own tree behind.
KeepOwn(p) ==
  /\ pc[p] = "lost" /\ UnpackedWhole(dir)
  /\ Goto(p, "running")
  /\ UNCHANGED <<trees, aged, faults, history>>

\* Another launch published first: run from its tree, drop one's own ...
DropOwn(p) ==
  /\ pc[p] = "lost" /\ UnpackedWhole(dir)
  /\ tmp' = [tmp EXCEPT ![p] = NoTree]
  /\ Goto(p, "running")
  /\ UNCHANGED <<dir, stale, aged, faults, history>>

\* ... or fail, with the exception of the rename.
PlaceFails(p) ==
  /\ pc[p] = "lost" /\ ~UnpackedWhole(dir)
  /\ littered' = littered \cup {p}
  /\ Goto(p, "placeFailed")
  /\ UNCHANGED <<trees, aged, faults, gap, displaced, cleaned>>

Exit(p) ==
  /\ pc[p] = "running"
  /\ cleaned' = cleaned \ {p}
  /\ Goto(p, "idle")
  /\ UNCHANGED <<trees, aged, faults, gap, displaced, littered>>

Crash(p) ==
  /\ pc[p] \notin Resting /\ Fault
  /\ littered' = littered \cup {p}
  /\ gap' = (gap \/ (pc[p] \in {"deleting", "publishing"} /\ ~dir.there))
  /\ Goto(p, "idle")
  /\ UNCHANGED <<trees, aged, displaced, cleaned>>

-----------------------------------------------------------------------------
\* Days go by, in which no launch is still unpacking.
DaysPass ==
  /\ \A p \in Pids : pc[p] \in Resting
  /\ ~aged /\ dir.there
  /\ aged' = TRUE
  /\ UNCHANGED <<trees, pc, faults, history>>

\* The cleaner deletes an old file of the tree and leaves the directories.
Clean ==
  /\ aged /\ dir.there
  /\ \/ dir.marked /\ dir' = [dir EXCEPT !.marked = FALSE, !.listed = {}]
     \/ \E e \in dir.have : dir' = [dir EXCEPT !.have = @ \ {e}]
  /\ cleaned' = cleaned \cup {p \in Pids : pc[p] = "running"}
  /\ UNCHANGED <<tmp, stale, pc, aged, faults, gap, displaced, littered>>

-----------------------------------------------------------------------------
Step(p) == \/ Launch(p) \/ Clear(p) \/ Unpack(p) \/ UnpackFails(p)
           \/ WriteMarker(p) \/ Recheck(p) \/ MoveAside(p) \/ MoveRefused(p)
           \/ DeleteStale(p) \/ Publish(p) \/ PublishRefused(p)
           \/ DropOwn(p) \/ PlaceFails(p) \/ Exit(p) \/ Crash(p)

Next == (\E p \in Pids : Step(p)) \/ DaysPass \/ Clean

Spec == Init /\ [][Next]_vars

-----------------------------------------------------------------------------
\* Type correctness.
TypeOK ==
  /\ dir \in Trees
  /\ tmp \in [Pids -> Trees]
  /\ stale \in [Pids -> Trees]
  /\ pc \in [Pids -> Resting \cup Placing \cup {"clearing", "unpacking", "marking"}]
  /\ aged \in BOOLEAN /\ gap \in BOOLEAN /\ displaced \in BOOLEAN
  /\ faults \in 0..MaxFaults
  /\ cleaned \subseteq Pids /\ littered \subseteq Pids

\* A running launch has every package under it, whatever other launches do,
\* unless the cleaner reached the tree while it ran, or a launch that took the
\* whole tree for a bad one and moved it aside has not published its own yet:
\* then the tree is missing, and never partial.
RunsOnComplete ==
  \A p \in Pids : pc[p] = "running" /\ p \notin cleaned =>
    \/ Complete(dir)
    \/ /\ ~dir.there /\ displaced
       /\ gap \/ \E q \in Pids : pc[q] \in {"deleting", "publishing"}

\* A launch that has unpacked its packages fails to place them only if a tree
\* is left at its own .stale-<pid>, or a whole tree was moved aside: no other
\* race of launches makes one fail.
PlacingSucceeds ==
  \A p \in Pids : pc[p] = "placeFailed" => stale[p].there \/ displaced

\* Only a launch that died, failed or was refused a deletion leaves anything
\* behind beside the tree.
NothingLeftBehind ==
  \A p \in Pids \ littered : pc[p] \in Resting => ~tmp[p].there /\ ~stale[p].there

\* The tree appears whole: materializeDeps implements PublishedTree.
TreeState == IF ~dir.there THEN "absent"
             ELSE IF Complete(dir) /\ dir.marked THEN "whole"
             ELSE "decayed"
Published == INSTANCE PublishedTree WITH tree <- TreeState
PublishesWhole == Published!Spec

\* "Re-checked here, so a tree another launch published whole meanwhile is left
\* alone" (naude-sea.cjs).  The rename acts on what is there after the check.
WholeTreeLeftAlone ==
  [][dir.there /\ ~dir'.there => ~UnpackedWhole(dir)]_vars
=============================================================================
