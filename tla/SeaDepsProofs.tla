---------------------------- MODULE SeaDepsProofs ----------------------------
(***************************************************************************)
(* Proofs about SeaDeps, for any set of process ids and packages and any   *)
(* number of kills and failures.  RunsOnComplete needs that what a launch  *)
(* places is its own finished tree, that a marker lists every package, and *)
(* that a tree which became whole while a launch was at work is too young  *)
(* for the cleaner.                                                        *)
(***************************************************************************)
EXTENDS SeaDeps, TLAPS

WholeTree == [there |-> TRUE, marked |-> TRUE, listed |-> Packages, have |-> Entries]

\* A marker lists every package; a path without a tree holds nothing.
MarkerListsAll ==
  /\ dir.marked => dir.there /\ dir.listed = Packages
  /\ ~dir.there => dir = NoTree

\* How far a launch has got with its own partial tree.
OwnTree ==
  \A p \in Pids :
    /\ pc[p] = "unpacking" => tmp[p] = EmptyTree
    /\ pc[p] = "marking" => tmp[p] = [EmptyTree EXCEPT !.have = Entries]
    /\ pc[p] \in Placing => tmp[p] = WholeTree

\* While a launch is at work, a whole tree is one published meanwhile.
Young == \A p \in Pids : pc[p] \notin Resting /\ UnpackedWhole(dir) => ~aged

\* RunsOnComplete, of the tree as unpackedWhole sees it.
Away == ~dir.there /\ displaced /\ (gap \/ \E q \in Pids : pc[q] \in {"deleting", "publishing"})
RunsOnWhole ==
  \A p \in Pids : pc[p] = "running" /\ p \notin cleaned => UnpackedWhole(dir) \/ Away

\* What stands in the way of a launch that is about to publish.
InTheWay ==
  \A p \in Pids :
    /\ pc[p] = "deleting" /\ dir.there /\ ~UnpackedWhole(dir) => displaced
    /\ pc[p] = "publishing" /\ dir.there /\ ~UnpackedWhole(dir) => stale[p].there \/ displaced
    /\ pc[p] = "lost" /\ ~UnpackedWhole(dir) => stale[p].there \/ displaced
    /\ pc[p] = "placeFailed" => stale[p].there \/ displaced

\* What a launch that was not cut short has beside the tree.
Tidy ==
  \A p \in Pids \ littered :
    /\ pc[p] \in Resting \cup {"clearing"} => ~tmp[p].there
    /\ pc[p] # "deleting" => ~stale[p].there

IInv == /\ TypeOK /\ MarkerListsAll /\ OwnTree /\ Young
        /\ RunsOnWhole /\ InTheWay /\ Tidy
-----------------------------------------------------------------------------
\* What unpackedWhole accepts has every package.
LEMMA WholeIsComplete ==
  ASSUME MarkerListsAll, UnpackedWhole(dir) PROVE Complete(dir) /\ dir.marked
  BY DEF MarkerListsAll, UnpackedWhole, Complete

\* The initial states satisfy the inductive invariant.
LEMMA InitInvariant == Init => IInv
  <1> SUFFICES ASSUME Init PROVE IInv
    OBVIOUS
  <1> USE DEF Init
  <1>1. TypeOK
    <2>1. NoTree \in Trees
      BY DEF Trees, NoTree
    <2>2. dir \in Trees
      <3>1. CASE dir = NoTree
        BY <2>1, <3>1
      <3>2. ASSUME NEW S \in SUBSET Entries, NEW marked \in BOOLEAN,
                   dir = [there |-> TRUE, marked |-> marked,
                          listed |-> IF marked THEN Packages ELSE {}, have |-> S]
            PROVE  dir \in Trees
        <4>1. (IF marked THEN Packages ELSE {}) \in SUBSET Packages
          OBVIOUS
        <4> QED
          BY <3>2, <4>1 DEF Trees
      <3> QED
        BY <3>1, <3>2
    <2>3. faults \in 0..MaxFaults
      BY SeaAssumption DEF SeaAssumption
    <2> QED
      BY <2>1, <2>2, <2>3 DEF TypeOK, Resting
  <1>2. MarkerListsAll /\ Tidy
    BY DEF MarkerListsAll, Tidy, NoTree, Resting
  <1>3. OwnTree /\ Young /\ RunsOnWhole /\ InTheWay
    BY DEF OwnTree, Young, RunsOnWhole, InTheWay, Placing, Resting
  <1> QED
    BY <1>1, <1>2, <1>3 DEF IInv

\* A launch at work found no whole tree; one that found it runs from it.
LEMMA LaunchKeeps ==
  ASSUME IInv, NEW p \in Pids, Launch(p) PROVE IInv'
  <1> USE DEF IInv, Launch, Goto, trees, history, Resting, Placing
  <1>1. TypeOK'
    BY DEF TypeOK
  <1>2. MarkerListsAll'
    BY DEF MarkerListsAll
  <1>3. OwnTree'
    BY DEF OwnTree
  <1>4. Young'
    BY DEF Young
  <1>5. RunsOnWhole'
    BY DEF RunsOnWhole, Away
  <1>6. InTheWay'
    BY DEF InTheWay
  <1>7. Tidy'
    BY DEF Tidy
  <1> QED
    BY <1>1, <1>2, <1>3, <1>4, <1>5, <1>6, <1>7

\* The partial tree of an earlier process of this id is gone.
LEMMA ClearKeeps ==
  ASSUME IInv, NEW p \in Pids, Clear(p) PROVE IInv'
  <1> USE DEF IInv, Clear, Goto, history, Resting, Placing
  <1>1. TypeOK'
    BY DEF TypeOK, Trees, NoTree, EmptyTree
  <1>2. MarkerListsAll'
    BY DEF MarkerListsAll
  <1>3. OwnTree'
    BY DEF TypeOK, OwnTree
  <1>4. Young'
    BY DEF Young
  <1>5. RunsOnWhole'
    BY DEF RunsOnWhole, Away
  <1>6. InTheWay'
    BY DEF InTheWay
  <1>7. Tidy'
    BY DEF TypeOK, Tidy
  <1> QED
    BY <1>1, <1>2, <1>3, <1>4, <1>5, <1>6, <1>7

\* All entries are in a launch's own partial tree.
LEMMA UnpackKeeps ==
  ASSUME IInv, NEW p \in Pids, Unpack(p) PROVE IInv'
  <1> USE DEF IInv, Unpack, Goto, history, Resting, Placing
  <1>1. TypeOK'
    BY DEF TypeOK, Trees
  <1>2. MarkerListsAll'
    BY DEF MarkerListsAll
  <1>3. OwnTree'
    BY DEF TypeOK, OwnTree
  <1>4. Young'
    BY DEF Young
  <1>5. RunsOnWhole'
    BY DEF RunsOnWhole, Away
  <1>6. InTheWay'
    BY DEF InTheWay
  <1>7. Tidy'
    BY DEF Tidy
  <1> QED
    BY <1>1, <1>2, <1>3, <1>4, <1>5, <1>6, <1>7

\* A failed unpacking touches nothing but the launch's own partial tree.
LEMMA UnpackFailsKeeps ==
  ASSUME IInv, NEW p \in Pids, UnpackFails(p) PROVE IInv'
  <1> USE DEF IInv, UnpackFails, Goto, Fault, Resting, Placing
  <1>1. TypeOK'
    BY SeaAssumption DEF SeaAssumption, TypeOK, Trees
  <1>2. MarkerListsAll'
    BY DEF MarkerListsAll
  <1>3. OwnTree'
    BY DEF TypeOK, OwnTree
  <1>4. Young'
    BY DEF Young
  <1>5. RunsOnWhole'
    BY DEF RunsOnWhole, Away
  <1>6. InTheWay'
    BY DEF InTheWay
  <1>7. Tidy'
    BY DEF Tidy
  <1> QED
    BY <1>1, <1>2, <1>3, <1>4, <1>5, <1>6, <1>7

\* A tree is known by its fields.
LEMMA WholeIs ==
  ASSUME NEW t \in Trees, t.there = TRUE, t.marked = TRUE, t.listed = Packages, t.have = Entries
  PROVE  t = WholeTree
BY DEF Trees, WholeTree

LEMMA MarkingIs ==
  ASSUME NEW t \in Trees, NEW u, u = [t EXCEPT !.marked = TRUE, !.listed = Packages]
  PROVE  u \in Trees /\ u.there = t.there /\ u.marked = TRUE /\ u.listed = Packages /\ u.have = t.have
BY DEF Trees

\* The marker lists the packages, and every one is there.
LEMMA WriteMarkerKeeps ==
  ASSUME IInv, NEW p \in Pids, WriteMarker(p) PROVE IInv'
  <1> USE DEF IInv, WriteMarker, Goto, history, Resting, Placing
  <1>1. TypeOK'
    BY DEF TypeOK, Trees, PackageManifests
  <1>2. MarkerListsAll'
    BY DEF MarkerListsAll
  <1>3. OwnTree'
    <2>1. Entries \cap Packages = Packages
      BY DEF Entries
    <2>2. tmp'[p] = WholeTree
      <3>1. tmp[p] \in Trees /\ tmp[p].there = TRUE /\ tmp[p].have = Entries
        BY DEF TypeOK, OwnTree, EmptyTree, NoTree
      <3>2. PackageManifests(tmp[p]) = Packages
        BY <2>1, <3>1 DEF PackageManifests
      <3>3. tmp'[p] = [tmp[p] EXCEPT !.marked = TRUE, !.listed = Packages]
        BY <3>2 DEF TypeOK
      <3>4. /\ tmp'[p] \in Trees /\ tmp'[p].there = TRUE /\ tmp'[p].marked = TRUE
            /\ tmp'[p].listed = Packages /\ tmp'[p].have = Entries
        BY ONLY <3>1, <3>3, MarkingIs
      <3> QED
        BY <3>4, WholeIs
    <2> QED
      BY <2>2 DEF TypeOK, OwnTree
  <1>4. Young'
    BY DEF Young
  <1>5. RunsOnWhole'
    BY DEF RunsOnWhole, Away
  <1>6. InTheWay'
    BY DEF InTheWay
  <1>7. Tidy'
    BY DEF TypeOK, Tidy
  <1> QED
    BY <1>1, <1>2, <1>3, <1>4, <1>5, <1>6, <1>7

\* What the second test finds in the way is not whole, or nothing is there.
LEMMA RecheckKeeps ==
  ASSUME IInv, NEW p \in Pids, Recheck(p) PROVE IInv'
  <1> USE DEF IInv, Recheck, Goto, trees, history, Resting, Placing
  <1>1. TypeOK'
    BY DEF TypeOK
  <1>2. MarkerListsAll'
    BY DEF MarkerListsAll
  <1>3. OwnTree'
    BY DEF OwnTree
  <1>4. Young'
    BY DEF Young
  <1>5. RunsOnWhole'
    BY DEF RunsOnWhole, Away
  <1>6. InTheWay'
    BY DEF InTheWay
  <1>7. Tidy'
    BY DEF Tidy
  <1> QED
    BY <1>1, <1>2, <1>3, <1>4, <1>5, <1>6, <1>7

\* Nothing is at dir afterwards; if a whole tree was, it is recorded.
LEMMA MoveAsideKeeps ==
  ASSUME IInv, NEW p \in Pids, MoveAside(p) PROVE IInv'
  <1> USE DEF IInv, MoveAside, Goto, Resting, Placing
  <1>1. TypeOK'
    BY DEF TypeOK, Trees, NoTree
  <1>2. MarkerListsAll'
    BY DEF MarkerListsAll, NoTree
  <1>3. OwnTree'
    BY DEF OwnTree
  <1>4. Young'
    BY DEF Young, UnpackedWhole, NoTree
  <1>5. RunsOnWhole'
    BY DEF TypeOK, RunsOnWhole, Away, UnpackedWhole, NoTree
  <1>6. InTheWay'
    BY DEF TypeOK, InTheWay, NoTree
  <1>7. Tidy'
    BY DEF TypeOK, Tidy
  <1> QED
    BY <1>1, <1>2, <1>3, <1>4, <1>5, <1>6, <1>7

\* Nothing is in the way, or this id has a stale tree.
LEMMA MoveRefusedKeeps ==
  ASSUME IInv, NEW p \in Pids, MoveRefused(p) PROVE IInv'
  <1> USE DEF IInv, MoveRefused, Goto, trees, history, Resting, Placing
  <1>1. TypeOK'
    BY DEF TypeOK
  <1>2. MarkerListsAll'
    BY DEF MarkerListsAll
  <1>3. OwnTree'
    BY DEF OwnTree
  <1>4. Young'
    BY DEF Young
  <1>5. RunsOnWhole'
    BY DEF RunsOnWhole, Away
  <1>6. InTheWay'
    BY DEF InTheWay
  <1>7. Tidy'
    BY DEF Tidy
  <1> QED
    BY <1>1, <1>2, <1>3, <1>4, <1>5, <1>6, <1>7

\* Only the launch's own stale tree changes.
LEMMA DeleteStaleKeeps ==
  ASSUME IInv, NEW p \in Pids, DeleteStale(p) PROVE IInv'
  <1> USE DEF IInv, DeleteStale, Goto, Fault, Resting, Placing
  <1>1. TypeOK'
    <2>1. faults' \in 0..MaxFaults
      BY SeaAssumption DEF SeaAssumption, TypeOK
    <2>2. stale' \in [Pids -> Trees]
      <3>1. NoTree \in Trees
        BY DEF Trees, NoTree
      <3> QED
        BY <3>1 DEF TypeOK
    <2>3. littered' \subseteq Pids
      BY DEF TypeOK
    <2> QED
      BY <2>1, <2>2, <2>3 DEF TypeOK
  <1>2. MarkerListsAll'
    BY DEF MarkerListsAll
  <1>3. OwnTree'
    BY DEF OwnTree
  <1>4. Young'
    BY DEF Young
  <1>5. RunsOnWhole'
    BY DEF RunsOnWhole, Away
  <1>6. InTheWay'
    BY DEF TypeOK, InTheWay
  <1>7. Tidy'
    BY DEF TypeOK, Tidy, NoTree
  <1> QED
    BY <1>1, <1>2, <1>3, <1>4, <1>5, <1>6, <1>7

\* What appears at dir is whole and young.
LEMMA PublishKeeps ==
  ASSUME IInv, NEW p \in Pids, Publish(p) PROVE IInv'
  <1> USE DEF IInv, Publish, Goto, Resting, Placing
  <1>1. TypeOK'
    BY DEF TypeOK, Trees, NoTree
  <1>2. MarkerListsAll'
    BY DEF MarkerListsAll, OwnTree, WholeTree
  <1>3. OwnTree'
    BY DEF TypeOK, OwnTree
  <1>4. Young'
    BY DEF Young
  <1>5. RunsOnWhole'
    BY DEF TypeOK, RunsOnWhole, UnpackedWhole, OwnTree, WholeTree, Entries
  <1>6. InTheWay'
    BY DEF InTheWay, UnpackedWhole, OwnTree, WholeTree, Entries
  <1>7. Tidy'
    BY DEF TypeOK, Tidy, NoTree
  <1> QED
    BY <1>1, <1>2, <1>3, <1>4, <1>5, <1>6, <1>7

\* The tree is there; if it is not whole, that was known before.
LEMMA PublishRefusedKeeps ==
  ASSUME IInv, NEW p \in Pids, PublishRefused(p) PROVE IInv'
  <1> USE DEF IInv, PublishRefused, Goto, trees, history, Resting, Placing
  <1>1. TypeOK'
    BY DEF TypeOK
  <1>2. MarkerListsAll'
    BY DEF MarkerListsAll
  <1>3. OwnTree'
    BY DEF OwnTree
  <1>4. Young'
    BY DEF Young
  <1>5. RunsOnWhole'
    BY DEF RunsOnWhole, Away
  <1>6. InTheWay'
    BY DEF InTheWay
  <1>7. Tidy'
    BY DEF Tidy
  <1> QED
    BY <1>1, <1>2, <1>3, <1>4, <1>5, <1>6, <1>7

\* The loser of the race runs from the winner's tree.
LEMMA DropOwnKeeps ==
  ASSUME IInv, NEW p \in Pids, DropOwn(p) PROVE IInv'
  <1> USE DEF IInv, DropOwn, Goto, history, Resting, Placing
  <1>1. TypeOK'
    BY DEF TypeOK, Trees, NoTree
  <1>2. MarkerListsAll'
    BY DEF MarkerListsAll
  <1>3. OwnTree'
    BY DEF TypeOK, OwnTree
  <1>4. Young'
    BY DEF Young
  <1>5. RunsOnWhole'
    BY DEF RunsOnWhole
  <1>6. InTheWay'
    BY DEF InTheWay
  <1>7. Tidy'
    BY DEF TypeOK, Tidy, NoTree
  <1> QED
    BY <1>1, <1>2, <1>3, <1>4, <1>5, <1>6, <1>7

\* A placing fails only for what InTheWay allows.
LEMMA PlaceFailsKeeps ==
  ASSUME IInv, NEW p \in Pids, PlaceFails(p) PROVE IInv'
  <1> USE DEF IInv, PlaceFails, Goto, trees, Resting, Placing
  <1>1. TypeOK'
    BY DEF TypeOK
  <1>2. MarkerListsAll'
    BY DEF MarkerListsAll
  <1>3. OwnTree'
    BY DEF OwnTree
  <1>4. Young'
    BY DEF Young
  <1>5. RunsOnWhole'
    BY DEF RunsOnWhole, Away
  <1>6. InTheWay'
    BY DEF InTheWay
  <1>7. Tidy'
    BY DEF Tidy
  <1> QED
    BY <1>1, <1>2, <1>3, <1>4, <1>5, <1>6, <1>7

\* A launch that ends leaves the tree as it is.
LEMMA ExitKeeps ==
  ASSUME IInv, NEW p \in Pids, Exit(p) PROVE IInv'
  <1> USE DEF IInv, Exit, Goto, trees, Resting, Placing
  <1>1. TypeOK'
    BY DEF TypeOK
  <1>2. MarkerListsAll'
    BY DEF MarkerListsAll
  <1>3. OwnTree'
    BY DEF OwnTree
  <1>4. Young'
    BY DEF Young
  <1>5. RunsOnWhole'
    BY DEF TypeOK, RunsOnWhole, Away
  <1>6. InTheWay'
    BY DEF InTheWay
  <1>7. Tidy'
    BY DEF Tidy
  <1> QED
    BY <1>1, <1>2, <1>3, <1>4, <1>5, <1>6, <1>7

\* A kill in the gap is recorded.
LEMMA CrashKeeps ==
  ASSUME IInv, NEW p \in Pids, Crash(p) PROVE IInv'
  <1> USE DEF IInv, Crash, Goto, Fault, trees, Resting, Placing
  <1>1. TypeOK'
    BY SeaAssumption DEF SeaAssumption, TypeOK
  <1>2. MarkerListsAll'
    BY DEF MarkerListsAll
  <1>3. OwnTree'
    BY DEF OwnTree
  <1>4. Young'
    BY DEF Young
  <1>5. RunsOnWhole'
    BY DEF TypeOK, RunsOnWhole, Away
  <1>6. InTheWay'
    BY DEF InTheWay
  <1>7. Tidy'
    BY DEF Tidy
  <1> QED
    BY <1>1, <1>2, <1>3, <1>4, <1>5, <1>6, <1>7

\* Time passes only when no launch is at work.
LEMMA DaysPassKeeps ==
  ASSUME IInv, DaysPass PROVE IInv'
  <1> USE DEF IInv, DaysPass, trees, history, Resting, Placing
  <1>1. TypeOK'
    BY DEF TypeOK
  <1>2. MarkerListsAll'
    BY DEF MarkerListsAll
  <1>3. OwnTree'
    BY DEF OwnTree
  <1>4. Young'
    BY DEF Young
  <1>5. RunsOnWhole'
    BY DEF RunsOnWhole, Away
  <1>6. InTheWay'
    BY DEF InTheWay
  <1>7. Tidy'
    BY DEF Tidy
  <1> QED
    BY <1>1, <1>2, <1>3, <1>4, <1>5, <1>6, <1>7

\* The cleaner takes nothing while a whole tree is young.
LEMMA CleanKeeps ==
  ASSUME IInv, Clean PROVE IInv'
  <1> USE DEF IInv, Clean, Resting, Placing
  <1>1. TypeOK'
    <2>1. dir' \in Trees
      <3>1. CASE dir.marked /\ dir' = [dir EXCEPT !.marked = FALSE, !.listed = {}]
        BY <3>1 DEF TypeOK, Trees
      <3>2. ASSUME NEW e \in dir.have, dir' = [dir EXCEPT !.have = @ \ {e}]
            PROVE  dir' \in Trees
        <4>1. dir.have \ {e} \in SUBSET Entries
          BY DEF TypeOK, Trees
        <4> QED
          BY <3>2, <4>1 DEF TypeOK, Trees
      <3> QED
        BY <3>1, <3>2
    <2>2. cleaned' \subseteq Pids
      BY DEF TypeOK
    <2> QED
      BY <2>1, <2>2 DEF TypeOK
  <1>2. MarkerListsAll'
    BY DEF TypeOK, Trees, MarkerListsAll
  <1>3. OwnTree'
    BY DEF OwnTree
  <1>4. Young'
    <2>1. UnpackedWhole(dir)' => UnpackedWhole(dir)
      <3>0. dir \in Trees
        BY DEF TypeOK
      <3>1. CASE dir' = [dir EXCEPT !.marked = FALSE, !.listed = {}]
        BY ONLY <3>0, <3>1 DEF Trees, UnpackedWhole
      <3>2. ASSUME NEW e \in dir.have, dir' = [dir EXCEPT !.have = @ \ {e}]
            PROVE  UnpackedWhole(dir)' => UnpackedWhole(dir)
        BY ONLY <3>0, <3>2 DEF Trees, UnpackedWhole
      <3> QED
        BY <3>1, <3>2
    <2> QED
      BY <2>1 DEF Young
  <1>5. RunsOnWhole'
    BY DEF RunsOnWhole
  <1>6. InTheWay'
    BY DEF TypeOK, InTheWay, Young
  <1>7. Tidy'
    BY DEF Tidy
  <1> QED
    BY <1>1, <1>2, <1>3, <1>4, <1>5, <1>6, <1>7

\* A stuttering step.
LEMMA StutterKeeps == ASSUME IInv, UNCHANGED vars PROVE IInv'
  <1> USE DEF IInv, vars, trees, history
  <1>1. TypeOK' /\ MarkerListsAll'
    BY DEF TypeOK, MarkerListsAll
  <1>2. OwnTree' /\ Young' /\ Tidy'
    BY DEF OwnTree, Young, Tidy, UnpackedWhole
  <1>3. RunsOnWhole' /\ InTheWay'
    BY DEF RunsOnWhole, Away, InTheWay, UnpackedWhole
  <1> QED
    BY <1>1, <1>2, <1>3

\* Every step, by one lemma per action.
LEMMA NextKeeps == IInv /\ [Next]_vars => IInv'
  <1> SUFFICES ASSUME IInv, [Next]_vars PROVE IInv'
    OBVIOUS
  <1>1. ASSUME NEW p \in Pids, Step(p) PROVE IInv'
    <2>1. CASE Launch(p)
      BY <2>1, LaunchKeeps
    <2>2. CASE Clear(p)
      BY <2>2, ClearKeeps
    <2>3. CASE Unpack(p)
      BY <2>3, UnpackKeeps
    <2>4. CASE UnpackFails(p)
      BY <2>4, UnpackFailsKeeps
    <2>5. CASE WriteMarker(p)
      BY <2>5, WriteMarkerKeeps
    <2>6. CASE Recheck(p)
      BY <2>6, RecheckKeeps
    <2>7. CASE MoveAside(p)
      BY <2>7, MoveAsideKeeps
    <2>8. CASE MoveRefused(p)
      BY <2>8, MoveRefusedKeeps
    <2>9. CASE DeleteStale(p)
      BY <2>9, DeleteStaleKeeps
    <2>10. CASE Publish(p)
      BY <2>10, PublishKeeps
    <2>11. CASE PublishRefused(p)
      BY <2>11, PublishRefusedKeeps
    <2>12. CASE DropOwn(p)
      BY <2>12, DropOwnKeeps
    <2>13. CASE PlaceFails(p)
      BY <2>13, PlaceFailsKeeps
    <2>14. CASE Exit(p)
      BY <2>14, ExitKeeps
    <2>15. CASE Crash(p)
      BY <2>15, CrashKeeps
    <2> QED
      BY <1>1, <2>1, <2>2, <2>3, <2>4, <2>5, <2>6, <2>7, <2>8, <2>9, <2>10, <2>11, <2>12, <2>13, <2>14, <2>15 DEF Step
  <1>2. CASE DaysPass
    BY <1>2, DaysPassKeeps
  <1>3. CASE Clean
    BY <1>3, CleanKeeps
  <1>4. CASE UNCHANGED vars
    BY <1>4, StutterKeeps
  <1> QED
    BY <1>1, <1>2, <1>3, <1>4 DEF Next
-----------------------------------------------------------------------------
\* The inductive invariant holds in every reachable state.
THEOREM Inductive == Spec => []IInv
  BY InitInvariant, NextKeeps, PTL DEF Spec

\* Type correctness, for every value of the constants.
THEOREM TypeCorrect == Spec => []TypeOK
  <1>1. IInv => TypeOK
    BY DEF IInv
  <1> QED
    BY <1>1, Inductive, PTL

\* A running launch has every package under it, unless the cleaner reached the
\* tree or a whole tree was moved aside and is not replaced yet.
THEOREM RunsComplete == Spec => []RunsOnComplete
  <1>1. IInv => RunsOnComplete
    BY WholeIsComplete DEF IInv, RunsOnWhole, RunsOnComplete, Away
  <1> QED
    BY <1>1, Inductive, PTL

\* Races of launches fail none, but for a stale tree or a whole one moved aside.
THEOREM PlacesUnlessMoved == Spec => []PlacingSucceeds
  <1>1. IInv => PlacingSucceeds
    BY DEF IInv, InTheWay, PlacingSucceeds
  <1> QED
    BY <1>1, Inductive, PTL

\* Nothing is left behind by a launch that was not cut short.
THEOREM LeavesNothing == Spec => []NothingLeftBehind
  <1>1. IInv => NothingLeftBehind
    BY DEF IInv, Tidy, NothingLeftBehind, Resting
  <1> QED
    BY <1>1, Inductive, PTL

\* A tree is whole to a reader of PublishedTree exactly if unpackedWhole says so.
LEMMA WholeSeen ==
  ASSUME MarkerListsAll PROVE TreeState = "whole" <=> UnpackedWhole(dir)
  BY DEF MarkerListsAll, TreeState, UnpackedWhole, Complete

\* Every step of the launches and of the cleaner is one of PublishedTree.
LEMMA StepRefines ==
  ASSUME IInv, [Next]_vars
  PROVE  Published!Publish \/ Published!Decay \/ Published!TakeAway \/ UNCHANGED TreeState
  <1> USE DEF TreeState
  <1>1. ASSUME UNCHANGED dir PROVE UNCHANGED TreeState
    BY <1>1 DEF Complete
  <1>2. ASSUME NEW p \in Pids, MoveAside(p) PROVE Published!TakeAway
    BY <1>2 DEF MoveAside, NoTree, Published!TakeAway
  <1>3. ASSUME NEW p \in Pids, Publish(p) PROVE Published!Publish
    BY <1>3 DEF Publish, IInv, OwnTree, Placing, TypeOK, WholeTree, Entries, Complete, Published!Publish
  <1>4. CASE Clean
    <2>1. dir'.there
      BY <1>4 DEF Clean, IInv, TypeOK, Trees
    <2>2. TreeState' = "whole" => TreeState = "whole"
      BY <1>4, <2>1 DEF Clean, IInv, TypeOK, Trees, Complete
    <2> QED
      BY <1>4, <2>1, <2>2 DEF Clean, Published!Decay
  <1>5. ASSUME NEW p \in Pids, Step(p), ~MoveAside(p), ~Publish(p) PROVE UNCHANGED dir
    BY <1>5 DEF Step, Launch, Clear, Unpack, UnpackFails, WriteMarker, Recheck, MoveRefused,
                DeleteStale, PublishRefused, DropOwn, PlaceFails, Exit, Crash, trees
  <1>6. CASE DaysPass \/ UNCHANGED vars
    BY <1>1, <1>6 DEF DaysPass, vars, trees
  <1> QED
    BY <1>1, <1>2, <1>3, <1>4, <1>5, <1>6 DEF Next

\* materializeDeps publishes whole trees only, in one step.
THEOREM Refines == Spec => PublishesWhole
  <1>1. Init => Published!Init
    BY DEF TreeState, Published!Init
  <1>2. IInv /\ [Next]_vars => [Published!Publish \/ Published!Decay \/ Published!TakeAway]_TreeState
    BY StepRefines
  <1> QED
    BY <1>1, <1>2, Inductive, PTL DEF Spec, PublishesWhole, Published!Spec
=============================================================================
