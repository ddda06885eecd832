------------------------- MODULE ExtractCacheProofs -------------------------
(***************************************************************************)
(* Proofs about ExtractCache, for any number of builds, releases,          *)
(* platforms and kills.  StagedIsOwn is not inductive: what a staging      *)
(* build has written so far, what a serving build found on its hit, and    *)
(* that an entry whose signature and carve are both there is consistent    *)
(* while nobody rewrites it, all have to be carried along.                 *)
(***************************************************************************)
EXTENDS ExtractCache, TLAPS

\* Builds that cannot disturb each other: a staging one is alone.
Exclusive ==
  ~overlapped => \A b, c \in Builds : b # c /\ pc[b] \in Staging => pc[c] = "idle"

\* Serving builds are of one release.
OneRelease ==
  ~overlapped => \A b, c \in Builds :
                   pc[b] \in Serving /\ pc[c] \in Serving => job[b].rel = job[c].rel

Working == \A b \in Builds : pc[b] # "idle" => job[b] \in Jobs

OwnRunner(j) == split => runner = SigOf(j)

\* How far a staging build has got with the files.
StagerKnows ==
  ~overlapped => \A b \in Builds :
    /\ pc[b] \in {"running", "checking"} =>
         carve \in {Carve(job[b], "staged"), Carve(job[b], "unsound")}
    /\ pc[b] \in {"merging", "rewriting", "running"} => split
    /\ pc[b] = "checking" => OwnRunner(job[b])
    /\ pc[b] \in {"copyingShim", "copyingUnicode", "signing"} =>
         carve = Carve(job[b], "staged") /\ OwnRunner(job[b])
    /\ pc[b] \in {"copyingUnicode", "signing"} => shim = job[b].rel
    /\ pc[b] = "signing" => unicode = job[b].rel

\* What a build that goes on with the entry may rely on.
ServerKnows ==
  Undisturbed => \A b \in Builds : pc[b] \in Serving =>
    /\ carve = Carve(job[b], "staged") /\ OwnRunner(job[b]) /\ sig = SigOf(job[b])
    /\ shim # None /\ unicode # None
    /\ pc[b] \in {"refreshingUnicode", "staged"} => shim = job[b].rel
    /\ pc[b] = "staged" => unicode = job[b].rel

\* A signed entry nobody is rewriting holds the carve that was signed.
Rewriting == Staging \ {"extracting"}
Settled ==
  /\ Undisturbed /\ sig # None /\ carve # None
  /\ \A b \in Builds : pc[b] \notin Rewriting
  => /\ carve = [plat |-> sig.plat, ext |-> sig.ext, form |-> "staged"]
     /\ split => runner = sig

IInv == TypeOK /\ Exclusive /\ OneRelease /\ Working /\ StagerKnows /\ ServerKnows /\ Settled
-----------------------------------------------------------------------------
\* The initial states satisfy the inductive invariant.
LEMMA InitInvariant == Init => IInv
  <1> SUFFICES ASSUME Init PROVE IInv
    OBVIOUS
  <1> USE DEF Init, Staging, Serving, Rewriting
  <1>1. TypeOK
    <2>1. crashes \in 0..MaxCrashes
      BY CacheAssumption DEF CacheAssumption
    <2>2. /\ pc \in [Builds -> Staging \cup Serving \cup {"idle"}]
          /\ job \in [Builds -> Jobs \cup {None}]
      OBVIOUS
    <2> QED
      BY <2>1, <2>2 DEF TypeOK
  <1>2. Exclusive /\ OneRelease /\ Working
    BY DEF Exclusive, OneRelease, Working
  <1>3. StagerKnows /\ ServerKnows /\ Settled
    BY DEF StagerKnows, ServerKnows, Settled
  <1> QED
    BY <1>1, <1>2, <1>3 DEF IInv

\* The check that opens a build: the only step that can start an overlap.
LEMMA LookKeeps ==
  ASSUME IInv, NEW b \in Builds, NEW j \in Jobs, Look(b, j) PROVE IInv'
  <1> USE DEF IInv, Look, Goto, files, rest, Staging, Serving, Rewriting, Disturbs, Hit
  <1> USE CacheAssumption DEF CacheAssumption
  <1>1. TypeOK' /\ Working'
    BY DEF TypeOK, Working, Jobs
  <1>2. ASSUME ~overlapped', NEW c \in Builds \ {b}
        PROVE  /\ ~overlapped /\ pc[c] \notin Staging
               /\ pc[c] \in Serving => job[c].rel = j.rel /\ Hit(j)
               /\ pc'[c] = pc[c] /\ job'[c] = job[c]
    BY <1>2 DEF TypeOK
  <1>3. /\ job'[b] = j /\ pc[b] = "idle"
        /\ pc'[b] = IF Hit(j) THEN "refreshingShim" ELSE "extracting"
    BY DEF TypeOK
  <1>4. \A c \in Builds : pc[c] \in Staging \cup Serving \cup {"idle"}
    BY DEF TypeOK
  <1>5. Exclusive' /\ OneRelease'
    BY <1>2, <1>3, <1>4 DEF Exclusive, OneRelease
  <1>6. StagerKnows'
    BY <1>2, <1>3, <1>4 DEF StagerKnows
  <1>7. ServerKnows'
    <2> SUFFICES ASSUME Undisturbed', NEW c \in Builds, pc'[c] \in Serving
                 PROVE  /\ carve = Carve(job'[c], "staged") /\ OwnRunner(job'[c])
                        /\ sig = SigOf(job'[c]) /\ shim # None /\ unicode # None
                        /\ pc'[c] \in {"refreshingUnicode", "staged"} => shim = job'[c].rel
                        /\ pc'[c] = "staged" => unicode = job'[c].rel
      BY DEF ServerKnows, OwnRunner
    <2>1. Undisturbed
      BY DEF Undisturbed, TypeOK
    <2>2. CASE c # b
      BY <2>1, <2>2, <1>2 DEF ServerKnows, Undisturbed
    <2>3. CASE c = b
      <3>1. Hit(j) /\ pc'[c] = "refreshingShim"
        BY <2>3, <1>3
      <3>2. \A d \in Builds : pc[d] \notin Rewriting
        BY <1>2, <1>3 DEF Undisturbed
      <3>3. /\ carve = [plat |-> sig.plat, ext |-> sig.ext, form |-> "staged"]
            /\ split => runner = sig
        BY <2>1, <3>1, <3>2 DEF Settled, SigOf, Sigs, Jobs, Extractors
      <3> QED
        BY <2>3, <1>3, <3>1, <3>3 DEF Carve, SigOf, OwnRunner
    <2> QED
      BY <2>2, <2>3
  <1>8. Settled'
    BY <1>2, <1>3 DEF Settled, Undisturbed, TypeOK
  <1> QED
    BY <1>1, <1>5, <1>6, <1>7, <1>8

\* A hit's copies: all builds serving at once are of one release.
LEMMA RefreshShimKeeps ==
  ASSUME IInv, NEW b \in Builds, RefreshShim(b) PROVE IInv'
  <1> USE DEF IInv, RefreshShim, Goto, files, rest, Staging, Serving, Rewriting
  <1> USE CacheAssumption DEF CacheAssumption
  <1>1. TypeOK'
    BY DEF TypeOK, Working, Jobs
  <1>2. Exclusive' /\ OneRelease' /\ Working'
    BY DEF Exclusive, OneRelease, Working
  <1>3. StagerKnows'
    BY DEF Exclusive, StagerKnows
  <1>4. ServerKnows'
    BY DEF OneRelease, Working, Jobs, ServerKnows, Undisturbed, OwnRunner
  <1>5. Settled'
    BY DEF Settled, Undisturbed
  <1> QED
    BY <1>1, <1>2, <1>3, <1>4, <1>5

\* The second copy of a hit, after which it serves.
LEMMA RefreshUnicodeKeeps ==
  ASSUME IInv, NEW b \in Builds, RefreshUnicode(b) PROVE IInv'
  <1> USE DEF IInv, RefreshUnicode, Goto, files, rest, Staging, Serving, Rewriting
  <1> USE CacheAssumption DEF CacheAssumption
  <1>1. TypeOK'
    BY DEF TypeOK, Working, Jobs
  <1>2. Exclusive' /\ OneRelease' /\ Working'
    BY DEF Exclusive, OneRelease, Working
  <1>3. StagerKnows'
    BY DEF Exclusive, StagerKnows
  <1>4. ServerKnows'
    BY DEF ServerKnows, Undisturbed, OwnRunner
  <1>5. Settled'
    BY DEF Settled, Undisturbed
  <1> QED
    BY <1>1, <1>2, <1>3, <1>4, <1>5

\* A miss's writes, each by a build that is alone.
LEMMA OpenCarveKeeps ==
  ASSUME IInv, NEW b \in Builds, OpenCarve(b) PROVE IInv'
  <1> USE DEF IInv, OpenCarve, Goto, files, rest, Staging, Serving, Rewriting
  <1> USE CacheAssumption DEF CacheAssumption
  <1>1. TypeOK'
    BY DEF TypeOK, Working, Jobs, Carves, Forms, StagedCarves, Carve, Extractors
  <1>2. Exclusive' /\ OneRelease' /\ Working'
    BY DEF Exclusive, OneRelease, Working
  <1>3. StagerKnows'
    BY DEF Exclusive, StagerKnows
  <1>4. ServerKnows'
    BY DEF Exclusive, ServerKnows, Undisturbed
  <1>5. Settled'
    BY DEF TypeOK, Settled
  <1> QED
    BY <1>1, <1>2, <1>3, <1>4, <1>5

\* The carve is written under the old signature; nothing settled is claimed then.
LEMMA WriteCarveKeeps ==
  ASSUME IInv, NEW b \in Builds, WriteCarve(b) PROVE IInv'
  <1> USE DEF IInv, WriteCarve, Goto, files, rest, Staging, Serving, Rewriting
  <1> USE CacheAssumption DEF CacheAssumption
  <1>1. TypeOK'
    BY DEF TypeOK, Working, Jobs, Carves, Forms, StagedCarves, Carve, Extractors
  <1>2. Exclusive' /\ OneRelease' /\ Working'
    BY DEF TypeOK, Exclusive, OneRelease, Working
  <1>3. StagerKnows'
    BY DEF TypeOK, Exclusive, StagerKnows, OwnRunner
  <1>4. ServerKnows'
    BY DEF TypeOK, Exclusive, ServerKnows, Undisturbed, OwnRunner
  <1>5. Settled'
    BY DEF TypeOK, Settled
  <1> QED
    BY <1>1, <1>2, <1>3, <1>4, <1>5

\* A graph without cyclic groups is staged as it is.
LEMMA NothingToMergeKeeps ==
  ASSUME IInv, NEW b \in Builds, NothingToMerge(b) PROVE IInv'
  <1> USE DEF IInv, NothingToMerge, Goto, files, rest, Staging, Serving, Rewriting
  <1> USE CacheAssumption DEF CacheAssumption
  <1>1. TypeOK'
    BY DEF TypeOK, Working, Jobs, Carves, Forms, StagedCarves, Carve, Extractors
  <1>2. Exclusive' /\ OneRelease' /\ Working'
    BY DEF Exclusive, OneRelease, Working
  <1>3. StagerKnows'
    BY DEF Exclusive, StagerKnows
  <1>4. ServerKnows'
    BY DEF Exclusive, ServerKnows, Undisturbed
  <1>5. Settled'
    BY DEF Settled, Undisturbed
  <1> QED
    BY <1>1, <1>2, <1>3, <1>4, <1>5

\* The merged graph is written over the unmerged one.
LEMMA OpenMergedKeeps ==
  ASSUME IInv, NEW b \in Builds, OpenMerged(b) PROVE IInv'
  <1> USE DEF IInv, OpenMerged, Goto, files, rest, Staging, Serving, Rewriting
  <1> USE CacheAssumption DEF CacheAssumption
  <1>1. TypeOK'
    BY DEF TypeOK, Working, Jobs, Carves, Forms, StagedCarves, Carve, Extractors
  <1>2. Exclusive' /\ OneRelease' /\ Working'
    BY DEF Exclusive, OneRelease, Working
  <1>3. StagerKnows'
    BY DEF Exclusive, StagerKnows
  <1>4. ServerKnows'
    BY DEF Exclusive, ServerKnows, Undisturbed
  <1>5. Settled'
    BY DEF Settled, Undisturbed
  <1> QED
    BY <1>1, <1>2, <1>3, <1>4, <1>5

\* The merge ends with a staged graph or one the check refuses.
LEMMA WriteMergedKeeps ==
  ASSUME IInv, NEW b \in Builds, WriteMerged(b) PROVE IInv'
  <1> USE DEF IInv, WriteMerged, Goto, files, rest, Staging, Serving, Rewriting
  <1> USE CacheAssumption DEF CacheAssumption
  <1>1. TypeOK'
    BY DEF TypeOK, Working, Jobs, Carves, Forms, StagedCarves, Carve, Extractors
  <1>2. Exclusive' /\ OneRelease' /\ Working'
    BY DEF Exclusive, OneRelease, Working
  <1>3. StagerKnows'
    BY DEF Exclusive, StagerKnows
  <1>4. ServerKnows'
    BY DEF Exclusive, ServerKnows, Undisturbed
  <1>5. Settled'
    BY DEF Settled, Undisturbed
  <1> QED
    BY <1>1, <1>2, <1>3, <1>4, <1>5

\* The runner is the signature's before the check is reached.
LEMMA WriteRunnerKeeps ==
  ASSUME IInv, NEW b \in Builds, WriteRunner(b) PROVE IInv'
  <1> USE DEF IInv, WriteRunner, Goto, files, rest, Staging, Serving, Rewriting
  <1> USE CacheAssumption DEF CacheAssumption
  <1>1. TypeOK'
    BY DEF TypeOK, Working, Jobs, Sigs, SigOf, Extractors
  <1>2. Exclusive' /\ OneRelease' /\ Working'
    BY DEF Exclusive, OneRelease, Working
  <1>3. StagerKnows'
    BY DEF Exclusive, StagerKnows, OwnRunner
  <1>4. ServerKnows'
    BY DEF Exclusive, ServerKnows, Undisturbed
  <1>5. Settled'
    BY DEF Settled, Undisturbed
  <1> QED
    BY <1>1, <1>2, <1>3, <1>4, <1>5

\* A failed staging leaves no carve, so its old signature signs nothing.
LEMMA RemoveCarveKeeps ==
  ASSUME IInv, NEW b \in Builds, RemoveCarve(b) PROVE IInv'
  <1> USE DEF IInv, RemoveCarve, Goto, files, rest, Staging, Serving, Rewriting, Stop
  <1> USE CacheAssumption DEF CacheAssumption
  <1>1. TypeOK'
    BY DEF TypeOK, Working, Jobs
  <1>2. Exclusive' /\ OneRelease' /\ Working'
    BY DEF TypeOK, Exclusive, OneRelease, Working
  <1>3. StagerKnows'
    BY DEF TypeOK, Exclusive, StagerKnows
  <1>4. ServerKnows'
    BY DEF Exclusive, ServerKnows, Undisturbed
  <1>5. Settled'
    BY DEF Settled, Undisturbed
  <1> QED
    BY <1>1, <1>2, <1>3, <1>4, <1>5

\* The check turns "staged or unsound" into "staged".
LEMMA CheckPassesKeeps ==
  ASSUME IInv, NEW b \in Builds, CheckPasses(b) PROVE IInv'
  <1> USE DEF IInv, CheckPasses, Goto, files, rest, Staging, Serving, Rewriting
  <1> USE CacheAssumption DEF CacheAssumption
  <1>1. TypeOK'
    BY DEF TypeOK, Working, Jobs
  <1>2. Exclusive' /\ OneRelease' /\ Working'
    BY DEF Exclusive, OneRelease, Working
  <1>3. StagerKnows'
    BY DEF TypeOK, Exclusive, StagerKnows, OwnRunner, Carve, StagedCarves
  <1>4. ServerKnows'
    BY DEF ServerKnows, Undisturbed, OwnRunner
  <1>5. Settled'
    BY DEF Settled, Undisturbed
  <1> QED
    BY <1>1, <1>2, <1>3, <1>4, <1>5

\* The first companion of the carve that passed.
LEMMA CopyShimKeeps ==
  ASSUME IInv, NEW b \in Builds, CopyShim(b) PROVE IInv'
  <1> USE DEF IInv, CopyShim, Goto, files, rest, Staging, Serving, Rewriting
  <1> USE CacheAssumption DEF CacheAssumption
  <1>1. TypeOK'
    BY DEF TypeOK, Working, Jobs
  <1>2. Exclusive' /\ OneRelease' /\ Working'
    BY DEF Exclusive, OneRelease, Working
  <1>3. StagerKnows'
    BY DEF Exclusive, StagerKnows, OwnRunner
  <1>4. ServerKnows'
    BY DEF Exclusive, ServerKnows, Undisturbed
  <1>5. Settled'
    BY DEF Settled, Undisturbed
  <1> QED
    BY <1>1, <1>2, <1>3, <1>4, <1>5

\* The second companion; all that is left is to sign.
LEMMA CopyUnicodeKeeps ==
  ASSUME IInv, NEW b \in Builds, CopyUnicode(b) PROVE IInv'
  <1> USE DEF IInv, CopyUnicode, Goto, files, rest, Staging, Serving, Rewriting
  <1> USE CacheAssumption DEF CacheAssumption
  <1>1. TypeOK'
    BY DEF TypeOK, Working, Jobs
  <1>2. Exclusive' /\ OneRelease' /\ Working'
    BY DEF Exclusive, OneRelease, Working
  <1>3. StagerKnows'
    BY DEF Exclusive, StagerKnows, OwnRunner
  <1>4. ServerKnows'
    BY DEF Exclusive, ServerKnows, Undisturbed
  <1>5. Settled'
    BY DEF Settled, Undisturbed
  <1> QED
    BY <1>1, <1>2, <1>3, <1>4, <1>5

\* The signature is written over files this build has staged itself.
LEMMA WriteSigKeeps ==
  ASSUME IInv, NEW b \in Builds, WriteSig(b) PROVE IInv'
  <1> USE DEF IInv, WriteSig, Goto, files, rest, Staging, Serving, Rewriting
  <1> USE CacheAssumption DEF CacheAssumption
  <1>1. TypeOK'
    BY DEF TypeOK, Working, Jobs, Sigs, SigOf, Extractors
  <1>2. Exclusive' /\ OneRelease' /\ Working'
    BY DEF Exclusive, OneRelease, Working
  <1>3. StagerKnows'
    BY DEF Exclusive, StagerKnows, OwnRunner
  <1>4. ServerKnows'
    BY DEF TypeOK, Exclusive, Working, Jobs, StagerKnows, ServerKnows, Undisturbed, OwnRunner
  <1>5. Settled'
    BY DEF TypeOK, Exclusive, StagerKnows, Settled, Undisturbed, OwnRunner, SigOf, Carve
  <1> QED
    BY <1>1, <1>2, <1>3, <1>4, <1>5

\* A build that has read the entry leaves it as it was.
LEMMA UseStageKeeps ==
  ASSUME IInv, NEW b \in Builds, UseStage(b) PROVE IInv'
  <1> USE DEF IInv, UseStage, Goto, files, rest, Staging, Serving, Rewriting, Stop
  <1> USE CacheAssumption DEF CacheAssumption
  <1>1. TypeOK'
    BY DEF TypeOK, Working, Jobs
  <1>2. Exclusive' /\ OneRelease' /\ Working'
    BY DEF TypeOK, Exclusive, OneRelease, Working
  <1>3. StagerKnows'
    BY DEF Exclusive, StagerKnows
  <1>4. ServerKnows'
    BY DEF TypeOK, Exclusive, ServerKnows, Undisturbed, OwnRunner
  <1>5. Settled'
    BY DEF Settled, Undisturbed
  <1> QED
    BY <1>1, <1>2, <1>3, <1>4, <1>5

\* A kill of a build that rewrites a signed entry is remembered.
LEMMA CrashKeeps ==
  ASSUME IInv, NEW b \in Builds, Crash(b) PROVE IInv'
  <1> USE DEF IInv, Crash, Goto, files, rest, Staging, Serving, Rewriting, Stop
  <1> USE CacheAssumption DEF CacheAssumption
  <1>1. TypeOK'
    BY DEF TypeOK, Working, Jobs
  <1>2. Exclusive' /\ OneRelease' /\ Working'
    BY DEF TypeOK, Exclusive, OneRelease, Working
  <1>3. StagerKnows'
    BY DEF TypeOK, Exclusive, StagerKnows
  <1>4. ServerKnows'
    BY DEF TypeOK, Exclusive, ServerKnows, Undisturbed, OwnRunner
  <1>5. Settled'
    BY DEF TypeOK, Settled, Undisturbed
  <1> QED
    BY <1>1, <1>2, <1>3, <1>4, <1>5

\* A step of no build changes nothing the invariant speaks of.
LEMMA StutterKeeps ==
  ASSUME IInv, UNCHANGED vars PROVE IInv'
  <1> USE DEF IInv, vars, files, rest
  <1>1. TypeOK'
    BY DEF TypeOK, Working, Jobs
  <1>2. Exclusive' /\ OneRelease' /\ Working'
    BY DEF Exclusive, OneRelease, Working
  <1>3. StagerKnows' /\ ServerKnows' /\ Settled'
    BY DEF StagerKnows, ServerKnows, Settled, Undisturbed, OwnRunner
  <1> QED
    BY <1>1, <1>2, <1>3

\* Every step, by one lemma per action.
LEMMA NextKeeps == IInv /\ [Next]_vars => IInv'
  <1> SUFFICES ASSUME IInv, [Next]_vars PROVE IInv'
    OBVIOUS
  <1>1. ASSUME NEW b \in Builds, NEW j \in Jobs, Look(b, j) PROVE IInv'
    BY <1>1, LookKeeps
  <1>2. ASSUME NEW b \in Builds, RefreshShim(b) PROVE IInv'
    BY <1>2, RefreshShimKeeps
  <1>3. ASSUME NEW b \in Builds, RefreshUnicode(b) PROVE IInv'
    BY <1>3, RefreshUnicodeKeeps
  <1>4. ASSUME NEW b \in Builds, OpenCarve(b) PROVE IInv'
    BY <1>4, OpenCarveKeeps
  <1>5. ASSUME NEW b \in Builds, WriteCarve(b) PROVE IInv'
    BY <1>5, WriteCarveKeeps
  <1>6. ASSUME NEW b \in Builds, NothingToMerge(b) PROVE IInv'
    BY <1>6, NothingToMergeKeeps
  <1>7. ASSUME NEW b \in Builds, OpenMerged(b) PROVE IInv'
    BY <1>7, OpenMergedKeeps
  <1>8. ASSUME NEW b \in Builds, WriteMerged(b) PROVE IInv'
    BY <1>8, WriteMergedKeeps
  <1>9. ASSUME NEW b \in Builds, WriteRunner(b) PROVE IInv'
    BY <1>9, WriteRunnerKeeps
  <1>10. ASSUME NEW b \in Builds, RemoveCarve(b) PROVE IInv'
    BY <1>10, RemoveCarveKeeps
  <1>11. ASSUME NEW b \in Builds, CheckPasses(b) PROVE IInv'
    BY <1>11, CheckPassesKeeps
  <1>12. ASSUME NEW b \in Builds, CopyShim(b) PROVE IInv'
    BY <1>12, CopyShimKeeps
  <1>13. ASSUME NEW b \in Builds, CopyUnicode(b) PROVE IInv'
    BY <1>13, CopyUnicodeKeeps
  <1>14. ASSUME NEW b \in Builds, WriteSig(b) PROVE IInv'
    BY <1>14, WriteSigKeeps
  <1>15. ASSUME NEW b \in Builds, UseStage(b) PROVE IInv'
    BY <1>15, UseStageKeeps
  <1>16. ASSUME NEW b \in Builds, Crash(b) PROVE IInv'
    BY <1>16, CrashKeeps
  <1>17. CASE UNCHANGED vars
    BY <1>17, StutterKeeps
  <1> QED
    BY <1>1, <1>2, <1>3, <1>4, <1>5, <1>6, <1>7, <1>8, <1>9, <1>10, <1>11, <1>12, <1>13, <1>14, <1>15, <1>16, <1>17 DEF Next, Step

\* The strengthened invariant holds of every behaviour.
THEOREM Inductive == Spec => []IInv
  <1> QED
    BY InitInvariant, NextKeeps, PTL DEF Spec

\* The files and the builds keep their types, in particular a build that is
\* under way knows its job.
THEOREM TypeCorrect == Spec => []TypeOK
  <1>1. IInv => TypeOK
    BY DEF IInv
  <1> QED
    BY <1>1, Inductive, PTL

\* Whatever failed or was killed before it, a build that goes on with the entry
\* has a checked carve of its own platform and extractor and its own release's
\* companions (the properties of extractIfNeeded's hit and of its miss).
THEOREM StagesOwn == Spec => []StagedIsOwn
  <1>1. IInv => StagedIsOwn
    BY DEF IInv, ServerKnows, StagedIsOwn, OwnStage, OwnRunner, Serving
  <1> QED
    BY <1>1, Inductive, PTL

\* The entry a build goes on with is one its next run hits.
THEOREM HitsAgain == Spec => []StagedHitsAgain
  <1>1. IInv => StagedHitsAgain
    <2> SUFFICES ASSUME IInv, NEW b \in Builds, pc[b] = "staged", Undisturbed PROVE Hit(job[b])
      BY DEF StagedHitsAgain
    <2>1. carve = Carve(job[b], "staged") /\ sig = SigOf(job[b]) /\ shim # None /\ unicode # None
      BY DEF IInv, ServerKnows, Serving
    <2>2. carve # None
      <3>1. job[b] \in Jobs
        BY DEF IInv, Working
      <3>2. Carve(job[b], "staged") \in Carves
        BY <3>1 DEF Carve, Carves, Jobs, Forms, Extractors
      <3> QED
        BY <2>1, <3>2, CacheAssumption DEF CacheAssumption
    <2> QED
      BY <2>1, <2>2 DEF Hit
  <1> QED
    BY <1>1, Inductive, PTL
=============================================================================
