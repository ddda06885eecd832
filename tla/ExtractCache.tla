---------------------------- MODULE ExtractCache ----------------------------
(***************************************************************************)
(* The extraction cache of one upstream version, <cache>/<version>/, as    *)
(* stageUpstreamCli and extractIfNeeded use it.  The directory is named    *)
(* for the version only; `.extractor-sig` says which extractor and which   *)
(* provider platform the carve in it came from.  A miss rewrites the carve *)
(* in place and writes the signature last; the old signature stays on disk *)
(* meanwhile.  Builds of several clode releases and for several provider   *)
(* platforms share the directory without a lock, and any build may be      *)
(* killed, or a copy fail, between two writes.                             *)
(***************************************************************************)
EXTENDS Naturals

CONSTANTS Builds,      \* `clode build` processes
          Releases,    \* clode releases sharing the cache
          ExtractorOf, \* the extractor fingerprint of a release
          Platforms,   \* platforms the providers are carved for
          Cyclic,      \* platforms whose graph needs the cyclic-group merge
          MaxCrashes,  \* kills and failed writes (a bound for TLC)
          None

Extractors == {ExtractorOf[r] : r \in Releases}

\* What the file at cliPath (graph.json, or cli.cjs for an unsplit bundle) is:
\* being written, a graph before its cyclic groups are merged, or staged;
\* "unsound" is a staged carve the check would refuse.
Forms  == {"torn", "unmerged", "staged", "unsound"}
Carves == [plat : Platforms, ext : Extractors, form : Forms]
StagedCarves == [plat : Platforms, ext : Extractors, form : {"staged"}]
Sigs   == [plat : Platforms, ext : Extractors]
Jobs   == [plat : Platforms, rel : Releases]

ASSUME CacheAssumption ==
  /\ None \notin Releases \cup Carves \cup Sigs \cup Jobs
  /\ Cyclic \subseteq Platforms
  /\ MaxCrashes \in Nat

VARIABLES
  split,       \* whether this version's bundle is a code-split graph
  carve,       \* the file at cliPath, or None
  runner,      \* a split bundle's cli.cjs: the signature of its source, or None
  shim, unicode, \* the release whose companion is beside it, or None
  sig,         \* .extractor-sig, or None
  pc, job,     \* where a build is, and the provider and release it is of
  crashes,
  interrupted, \* history: a restage over a signed entry was cut short
  overlapped   \* history: builds that could disturb each other overlapped

files == <<carve, runner, shim, unicode, sig>>
rest  == <<split, crashes, interrupted, overlapped>>
vars  == <<files, pc, job, rest>>

-----------------------------------------------------------------------------
\* Mutants: the signature names the release, or leaves the platform out.
SigOfRelease(j)    == [plat |-> j.plat, ext |-> j.rel]
SigOfNoPlatform(j) == [plat |-> CHOOSE q \in Platforms : TRUE, ext |-> ExtractorOf[j.rel]]

\* extractIfNeeded computes the signature once, compares it and writes that;
\* it is a hash of the extractor's files with the provider's platform.
SigOf(j)     == [plat |-> j.plat, ext |-> ExtractorOf[j.rel]]
Carve(j, f)  == [plat |-> j.plat, ext |-> ExtractorOf[j.rel], form |-> f]

Staging == {"extracting", "writing", "merging", "rewriting", "running",
            "checking", "copyingShim", "copyingUnicode", "signing"}
Serving == {"refreshingShim", "refreshingUnicode", "staged"}

Hit(j) == carve # None /\ shim # None /\ unicode # None /\ sig = SigOf(j)

Goto(b, next) == pc' = [pc EXCEPT ![b] = next]
Stop(b) == Goto(b, "idle") /\ job' = [job EXCEPT ![b] = None]

Init ==
  /\ split \in BOOLEAN
  /\ carve = None /\ runner = None /\ shim = None /\ unicode = None /\ sig = None
  /\ pc = [b \in Builds |-> "idle"]
  /\ job = [b \in Builds |-> None]
  /\ crashes = 0 /\ interrupted = FALSE /\ overlapped = FALSE

-----------------------------------------------------------------------------
\* Another build is under way that this one, on a hit or a miss, may disturb or
\* be disturbed by: only hits of one release leave each other alone.
Disturbs(b, j) ==
  \E c \in Builds \ {b} :
    \/ pc[c] \in Staging
    \/ pc[c] \in Serving /\ (job[c].rel # j.rel \/ ~Hit(j))

\* The cache check of extractIfNeeded, up to the first write.
Look(b, j) ==
  /\ pc[b] = "idle"
  /\ job' = [job EXCEPT ![b] = j]
  /\ overlapped' = (overlapped \/ Disturbs(b, j))
  /\ Goto(b, IF Hit(j) THEN "refreshingShim" ELSE "extracting")
  /\ UNCHANGED <<files, split, crashes, interrupted>>

\* A hit copies each companion whose installed source differs.
RefreshShim(b) ==
  /\ pc[b] = "refreshingShim"
  /\ shim' = job[b].rel
  /\ Goto(b, "refreshingUnicode")
  /\ UNCHANGED <<carve, runner, unicode, sig, job, rest>>

RefreshUnicode(b) ==
  /\ pc[b] = "refreshingUnicode"
  /\ unicode' = job[b].rel
  /\ Goto(b, "staged")
  /\ UNCHANGED <<carve, runner, shim, sig, job, rest>>

\* A miss opens cliPath for writing, over whatever carve is there.
OpenCarve(b) ==
  /\ pc[b] = "extracting"
  /\ carve' = Carve(job[b], "torn")
  /\ Goto(b, "writing")
  /\ UNCHANGED <<runner, shim, unicode, sig, job, rest>>

\* An unsplit bundle is staged by this one write; a graph still has its cyclic
\* groups to merge.
WriteCarve(b) ==
  /\ pc[b] = "writing"
  /\ \/ /\ ~split
        /\ \E f \in {"staged", "unsound"} : carve' = Carve(job[b], f)
        /\ Goto(b, "checking")
     \/ /\ split
        /\ carve' = Carve(job[b], "unmerged")
        /\ Goto(b, "merging")
  /\ UNCHANGED <<runner, shim, unicode, sig, job, rest>>

\* mergeStagedGraph: nothing to do without residual cyclic requires ...
\* (The metadata pass before it also writes and removes two scratch files of
\* fixed names here, which only builds that stage at once could mix up.)
NothingToMerge(b) ==
  /\ pc[b] = "merging" /\ job[b].plat \notin Cyclic
  /\ \E f \in {"staged", "unsound"} : carve' = Carve(job[b], f)
  /\ Goto(b, "running")
  /\ UNCHANGED <<runner, shim, unicode, sig, job, rest>>

\* ... else minutes of merging, and the file is written once more.
OpenMerged(b) ==
  /\ pc[b] = "merging" /\ job[b].plat \in Cyclic
  /\ carve' = Carve(job[b], "torn")
  /\ Goto(b, "rewriting")
  /\ UNCHANGED <<runner, shim, unicode, sig, job, rest>>

WriteMerged(b) ==
  /\ pc[b] = "rewriting"
  /\ \E f \in {"staged", "unsound"} : carve' = Carve(job[b], f)
  /\ Goto(b, "running")
  /\ UNCHANGED <<runner, shim, unicode, sig, job, rest>>

WriteRunner(b) ==
  /\ pc[b] = "running"
  /\ runner' = SigOf(job[b])
  /\ Goto(b, "checking")
  /\ UNCHANGED <<carve, shim, unicode, sig, job, rest>>

\* The extractor, the engine's metadata pass or the merge throws, or the check
\* refuses the carve: cliPath is removed and staging fails.
RemoveCarve(b) ==
  /\ \/ pc[b] \in {"extracting", "writing", "merging", "rewriting", "running"}
     \/ pc[b] = "checking" /\ carve \notin StagedCarves
  /\ carve' = None
  /\ interrupted' = FALSE
  /\ Stop(b)
  /\ UNCHANGED <<runner, shim, unicode, sig, split, crashes, overlapped>>

CheckPasses(b) ==
  /\ pc[b] = "checking" /\ carve \in StagedCarves
  /\ Goto(b, "copyingShim")
  /\ UNCHANGED <<files, job, rest>>

CopyShim(b) ==
  /\ pc[b] = "copyingShim"
  /\ shim' = job[b].rel
  /\ Goto(b, "copyingUnicode")
  /\ UNCHANGED <<carve, runner, unicode, sig, job, rest>>

CopyUnicode(b) ==
  /\ pc[b] = "copyingUnicode"
  /\ unicode' = job[b].rel
  /\ Goto(b, "signing")
  /\ UNCHANGED <<carve, runner, shim, sig, job, rest>>

\* Mutant: a signature that is there is kept.
KeepSig(b) ==
  /\ pc[b] = "signing"
  /\ sig' = IF sig = None THEN SigOf(job[b]) ELSE sig
  /\ interrupted' = FALSE
  /\ Goto(b, "staged")
  /\ UNCHANGED <<carve, runner, shim, unicode, job, split, crashes, overlapped>>

WriteSig(b) ==
  /\ pc[b] = "signing"
  /\ sig' = SigOf(job[b])
  /\ interrupted' = FALSE
  /\ Goto(b, "staged")
  /\ UNCHANGED <<carve, runner, shim, unicode, job, split, crashes, overlapped>>

\* The build has read what it needs of what the directory holds.
UseStage(b) ==
  /\ pc[b] = "staged"
  /\ Stop(b)
  /\ UNCHANGED <<files, rest>>

\* The build is killed, or a companion copy or the signature write throws.
Crash(b) ==
  /\ pc[b] # "idle" /\ crashes < MaxCrashes
  /\ crashes' = crashes + 1
  /\ interrupted' = (interrupted \/ (pc[b] \in Staging \ {"extracting"} /\ sig # None))
  /\ Stop(b)
  /\ UNCHANGED <<files, split, overlapped>>

Step(b) == \/ RefreshShim(b) \/ RefreshUnicode(b)
           \/ OpenCarve(b) \/ WriteCarve(b) \/ NothingToMerge(b)
           \/ OpenMerged(b) \/ WriteMerged(b) \/ WriteRunner(b)
           \/ RemoveCarve(b) \/ CheckPasses(b)
           \/ CopyShim(b) \/ CopyUnicode(b) \/ WriteSig(b) \/ UseStage(b)

Next == \E b \in Builds : \/ \E j \in Jobs : Look(b, j)
                          \/ Step(b)
                          \/ Crash(b)

Spec == Init /\ [][Next]_vars

-----------------------------------------------------------------------------
\* Type correctness.
TypeOK ==
  /\ carve \in Carves \cup {None}
  /\ runner \in Sigs \cup {None}
  /\ shim \in Releases \cup {None}
  /\ unicode \in Releases \cup {None}
  /\ sig \in Sigs \cup {None}
  /\ pc \in [Builds -> Staging \cup Serving \cup {"idle"}]
  /\ job \in [Builds -> Jobs \cup {None}]
  /\ split \in BOOLEAN
  /\ crashes \in 0..MaxCrashes
  /\ interrupted \in BOOLEAN
  /\ overlapped \in BOOLEAN

Undisturbed == ~interrupted /\ ~overlapped

\* Whatever failed or was killed before, a build goes on with a checked carve
\* of its own provider platform and extractor, and with its own release's
\* companions, unless a restage was cut short over an entry that stayed
\* signed, or builds that disturb each other overlapped.  In particular a
\* first extraction may be killed anywhere, and a carve that failed its check
\* is never served.
OwnStage(j) ==
  /\ carve = Carve(j, "staged")
  /\ split => runner = SigOf(j)
  /\ shim = j.rel /\ unicode = j.rel

StagedIsOwn ==
  \A b \in Builds : pc[b] = "staged" /\ Undisturbed => OwnStage(job[b])

\* Staging leaves an entry the next build of the same provider and extractor
\* hits: its own signature is there, over whatever signature was there before.
\* That two builds compute one signature is SigOf's, not this property's.
StagedHitsAgain ==
  \A b \in Builds : pc[b] = "staged" /\ Undisturbed => Hit(job[b])

\* "a cache HIT here is by construction a carve for this same platform"
\* (clode-build.cjs): a build that takes the cached carve takes one of its own
\* provider platform.  A restage leaves the old signature beside a new carve.
HitIsOwnPlatform ==
  [][\A b \in Builds : pc[b] = "idle" /\ pc'[b] = "refreshingShim"
        => carve.plat = job'[b].plat]_vars
=============================================================================
