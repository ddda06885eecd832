---------------------------- MODULE ProviderStore ----------------------------
(***************************************************************************)
(* The provider store: `clode fetch claude` (clodeUpdate) downloads one    *)
(* upstream binary to <providers>/<version>/<os>-<arch>/claude and points  *)
(* <providers>/current at the version; resolveClaudeBin reads it back      *)
(* through currentBin.  Several fetches and readers share the directory    *)
(* with no lock, and a fetch may be killed between any two of its steps.   *)
(*                                                                         *)
(* Files are inodes: the partial download has one fixed name per           *)
(* destination, so a second fetch of the same destination truncates the    *)
(* file the first one is writing, and a rename moves the inode that other  *)
(* descriptors still write to.                                             *)
(***************************************************************************)
EXTENDS Naturals, FiniteSets

CONSTANTS Procs,        \* processes that run `clode fetch claude`
          Readers,      \* processes that resolve the active provider
          Versions,     \* upstream versions a channel may resolve to
          LegacyVersions, \* versions an older release may have stored
          Keys,         \* "<os>-<arch>" keys an upstream platform maps to
          OsOf,         \* the OS of a key
          HostOf,       \* the key of the host a reader runs on
          NChunks,      \* chunks of one download
          MaxFetches,   \* fetches one process runs (a bound for TLC)
          MaxCrashes,   \* kills (a bound for TLC)
          None,         \* no file, no pointer, no result
          Unidentified  \* a legacy entry whose container names no platform

Dests  == Versions \X Keys
Chunks == 1..NChunks
\* The file a fetch creates, or the file a legacy version-only entry holds.
Inodes == (Procs \X (1..MaxFetches)) \cup ({None} \X Versions)
LegacyInode(v) == <<None, v>>

ASSUME StoreAssumption ==
  /\ NChunks \in Nat \ {0} /\ MaxFetches \in Nat /\ MaxCrashes \in Nat
  /\ None \notin Procs \cup Versions \cup Keys \cup Dests \cup Inodes
  /\ Unidentified \notin Keys \cup {None}
  /\ HostOf \in [Readers -> Keys]

VARIABLES
  current,      \* the version in <providers>/current, or None
  entry,        \* destination -> inode named `claude`, or None
  partial,      \* destination -> inode named `.claude.partial`, or None
  dirs,         \* destinations whose directory exists
  legacy,       \* version -> key of <providers>/<version>/claude, or None
  content,      \* inode -> chunk -> "hole", "good" or "bad"
  pc, job,      \* where a fetch is, and the destination it works on
  prev,         \* the version `current` named when the fetch looked
  fd, pos,      \* the open partial file and the chunks written to it
  fetches,      \* fetches each process has begun
  crashes,
  rpc, seen, found,  \* a reader: where it is, the version read, its answer
  overlapped,   \* history: destinations two live fetches wrote at once
  interrupted,  \* history: a fetch was killed with the pointer removed
  pointed       \* history: the pointer has named a version

files   == <<entry, partial, dirs, legacy, content>>
fetcher == <<pc, job, prev, fd, pos, fetches>>
reader  == <<rpc, seen, found>>
history == <<overlapped, interrupted, pointed>>
vars    == <<current, files, fetcher, crashes, reader, history>>

-----------------------------------------------------------------------------
Idle     == {"idle", "ok", "failed"}   \* "ok", "failed": how the last fetch ended
Fetching == {"writing", "verifying", "renaming"}
Swapping == {"unpointing", "pointing"}

WholeAndGood(i) == \A c \in Chunks : content[i][c] = "good"
Verified(d)     == entry[d] # None /\ WholeAndGood(entry[d])
SameOs(k, h)    == OsOf[k] = OsOf[h]

Goto(p, next) == pc' = [pc EXCEPT ![p] = next]

Init ==
  /\ legacy \in [Versions -> Keys \cup {None, Unidentified}]
  /\ \A v \in Versions \ LegacyVersions : legacy[v] = None
  /\ current \in {None} \cup {v \in Versions : legacy[v] # None}
  /\ entry = [d \in Dests |-> None]
  /\ partial = [d \in Dests |-> None]
  /\ dirs = {}
  /\ content = [i \in Inodes |-> [c \in Chunks |-> IF i[1] = None THEN "good" ELSE "hole"]]
  /\ pc = [p \in Procs |-> "idle"]
  /\ job = [p \in Procs |-> None]
  /\ prev = [p \in Procs |-> None]
  /\ fd = [p \in Procs |-> None]
  /\ pos = [p \in Procs |-> 0]
  /\ fetches = [p \in Procs |-> 0]
  /\ crashes = 0
  /\ rpc = [r \in Readers |-> "start"]
  /\ seen = [r \in Readers |-> None]
  /\ found = [r \in Readers |-> None]
  /\ overlapped = {}
  /\ interrupted = FALSE
  /\ pointed = (current # None)
-----------------------------------------------------------------------------
\* Mutant: an entry whose container names no platform is not left where it is.
RekeyAnyEntry(v) ==
  LET d == <<v, legacy[v]>> IN
  /\ legacy' = [legacy EXCEPT ![v] = None]
  /\ entry' = IF d \in Dests THEN [entry EXCEPT ![d] = LegacyInode(v)] ELSE entry
  /\ dirs' = IF d \in Dests THEN dirs \cup {d} ELSE dirs

\* rekeyLegacyEntry: move <version>/claude to the key its container names.
RekeyLegacyEntry(v) ==
  IF legacy[v] \in Keys
  THEN LET d == <<v, legacy[v]>> IN
       /\ legacy' = [legacy EXCEPT ![v] = None]
       /\ entry' = [entry EXCEPT ![d] = LegacyInode(v)]
       /\ dirs' = dirs \cup {d}
  ELSE UNCHANGED <<legacy, entry, dirs>>

\* clodeUpdate up to its reads of the store: version and manifest are known.
Begin(p, d) ==
  /\ pc[p] \in Idle /\ fetches[p] < MaxFetches
  /\ fetches' = [fetches EXCEPT ![p] = @ + 1]
  /\ job' = [job EXCEPT ![p] = d]
  /\ RekeyLegacyEntry(d[1])
  /\ prev' = [prev EXCEPT ![p] = current]
  /\ Goto(p, "checking")
  /\ UNCHANGED <<current, partial, content, fd, pos, crashes, reader, history>>

\* Mutant: the pointer alone decides; the entry is not looked at.
PointerIsUpToDate(p) ==
  /\ pc[p] = "checking" /\ prev[p] = job[p][1]
  /\ Goto(p, "ok")
  /\ UNCHANGED <<current, files, job, prev, fd, pos, fetches, crashes, reader, history>>

\* haveIt: the entry is there and its sha256 is the manifest's.
AlreadyUpToDate(p) ==
  /\ pc[p] = "checking" /\ Verified(job[p]) /\ prev[p] = job[p][1]
  /\ Goto(p, "ok")
  /\ UNCHANGED <<current, files, job, prev, fd, pos, fetches, crashes, reader, history>>

AlreadyHave(p) ==
  /\ pc[p] = "checking" /\ Verified(job[p]) /\ prev[p] # job[p][1]
  /\ Goto(p, "unpointing")
  /\ UNCHANGED <<current, files, job, prev, fd, pos, fetches, crashes, reader, history>>

\* Mutant: the old pointer goes before the download, not after the rename.
OpenPartialUnpointing(p) ==
  LET d == job[p]
      i == IF partial[d] # None THEN partial[d] ELSE <<p, fetches[p]>>
  IN
  /\ pc[p] = "checking" /\ ~Verified(d)
  /\ current' = None
  /\ dirs' = dirs \cup {d}
  /\ partial' = [partial EXCEPT ![d] = i]
  /\ content' = [content EXCEPT ![i] = [c \in Chunks |-> "hole"]]
  /\ fd' = [fd EXCEPT ![p] = i]
  /\ pos' = [pos EXCEPT ![p] = 0]
  /\ Goto(p, "writing")
  /\ UNCHANGED <<entry, legacy, job, prev, fetches, crashes, reader, history>>

\* mkdir -p, then open '.claude.partial' for writing, truncating what is there.
OpenPartial(p) ==
  LET d == job[p]
      i == IF partial[d] # None THEN partial[d] ELSE <<p, fetches[p]>>
  IN
  /\ pc[p] = "checking" /\ ~Verified(d)
  /\ dirs' = dirs \cup {d}
  /\ partial' = [partial EXCEPT ![d] = i]
  /\ content' = [content EXCEPT ![i] = [c \in Chunks |-> "hole"]]
  /\ fd' = [fd EXCEPT ![p] = i]
  /\ pos' = [pos EXCEPT ![p] = 0]
  /\ overlapped' = IF \E q \in Procs : pc[q] \in Fetching /\ job[q] = d
                   THEN overlapped \cup {d} ELSE overlapped
  /\ Goto(p, "writing")
  /\ UNCHANGED <<current, entry, legacy, job, prev, fetches, crashes, reader,
                 interrupted, pointed>>

\* Mutant: one chunk too many.
WriteChunkPastEnd(p) ==
  /\ pc[p] = "writing" /\ pos[p] <= NChunks
  /\ \E byte \in {"good", "bad"} :
       content' = [content EXCEPT ![fd[p]][pos[p] + 1] = byte]
  /\ pos' = [pos EXCEPT ![p] = @ + 1]
  /\ UNCHANGED <<current, entry, partial, dirs, legacy, pc, job, prev, fd, fetches,
                 crashes, reader, history>>

\* One chunk of the body, as the server sent it.
WriteChunk(p) ==
  /\ pc[p] = "writing" /\ pos[p] < NChunks
  /\ \E byte \in {"good", "bad"} :
       content' = [content EXCEPT ![fd[p]][pos[p] + 1] = byte]
  /\ pos' = [pos EXCEPT ![p] = @ + 1]
  /\ UNCHANGED <<current, entry, partial, dirs, legacy, pc, job, prev, fd, fetches,
                 crashes, reader, history>>

\* The stream ends, also short of its length: nothing but the checksum tells.
BodyDone(p) ==
  /\ pc[p] = "writing"
  /\ fd' = [fd EXCEPT ![p] = None]
  /\ Goto(p, "verifying")
  /\ UNCHANGED <<current, files, job, prev, pos, fetches, crashes, reader, history>>

\* The response breaks off, or the bytes at the partial's path are not the
\* manifest's: unlink whatever that path names now, and fail.
Unlink(p) == partial' = [partial EXCEPT ![job[p]] = None]

DownloadFails(p) ==
  /\ pc[p] = "writing"
  /\ Unlink(p)
  /\ fd' = [fd EXCEPT ![p] = None]
  /\ Goto(p, "failed")
  /\ UNCHANGED <<current, entry, dirs, legacy, content, job, prev, pos, fetches, crashes,
                 reader, history>>

ChecksumMismatch(p) ==
  /\ pc[p] = "verifying"
  /\ partial[job[p]] # None => ~WholeAndGood(partial[job[p]])
  /\ Unlink(p)
  /\ Goto(p, "failed")
  /\ UNCHANGED <<current, entry, dirs, legacy, content, job, prev, fd, pos, fetches,
                 crashes, reader, history>>

\* Mutant: a complete download counts as a verified one.
AnyDownloadMatches(p) ==
  /\ pc[p] = "verifying" /\ partial[job[p]] # None
  /\ Goto(p, "renaming")
  /\ UNCHANGED <<current, files, job, prev, fd, pos, fetches, crashes, reader, history>>

ChecksumMatches(p) ==
  /\ pc[p] = "verifying"
  /\ partial[job[p]] # None /\ WholeAndGood(partial[job[p]])
  /\ Goto(p, "renaming")
  /\ UNCHANGED <<current, files, job, prev, fd, pos, fetches, crashes, reader, history>>

\* renameSync(tmp, bin), by path: another fetch may have replaced or taken it.
InstallEntry(p) ==
  LET d == job[p] IN
  /\ pc[p] = "renaming" /\ partial[d] # None
  /\ entry' = [entry EXCEPT ![d] = partial[d]]
  /\ partial' = [partial EXCEPT ![d] = None]
  /\ Goto(p, "unpointing")
  /\ UNCHANGED <<current, dirs, legacy, content, job, prev, fd, pos, fetches, crashes,
                 reader, history>>

RenameThrows(p) ==
  /\ pc[p] = "renaming" /\ partial[job[p]] = None
  /\ Goto(p, "failed")
  /\ UNCHANGED <<current, files, job, prev, fd, pos, fetches, crashes, reader, history>>

\* setCurrent: the per-process temp file, then rm of the pointer, then rename.
RemovePointer(p) ==
  /\ pc[p] = "unpointing"
  /\ current' = None
  /\ Goto(p, "pointing")
  /\ UNCHANGED <<files, job, prev, fd, pos, fetches, crashes, reader, history>>

WritePointer(p) ==
  /\ pc[p] = "pointing"
  /\ current' = job[p][1]
  /\ interrupted' = FALSE
  /\ pointed' = TRUE
  /\ Goto(p, "ok")
  /\ UNCHANGED <<files, job, prev, fd, pos, fetches, crashes, reader, overlapped>>

\* The process is killed; its descriptor is closed and its files stay.
Crash(p) ==
  /\ pc[p] \notin Idle /\ crashes < MaxCrashes
  /\ crashes' = crashes + 1
  /\ interrupted' = (interrupted \/ pc[p] = "pointing")
  /\ fd' = [fd EXCEPT ![p] = None]
  /\ Goto(p, "idle")
  /\ UNCHANGED <<current, files, job, prev, pos, fetches, reader, overlapped, pointed>>

-----------------------------------------------------------------------------
\* currentBin: the pointer first ...
ReadPointer(r) ==
  /\ rpc[r] # "picking"
  /\ seen' = [seen EXCEPT ![r] = current]
  /\ found' = [found EXCEPT ![r] = None]
  /\ rpc' = [rpc EXCEPT ![r] = IF current = None THEN "done" ELSE "picking"]
  /\ UNCHANGED <<current, files, fetcher, crashes, history>>

\* Mutant: without the host's key, any entry will do.
PickAnyEntry(keys, h) == IF h \in keys THEN {h} ELSE keys \cup {None}

\* ... then the legacy entry re-keyed and the directory names listed.  The
\* exact key, else any of the host's OS; the binary in it may be missing.
PickProviderEntry(keys, h) ==
  IF h \in keys THEN {h}
  ELSE LET sameOs == {k \in keys : SameOs(k, h)}
       IN IF sameOs = {} THEN {None} ELSE sameOs

PickEntry(r) ==
  /\ rpc[r] = "picking"
  /\ RekeyLegacyEntry(seen[r])
  /\ \E k \in PickProviderEntry({k \in Keys : <<seen[r], k>> \in dirs'}, HostOf[r]) :
       found' = [found EXCEPT ![r] =
                   IF k # None /\ entry'[<<seen[r], k>>] # None THEN <<seen[r], k>> ELSE None]
  /\ rpc' = [rpc EXCEPT ![r] = "done"]
  /\ UNCHANGED <<current, partial, content, fetcher, crashes, seen, history>>

-----------------------------------------------------------------------------
Advance(p) == \/ AlreadyUpToDate(p) \/ AlreadyHave(p) \/ OpenPartial(p)
              \/ WriteChunk(p) \/ BodyDone(p) \/ DownloadFails(p)
              \/ ChecksumMismatch(p) \/ ChecksumMatches(p)
              \/ InstallEntry(p) \/ RenameThrows(p)
              \/ RemovePointer(p) \/ WritePointer(p)

Next == \/ \E p \in Procs : \/ \E d \in Dests : Begin(p, d)
                            \/ Advance(p)
                            \/ Crash(p)
        \/ \E r \in Readers : ReadPointer(r) \/ PickEntry(r)

Spec == Init /\ [][Next]_vars

-----------------------------------------------------------------------------
\* Type correctness.
TypeOK ==
  /\ current \in Versions \cup {None}
  /\ entry \in [Dests -> Inodes \cup {None}]
  /\ partial \in [Dests -> Inodes \cup {None}]
  /\ dirs \in SUBSET Dests
  /\ legacy \in [Versions -> Keys \cup {None, Unidentified}]
  /\ content \in [Inodes -> [Chunks -> {"hole", "good", "bad"}]]
  /\ pc \in [Procs -> Idle \cup Fetching \cup Swapping \cup {"checking"}]
  /\ job \in [Procs -> Dests \cup {None}]
  /\ prev \in [Procs -> Versions \cup {None}]
  /\ fd \in [Procs -> Inodes \cup {None}]
  /\ pos \in [Procs -> 0..NChunks]
  /\ fetches \in [Procs -> 0..MaxFetches]
  /\ crashes \in 0..MaxCrashes
  /\ rpc \in [Readers -> {"start", "picking", "done"}]
  /\ seen \in [Readers -> Versions \cup {None}]
  /\ found \in [Readers -> Dests \cup {None}]
  /\ overlapped \in SUBSET Dests
  /\ interrupted \in BOOLEAN
  /\ pointed \in BOOLEAN

\* An installed `claude` is the manifest's bytes, whole, through any mix of
\* corrupt downloads, kills and leftover partials, unless two live fetches of
\* that very destination overlapped (the partial's name is theirs in common).
InstalledIsVerified ==
  \A d \in Dests \ overlapped : entry[d] # None => WholeAndGood(entry[d])

\* What currentBin answers is a whole verified binary of the version it read
\* and of the host's own OS, whatever fetches did between its two reads.
ResolvedIsUsable ==
  \A r \in Readers : found[r] # None =>
     /\ found[r][1] = seen[r] /\ SameOs(found[r][2], HostOf[r])
     /\ found[r] \in overlapped \/ Verified(found[r])

\* The swap of the pointer is not atomic, whatever its comments say: setCurrent
\* removes the old one before it renames the new one into place.  Of that
\* lapse, this says that it is the only one: once set, the pointer is missing
\* only inside some setCurrent, or after a kill inside one that no later fetch
\* has made good; a fetch that is up to date, fails or is killed anywhere else
\* never costs it, nor does one setCurrent that meets another.
PointerMissingOnlyMidSwap ==
  pointed /\ current = None => interrupted \/ \E p \in Procs : pc[p] = "pointing"

\* A fetch that reported success left its own destination verified, whatever
\* partial an earlier killed fetch had left in its way.
OkMeansVerified ==
  \A p \in Procs : pc[p] = "ok" => job[p] \in overlapped \/ Verified(job[p])

\* "Exact `<os>-<arch>` first; then any entry with the SAME OS" (clode-paths.cjs):
\* currentBin answers nothing only if no binary of the host's OS is stored for
\* the version.  It picks among directory names, one of which may be empty.
FallbackFindsSameOs ==
  [][\A r \in Readers :
       rpc[r] = "picking" /\ rpc'[r] = "done" /\ found'[r] = None
         => \A k \in Keys : SameOs(k, HostOf[r]) => entry'[<<seen[r], k>>] = None]_vars

\* The store implements ActiveProvider: a legacy entry counts under its key.
Stored == {d \in Dests : entry[d] # None}
            \cup {d \in Dests : legacy[d[1]] = d[2]}
            \cup {<<v, Unidentified>> : v \in {w \in Versions : legacy[w] = Unidentified}}
Promise == INSTANCE ActiveProvider
             WITH Keys <- Keys \cup {Unidentified}, installed <- Stored, active <- current
KeepsPromise == Promise!Spec
=============================================================================
