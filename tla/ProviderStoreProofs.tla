------------------------ MODULE ProviderStoreProofs ------------------------
(***************************************************************************)
(* Proofs about ProviderStore, for any sets of processes, readers,         *)
(* versions and keys, any number of chunks, fetches and kills.  A file is  *)
(* known by many: two names, and the descriptors of fetches that overlap.  *)
(* The invariant says who may still write an inode: a partial is no entry, *)
(* a descriptor belongs to the destination of its fetch, and an inode is   *)
(* created at most once.  From that, the bytes that were hashed are the    *)
(* bytes that are installed, unless two fetches of the destination met.    *)
(***************************************************************************)
EXTENDS ProviderStore, TLAPS

Downloads == Procs \X (1..MaxFetches)

\* Who works has a destination, and who writes has its file open.
Working ==
  \A p \in Procs :
    /\ pc[p] # "idle" => job[p] \in Dests /\ fetches[p] >= 1
    /\ IF pc[p] = "writing" THEN fd[p] \in Downloads ELSE fd[p] = None

\* The file at a partial's path is at no other.
OneName ==
  \A d \in Dests : partial[d] # None =>
    /\ partial[d] \in Downloads
    /\ \A e \in Dests : entry[e] # partial[d] /\ (partial[e] = partial[d] => e = d)

\* A file that is still written is at no path but those of its own destination,
\* and installed only where two fetches met.
Writers ==
  \A p \in Procs, d \in Dests : fd[p] # None =>
    /\ partial[d] = fd[p] => d = job[p]
    /\ entry[d] = fd[p] => d \in overlapped

InUse(i) == \/ \E d \in Dests : entry[d] = i \/ partial[d] = i
            \/ \E p \in Procs : fd[p] = i

\* A fetch that is about to open its partial has not created a file yet.
Fresh ==
  \A p \in Procs, n \in 1..MaxFetches :
    InUse(<<p, n>>) => n < fetches[p] \/ (n = fetches[p] /\ pc[p] # "checking")

LegacyGood == \A v \in Versions : WholeAndGood(LegacyInode(v))

\* Two fetches of one destination have met, or are not both at work on it.
Exclusive ==
  \A p, q \in Procs :
    p # q /\ pc[p] \in Fetching /\ pc[q] \in Fetching /\ job[p] = job[q]
      => job[p] \in overlapped

\* What was hashed is still there, as it was.
Hashed ==
  \A p \in Procs : pc[p] = "renaming" /\ job[p] \notin overlapped =>
    partial[job[p]] # None /\ WholeAndGood(partial[job[p]])

\* A fetch that is past its rename, or had nothing to do, has its entry.
Placed == \A p \in Procs : pc[p] \in Swapping \cup {"ok"} => entry[job[p]] # None

\* What a reader found stays there.
Answered ==
  \A r \in Readers :
    /\ rpc[r] = "picking" => seen[r] # None
    /\ found[r] # None => /\ entry[found[r]] # None /\ found[r][1] = seen[r]
                          /\ SameOs(found[r][2], HostOf[r])

IInv == /\ TypeOK /\ Working /\ OneName /\ Writers /\ Fresh /\ LegacyGood /\ Exclusive
        /\ Hashed /\ InstalledIsVerified /\ Placed /\ Answered /\ PointerMissingOnlyMidSwap
-----------------------------------------------------------------------------
\* An inode is a download's or a legacy entry's, and None is neither.
LEMMA InodeFacts ==
  /\ Downloads \subseteq Inodes /\ None \notin Inodes
  /\ \A v \in Versions : LegacyInode(v) \in Inodes /\ LegacyInode(v) \notin Downloads
  /\ \A p \in Procs, n \in 1..MaxFetches : <<p, n>> \in Downloads
  BY StoreAssumption DEF StoreAssumption, Downloads, Inodes, LegacyInode

LEMMA DestFacts ==
  ASSUME NEW d \in Dests
  PROVE  d # None /\ d = <<d[1], d[2]>> /\ d[1] \in Versions /\ d[2] \in Keys
  BY StoreAssumption DEF StoreAssumption, Dests


\* A step that opens no file and starts no fetch leaves fresh what was fresh.
LEMMA FreshKept ==
  ASSUME Fresh, fetches' = fetches, entry' = entry,
         \A d \in Dests : partial'[d] \in {partial[d], None},
         \A q \in Procs : fd'[q] \in {fd[q], None},
         \A q \in Procs : pc'[q] = "checking" => pc[q] = "checking"
  PROVE  Fresh'
<1> SUFFICES ASSUME NEW p \in Procs, NEW n \in 1..MaxFetches, InUse(<<p, n>>)'
             PROVE  n < fetches'[p] \/ (n = fetches'[p] /\ pc'[p] # "checking")
  BY DEF Fresh
<1> DEFINE i == <<p, n>>
<1>1. i # None
  BY InodeFacts
<1>2. InUse(i)'
  OBVIOUS
<1> HIDE DEF i
<1>3. InUse(i)
  BY <1>1, <1>2 DEF InUse
<1>4. n < fetches[p] \/ (n = fetches[p] /\ pc[p] # "checking")
  BY <1>3 DEF Fresh, i
<1> QED
  BY <1>4

\* A fetch that finds its entry and the pointer in place is done.
LEMMA AlreadyUpToDateKeeps ==
  ASSUME IInv, NEW p \in Procs, AlreadyUpToDate(p) PROVE IInv'
  <1> USE StoreAssumption DEF IInv, AlreadyUpToDate, Goto, files, reader, history, Fetching, Swapping, Idle,
                              StoreAssumption, TypeOK, Working
  <1>1. TypeOK'
    OBVIOUS
  <1>2. Working'
    OBVIOUS
  <1>3. OneName'
    BY DEF OneName
  <1>4. Writers'
    BY DEF Writers
  <1>5. Fresh'
    BY DEF Fresh, InUse
  <1>6. LegacyGood'
    BY DEF LegacyGood, LegacyInode, WholeAndGood
  <1>7. Exclusive'
    BY DEF Exclusive
  <1>8. Hashed'
    BY DEF Hashed, WholeAndGood
  <1>9. InstalledIsVerified'
    BY DEF InstalledIsVerified, WholeAndGood
  <1>10. Placed'
    BY DEF Placed, Verified
  <1>11. Answered'
    BY DEF Answered
  <1>12. PointerMissingOnlyMidSwap'
    BY DEF PointerMissingOnlyMidSwap
  <1> QED
    BY <1>1, <1>2, <1>3, <1>4, <1>5, <1>6, <1>7, <1>8, <1>9, <1>10, <1>11, <1>12

\* A fetch that finds its entry sets the pointer.
LEMMA AlreadyHaveKeeps ==
  ASSUME IInv, NEW p \in Procs, AlreadyHave(p) PROVE IInv'
  <1> USE StoreAssumption DEF IInv, AlreadyHave, Goto, files, reader, history, Fetching, Swapping, Idle,
                              StoreAssumption, TypeOK, Working
  <1>1. TypeOK'
    OBVIOUS
  <1>2. Working'
    OBVIOUS
  <1>3. OneName'
    BY DEF OneName
  <1>4. Writers'
    BY DEF Writers
  <1>5. Fresh'
    BY DEF Fresh, InUse
  <1>6. LegacyGood'
    BY DEF LegacyGood, LegacyInode, WholeAndGood
  <1>7. Exclusive'
    BY DEF Exclusive
  <1>8. Hashed'
    BY DEF Hashed, WholeAndGood
  <1>9. InstalledIsVerified'
    BY DEF InstalledIsVerified, WholeAndGood
  <1>10. Placed'
    BY DEF Placed, Verified
  <1>11. Answered'
    BY DEF Answered
  <1>12. PointerMissingOnlyMidSwap'
    BY DEF PointerMissingOnlyMidSwap
  <1> QED
    BY <1>1, <1>2, <1>3, <1>4, <1>5, <1>6, <1>7, <1>8, <1>9, <1>10, <1>11, <1>12

\* The partial is truncated, or created; either way it is no entry, and who
\* else has it open works on the same destination.
LEMMA OpenPartialKeeps ==
  ASSUME IInv, NEW p \in Procs, OpenPartial(p) PROVE IInv'
  <1> USE StoreAssumption DEF IInv, OpenPartial, Goto, files, reader, history, Fetching, Swapping, Idle,
                              StoreAssumption, TypeOK, Working
  <1> DEFINE d == job[p]
             i == IF partial[d] # None THEN partial[d] ELSE <<p, fetches[p]>>
  <1>0. /\ d \in Dests /\ fetches[p] \in 1..MaxFetches /\ <<p, fetches[p]>> \in Downloads
        /\ ~InUse(<<p, fetches[p]>>)
    BY InodeFacts DEF Fresh
  <1>a. /\ i \in Downloads /\ i \in Inodes /\ i # None
        /\ \A e \in Dests : entry[e] # i /\ (partial[e] = i => e = d)
        /\ \A q \in Procs : fd[q] = i => job[q] = d
    <2>1. CASE partial[d] # None
      BY <1>0, <2>1, InodeFacts DEF OneName, Writers
    <2>2. CASE partial[d] = None
      BY <1>0, <2>2, InodeFacts DEF InUse
    <2> QED
      BY <2>1, <2>2
  <1>b. i = partial[d] \/ i = <<p, fetches[p]>>
    OBVIOUS
  <1>d. /\ content' = [content EXCEPT ![i] = [c \in Chunks |-> "hole"]]
        /\ partial' = [partial EXCEPT ![d] = i] /\ fd' = [fd EXCEPT ![p] = i]
        /\ pc' = [pc EXCEPT ![p] = "writing"] /\ dirs' = dirs \cup {d}
    OBVIOUS
  <1>e. \A j \in Inodes \ {i} : content'[j] = content[j]
    BY <1>d
  <1>f. /\ partial' \in [Dests -> Inodes \cup {None}] /\ fd' \in [Procs -> Inodes \cup {None}]
        /\ content' \in [Inodes -> [Chunks -> {"hole", "good", "bad"}]]
        /\ \A e \in Dests : partial'[e] = IF e = d THEN i ELSE partial[e]
        /\ \A q \in Procs : fd'[q] = IF q = p THEN i ELSE fd[q]
    <2> HIDE DEF i, OpenPartial
    <2> QED
      BY <1>0, <1>a, <1>d
  <1> HIDE DEF i
  <1>1. TypeOK'
    BY <1>0, <1>f
  <1>2. Working'
    BY <1>0, <1>a, <1>d
  <1>3. OneName'
    <2>1. UNCHANGED entry
      OBVIOUS
    <2>2. SUFFICES ASSUME NEW e \in Dests, partial'[e] # None, NEW f \in Dests
                   PROVE  /\ partial'[e] \in Downloads
                          /\ entry'[f] # partial'[e] /\ (partial'[f] = partial'[e] => f = e)
      BY DEF OneName
    <2> HIDE DEF OpenPartial, TypeOK, Working
    <2>3. CASE e = d
      BY <1>a, <1>f, <2>1, <2>3
    <2>4. CASE e # d
      <3>1. partial'[e] = partial[e] /\ partial[e] # i
        BY <1>a, <1>f, <2>4
      <3>2. /\ partial[e] \in Downloads
            /\ entry[f] # partial[e] /\ (partial[f] = partial[e] => f = e)
        BY <2>2, <3>1 DEF OneName
      <3> QED
        BY <1>f, <2>1, <3>1, <3>2
    <2> QED
      BY <2>3, <2>4
  <1>4. Writers'
    <2>1. UNCHANGED <<entry, job>> /\ overlapped \subseteq overlapped'
      OBVIOUS
    <2> HIDE DEF OpenPartial
    <2> QED
      BY <1>0, <1>a, <1>f, <2>1 DEF Writers
  <1>5. Fresh'
    <2>1. \A j \in Downloads : InUse(j)' => InUse(j) \/ j = <<p, fetches[p]>>
      BY <1>0, <1>a, <1>b, <1>d DEF InUse
    <2> QED
      BY <1>d, <2>1, InodeFacts DEF Fresh
  <1>6. LegacyGood'
    <2> SUFFICES ASSUME NEW v \in Versions PROVE WholeAndGood(LegacyInode(v))'
      BY DEF LegacyGood
    <2>1. LegacyInode(v) \in Inodes \ {i} /\ WholeAndGood(LegacyInode(v))
      BY <1>a, InodeFacts DEF LegacyGood
    <2>2. content'[LegacyInode(v)] = content[LegacyInode(v)]
      BY <1>e, <2>1
    <2> QED
      BY ONLY <2>1, <2>2 DEF WholeAndGood, LegacyInode
  <1>7. Exclusive'
    BY DEF Exclusive
  <1>8. Hashed'
    BY <1>0, <1>a, <1>d, <1>e DEF Hashed, WholeAndGood
  <1>9. InstalledIsVerified'
    BY <1>a, <1>e DEF InstalledIsVerified, WholeAndGood
  <1>10. Placed'
    BY DEF Placed
  <1>11. Answered'
    BY DEF Answered
  <1>12. PointerMissingOnlyMidSwap'
    BY DEF PointerMissingOnlyMidSwap
  <1> QED
    BY <1>1, <1>2, <1>3, <1>4, <1>5, <1>6, <1>7, <1>8, <1>9, <1>10, <1>11, <1>12

\* Who writes a chunk reaches an entry, or what another fetch has hashed,
\* only if the two have met.
LEMMA WriteChunkKeeps ==
  ASSUME IInv, NEW p \in Procs, WriteChunk(p) PROVE IInv'
  <1> USE StoreAssumption DEF IInv, WriteChunk, Goto, files, reader, history, Fetching, Swapping, Idle,
                              StoreAssumption, TypeOK, Working
  <1>a. fd[p] \in Inodes /\ job[p] \in Dests /\ fd[p] # None /\ fd[p] \in Downloads
    BY InodeFacts
  <1>b. \A j \in Inodes \ {fd[p]} : content'[j] = content[j]
    BY <1>a
  <1>1. TypeOK'
    BY <1>a DEF Chunks
  <1>2. Working'
    OBVIOUS
  <1>3. OneName'
    BY DEF OneName
  <1>4. Writers'
    BY DEF Writers
  <1>5. Fresh'
    BY DEF Fresh, InUse
  <1>6. LegacyGood'
    BY <1>a, <1>b, InodeFacts DEF LegacyGood, WholeAndGood
  <1>7. Exclusive'
    BY DEF Exclusive
  <1>8. Hashed'
    BY <1>a, <1>b DEF Hashed, Exclusive, Writers, WholeAndGood
  <1>9. InstalledIsVerified'
    BY <1>a, <1>b DEF InstalledIsVerified, Writers, WholeAndGood
  <1>10. Placed'
    BY DEF Placed
  <1>11. Answered'
    BY DEF Answered
  <1>12. PointerMissingOnlyMidSwap'
    BY DEF PointerMissingOnlyMidSwap
  <1> QED
    BY <1>1, <1>2, <1>3, <1>4, <1>5, <1>6, <1>7, <1>8, <1>9, <1>10, <1>11, <1>12

\* A descriptor is closed.
LEMMA BodyDoneKeeps ==
  ASSUME IInv, NEW p \in Procs, BodyDone(p) PROVE IInv'
  <1> USE StoreAssumption DEF IInv, BodyDone, Goto, files, reader, history, Fetching, Swapping, Idle,
                              StoreAssumption, TypeOK, Working
  <1>1. TypeOK'
    OBVIOUS
  <1>2. Working'
    OBVIOUS
  <1>3. OneName'
    BY DEF OneName
  <1>4. Writers'
    BY DEF Writers
  <1>5. Fresh'
    BY FreshKept
  <1>6. LegacyGood'
    BY DEF LegacyGood, LegacyInode, WholeAndGood
  <1>7. Exclusive'
    BY DEF Exclusive
  <1>8. Hashed'
    BY DEF Hashed, WholeAndGood
  <1>9. InstalledIsVerified'
    BY DEF InstalledIsVerified, WholeAndGood
  <1>10. Placed'
    BY DEF Placed
  <1>11. Answered'
    BY DEF Answered
  <1>12. PointerMissingOnlyMidSwap'
    BY DEF PointerMissingOnlyMidSwap
  <1> QED
    BY <1>1, <1>2, <1>3, <1>4, <1>5, <1>6, <1>7, <1>8, <1>9, <1>10, <1>11, <1>12

\* A name goes away, and with it what another fetch has hashed, if the two
\* have met.
LEMMA DownloadFailsKeeps ==
  ASSUME IInv, NEW p \in Procs, DownloadFails(p) PROVE IInv'
  <1> USE StoreAssumption DEF IInv, DownloadFails, Goto, files, reader, history, Fetching, Swapping, Idle,
                              StoreAssumption, TypeOK, Working
  <1>1. TypeOK'
    BY DEF Unlink
  <1>2. Working'
    OBVIOUS
  <1>3. OneName'
    BY DEF OneName, Unlink
  <1>4. Writers'
    BY DEF Writers, Unlink
  <1>5. Fresh'
    BY FreshKept DEF Unlink
  <1>6. LegacyGood'
    BY DEF LegacyGood, LegacyInode, WholeAndGood
  <1>7. Exclusive'
    BY DEF Exclusive
  <1>8. Hashed'
    BY DEF Hashed, Exclusive, WholeAndGood, Unlink
  <1>9. InstalledIsVerified'
    BY DEF InstalledIsVerified, WholeAndGood
  <1>10. Placed'
    BY DEF Placed
  <1>11. Answered'
    BY DEF Answered
  <1>12. PointerMissingOnlyMidSwap'
    BY DEF PointerMissingOnlyMidSwap
  <1> QED
    BY <1>1, <1>2, <1>3, <1>4, <1>5, <1>6, <1>7, <1>8, <1>9, <1>10, <1>11, <1>12

\* Likewise when the check refuses the bytes.
LEMMA ChecksumMismatchKeeps ==
  ASSUME IInv, NEW p \in Procs, ChecksumMismatch(p) PROVE IInv'
  <1> USE StoreAssumption DEF IInv, ChecksumMismatch, Goto, files, reader, history, Fetching, Swapping, Idle,
                              StoreAssumption, TypeOK, Working
  <1>1. TypeOK'
    BY DEF Unlink
  <1>2. Working'
    OBVIOUS
  <1>3. OneName'
    BY DEF OneName, Unlink
  <1>4. Writers'
    BY DEF Writers, Unlink
  <1>5. Fresh'
    BY FreshKept DEF Unlink
  <1>6. LegacyGood'
    BY DEF LegacyGood, LegacyInode, WholeAndGood
  <1>7. Exclusive'
    BY DEF Exclusive
  <1>8. Hashed'
    BY DEF Hashed, Exclusive, WholeAndGood, Unlink
  <1>9. InstalledIsVerified'
    BY DEF InstalledIsVerified, WholeAndGood
  <1>10. Placed'
    BY DEF Placed
  <1>11. Answered'
    BY DEF Answered
  <1>12. PointerMissingOnlyMidSwap'
    BY DEF PointerMissingOnlyMidSwap
  <1> QED
    BY <1>1, <1>2, <1>3, <1>4, <1>5, <1>6, <1>7, <1>8, <1>9, <1>10, <1>11, <1>12

\* What is hashed is whole.
LEMMA ChecksumMatchesKeeps ==
  ASSUME IInv, NEW p \in Procs, ChecksumMatches(p) PROVE IInv'
  <1> USE StoreAssumption DEF IInv, ChecksumMatches, Goto, files, reader, history, Fetching, Swapping, Idle,
                              StoreAssumption, TypeOK, Working
  <1>1. TypeOK'
    OBVIOUS
  <1>2. Working'
    OBVIOUS
  <1>3. OneName'
    BY DEF OneName
  <1>4. Writers'
    BY DEF Writers
  <1>5. Fresh'
    BY DEF Fresh, InUse
  <1>6. LegacyGood'
    BY DEF LegacyGood, LegacyInode, WholeAndGood
  <1>7. Exclusive'
    BY DEF Exclusive
  <1>8. Hashed'
    BY DEF Hashed, WholeAndGood
  <1>9. InstalledIsVerified'
    BY DEF InstalledIsVerified, WholeAndGood
  <1>10. Placed'
    BY DEF Placed
  <1>11. Answered'
    BY DEF Answered
  <1>12. PointerMissingOnlyMidSwap'
    BY DEF PointerMissingOnlyMidSwap
  <1> QED
    BY <1>1, <1>2, <1>3, <1>4, <1>5, <1>6, <1>7, <1>8, <1>9, <1>10, <1>11, <1>12

\* What was hashed is renamed: its bytes are whole, and nobody else writes to
\* it, unless two fetches have met.
LEMMA InstallEntryKeeps ==
  ASSUME IInv, NEW p \in Procs, InstallEntry(p) PROVE IInv'
  <1> USE StoreAssumption DEF IInv, InstallEntry, Goto, files, reader, history, Fetching, Swapping, Idle,
                              StoreAssumption, TypeOK, Working
  <1>1. TypeOK'
    OBVIOUS
  <1>2. Working'
    OBVIOUS
  <1>3. OneName'
    BY DEF OneName
  <1>4. Writers'
    BY DEF Writers, Exclusive, OneName
  <1>5. Fresh'
    <2>1. \A j \in Downloads : InUse(j)' => InUse(j)
      BY InodeFacts DEF InUse
    <2> QED
      BY <2>1, InodeFacts DEF Fresh
  <1>6. LegacyGood'
    BY DEF LegacyGood, LegacyInode, WholeAndGood
  <1>7. Exclusive'
    BY DEF Exclusive
  <1>8. Hashed'
    BY DEF Hashed, Exclusive, WholeAndGood
  <1>9. InstalledIsVerified'
    BY DEF InstalledIsVerified, Hashed, WholeAndGood
  <1>10. Placed'
    BY DEF Placed
  <1>11. Answered'
    BY DEF Answered
  <1>12. PointerMissingOnlyMidSwap'
    BY DEF PointerMissingOnlyMidSwap
  <1> QED
    BY <1>1, <1>2, <1>3, <1>4, <1>5, <1>6, <1>7, <1>8, <1>9, <1>10, <1>11, <1>12

\* A rename finds its source gone.
LEMMA RenameThrowsKeeps ==
  ASSUME IInv, NEW p \in Procs, RenameThrows(p) PROVE IInv'
  <1> USE StoreAssumption DEF IInv, RenameThrows, Goto, files, reader, history, Fetching, Swapping, Idle,
                              StoreAssumption, TypeOK, Working
  <1>1. TypeOK'
    OBVIOUS
  <1>2. Working'
    OBVIOUS
  <1>3. OneName'
    BY DEF OneName
  <1>4. Writers'
    BY DEF Writers
  <1>5. Fresh'
    BY DEF Fresh, InUse
  <1>6. LegacyGood'
    BY DEF LegacyGood, LegacyInode, WholeAndGood
  <1>7. Exclusive'
    BY DEF Exclusive
  <1>8. Hashed'
    BY DEF Hashed, WholeAndGood
  <1>9. InstalledIsVerified'
    BY DEF InstalledIsVerified, WholeAndGood
  <1>10. Placed'
    BY DEF Placed
  <1>11. Answered'
    BY DEF Answered
  <1>12. PointerMissingOnlyMidSwap'
    BY DEF PointerMissingOnlyMidSwap
  <1> QED
    BY <1>1, <1>2, <1>3, <1>4, <1>5, <1>6, <1>7, <1>8, <1>9, <1>10, <1>11, <1>12

\* The old pointer is removed.
LEMMA RemovePointerKeeps ==
  ASSUME IInv, NEW p \in Procs, RemovePointer(p) PROVE IInv'
  <1> USE StoreAssumption DEF IInv, RemovePointer, Goto, files, reader, history, Fetching, Swapping, Idle,
                              StoreAssumption, TypeOK, Working
  <1>1. TypeOK'
    OBVIOUS
  <1>2. Working'
    OBVIOUS
  <1>3. OneName'
    BY DEF OneName
  <1>4. Writers'
    BY DEF Writers
  <1>5. Fresh'
    BY DEF Fresh, InUse
  <1>6. LegacyGood'
    BY DEF LegacyGood, LegacyInode, WholeAndGood
  <1>7. Exclusive'
    BY DEF Exclusive
  <1>8. Hashed'
    BY DEF Hashed, WholeAndGood
  <1>9. InstalledIsVerified'
    BY DEF InstalledIsVerified, WholeAndGood
  <1>10. Placed'
    BY DEF Placed
  <1>11. Answered'
    BY DEF Answered
  <1>12. PointerMissingOnlyMidSwap'
    BY DEF PointerMissingOnlyMidSwap
  <1> QED
    BY <1>1, <1>2, <1>3, <1>4, <1>5, <1>6, <1>7, <1>8, <1>9, <1>10, <1>11, <1>12

\* The new pointer is in place.
LEMMA WritePointerKeeps ==
  ASSUME IInv, NEW p \in Procs, WritePointer(p) PROVE IInv'
  <1> USE StoreAssumption DEF IInv, WritePointer, Goto, files, reader, history, Fetching, Swapping, Idle,
                              StoreAssumption, TypeOK, Working
  <1>1. TypeOK'
    BY DestFacts
  <1>2. Working'
    OBVIOUS
  <1>3. OneName'
    BY DEF OneName
  <1>4. Writers'
    BY DEF Writers
  <1>5. Fresh'
    BY DEF Fresh, InUse
  <1>6. LegacyGood'
    BY DEF LegacyGood, LegacyInode, WholeAndGood
  <1>7. Exclusive'
    BY DEF Exclusive
  <1>8. Hashed'
    BY DEF Hashed, WholeAndGood
  <1>9. InstalledIsVerified'
    BY DEF InstalledIsVerified, WholeAndGood
  <1>10. Placed'
    BY DEF Placed
  <1>11. Answered'
    BY DEF Answered
  <1>12. PointerMissingOnlyMidSwap'
    <2>1. job[p][1] \in Versions
      BY DestFacts
    <2> QED
      BY <2>1 DEF PointerMissingOnlyMidSwap
  <1> QED
    BY <1>1, <1>2, <1>3, <1>4, <1>5, <1>6, <1>7, <1>8, <1>9, <1>10, <1>11, <1>12

\* A kill closes the descriptor and leaves the files.
LEMMA CrashKeeps ==
  ASSUME IInv, NEW p \in Procs, Crash(p) PROVE IInv'
  <1> USE StoreAssumption DEF IInv, Crash, Goto, files, reader, history, Fetching, Swapping, Idle,
                              StoreAssumption, TypeOK, Working
  <1>1. TypeOK'
    OBVIOUS
  <1>2. Working'
    OBVIOUS
  <1>3. OneName'
    BY DEF OneName
  <1>4. Writers'
    BY DEF Writers
  <1>5. Fresh'
    BY FreshKept
  <1>6. LegacyGood'
    BY DEF LegacyGood, LegacyInode, WholeAndGood
  <1>7. Exclusive'
    BY DEF Exclusive
  <1>8. Hashed'
    BY DEF Hashed, WholeAndGood
  <1>9. InstalledIsVerified'
    BY DEF InstalledIsVerified, WholeAndGood
  <1>10. Placed'
    BY DEF Placed
  <1>11. Answered'
    BY DEF Answered
  <1>12. PointerMissingOnlyMidSwap'
    BY DEF PointerMissingOnlyMidSwap
  <1> QED
    BY <1>1, <1>2, <1>3, <1>4, <1>5, <1>6, <1>7, <1>8, <1>9, <1>10, <1>11, <1>12

\* Re-keying a legacy entry adds a whole file that nobody writes, or nothing.
LEMMA RekeyEffect ==
  ASSUME IInv, NEW v \in Versions, RekeyLegacyEntry(v), UNCHANGED <<content, overlapped>>
  PROVE  /\ entry' \in [Dests -> Inodes \cup {None}] /\ dirs' \in SUBSET Dests
         /\ legacy' \in [Versions -> Keys \cup {None, Unidentified}]
         /\ \A e \in Dests : \/ entry'[e] = entry[e]
                             \/ /\ entry'[e] = LegacyInode(v) /\ entry'[e] # None
                                /\ entry'[e] \notin Downloads
         /\ InstalledIsVerified'
  <1> USE InodeFacts DEF IInv, TypeOK
  <1>1. CASE legacy[v] \in Keys
    <2> DEFINE d == <<v, legacy[v]>>
    <2>1. d \in Dests /\ LegacyInode(v) \in Inodes /\ LegacyInode(v) # None
      BY <1>1 DEF Dests
    <2>2. /\ entry' = [entry EXCEPT ![d] = LegacyInode(v)] /\ dirs' = dirs \cup {d}
          /\ legacy' = [legacy EXCEPT ![v] = None]
      BY <1>1 DEF RekeyLegacyEntry
    <2> HIDE DEF d
    <2>3. \A e \in Dests : entry'[e] = IF e = d THEN LegacyInode(v) ELSE entry[e]
      BY <2>1, <2>2
    <2>4. InstalledIsVerified'
      <3>1. \A i \in Inodes : WholeAndGood(i)' = WholeAndGood(i)
        BY DEF WholeAndGood, RekeyLegacyEntry
      <3> QED
        BY <2>1, <2>3, <3>1 DEF InstalledIsVerified, LegacyGood
    <2> QED
      BY <2>1, <2>2, <2>3, <2>4
  <1>2. CASE legacy[v] \notin Keys
    BY <1>2 DEF RekeyLegacyEntry, InstalledIsVerified, WholeAndGood
  <1> QED
    BY <1>1, <1>2

\* A fetch begins: what it may re-key is a whole file that nobody writes.
LEMMA BeginKeeps ==
  ASSUME IInv, NEW p \in Procs, NEW d \in Dests, Begin(p, d) PROVE IInv'
  <1> USE StoreAssumption DEF IInv, Begin, Goto, reader, history, Fetching, Swapping, Idle,
                              StoreAssumption, TypeOK, Working
  <1>0. d[1] \in Versions
    BY DestFacts
  <1>m. /\ entry' \in [Dests -> Inodes \cup {None}] /\ dirs' \in SUBSET Dests
        /\ legacy' \in [Versions -> Keys \cup {None, Unidentified}]
        /\ \A e \in Dests : \/ entry'[e] = entry[e]
                            \/ entry'[e] # None /\ entry'[e] \notin Downloads
        /\ InstalledIsVerified'
    BY <1>0, RekeyEffect
  <1>1. TypeOK'
    BY <1>m
  <1>2. Working'
    OBVIOUS
  <1>3. OneName'
    BY <1>m DEF OneName
  <1>4. Writers'
    BY <1>m, InodeFacts DEF Writers
  <1>5. Fresh'
    <2>1. \A j \in Downloads : InUse(j)' => InUse(j)
      BY <1>m, InodeFacts DEF InUse
    <2> QED
      BY <2>1, InodeFacts DEF Fresh
  <1>6. LegacyGood'
    BY DEF LegacyGood, LegacyInode, WholeAndGood
  <1>7. Exclusive'
    BY DEF Exclusive
  <1>8. Hashed'
    BY DEF Hashed, WholeAndGood
  <1>9. InstalledIsVerified'
    BY <1>m
  <1>10. Placed'
    BY <1>m DEF Placed
  <1>11. Answered'
    BY <1>m DEF Answered
  <1>12. PointerMissingOnlyMidSwap'
    BY DEF PointerMissingOnlyMidSwap
  <1> QED
    BY <1>1, <1>2, <1>3, <1>4, <1>5, <1>6, <1>7, <1>8, <1>9, <1>10, <1>11, <1>12

\* A reader reads the pointer.
LEMMA ReadPointerKeeps ==
  ASSUME IInv, NEW r \in Readers, ReadPointer(r) PROVE IInv'
  <1> USE StoreAssumption DEF IInv, ReadPointer, files, fetcher, history, Fetching, Swapping, Idle,
                              StoreAssumption, TypeOK, Working
  <1>1. TypeOK'
    OBVIOUS
  <1>2. Working'
    OBVIOUS
  <1>3. OneName'
    BY DEF OneName
  <1>4. Writers'
    BY DEF Writers
  <1>5. Fresh'
    BY DEF Fresh, InUse
  <1>6. LegacyGood'
    BY DEF LegacyGood, LegacyInode, WholeAndGood
  <1>7. Exclusive'
    BY DEF Exclusive
  <1>8. Hashed'
    BY DEF Hashed, WholeAndGood
  <1>9. InstalledIsVerified'
    BY DEF InstalledIsVerified, WholeAndGood
  <1>10. Placed'
    BY DEF Placed
  <1>11. Answered'
    BY DEF Answered
  <1>12. PointerMissingOnlyMidSwap'
    BY DEF PointerMissingOnlyMidSwap
  <1> QED
    BY <1>1, <1>2, <1>3, <1>4, <1>5, <1>6, <1>7, <1>8, <1>9, <1>10, <1>11, <1>12

\* A reader picks an entry of the host's own system, if it is there.
LEMMA PickEntryKeeps ==
  ASSUME IInv, NEW r \in Readers, PickEntry(r) PROVE IInv'
  <1> USE StoreAssumption DEF IInv, PickEntry, fetcher, history, Fetching, Swapping, Idle,
                              StoreAssumption, TypeOK, Working
  <1>0. seen[r] \in Versions
    BY DEF Answered
  <1>m. /\ entry' \in [Dests -> Inodes \cup {None}] /\ dirs' \in SUBSET Dests
        /\ legacy' \in [Versions -> Keys \cup {None, Unidentified}]
        /\ \A e \in Dests : \/ entry'[e] = entry[e]
                            \/ entry'[e] # None /\ entry'[e] \notin Downloads
        /\ InstalledIsVerified'
    BY <1>0, RekeyEffect
  <1>n. \E a \in Dests \cup {None} :
          /\ found' = [found EXCEPT ![r] = a]
          /\ a # None => entry'[a] # None /\ a[1] = seen[r] /\ SameOs(a[2], HostOf[r])
    <2>1. PICK k \in PickProviderEntry({k \in Keys : <<seen[r], k>> \in dirs'}, HostOf[r]) :
            found' = [found EXCEPT ![r] =
                        IF k # None /\ entry'[<<seen[r], k>>] # None THEN <<seen[r], k>> ELSE None]
      OBVIOUS
    <2>2. k = None \/ (k \in Keys /\ SameOs(k, HostOf[r]))
      BY <2>1 DEF PickProviderEntry, SameOs
    <2>3. CASE found' = [found EXCEPT ![r] = None]
      BY <2>3
    <2>4. CASE k # None /\ entry'[<<seen[r], k>>] # None
      <3>1. <<seen[r], k>> \in Dests /\ k \in Keys
        BY <1>0, <2>2, <2>4 DEF Dests
      <3> DEFINE a == <<seen[r], k>>
      <3>2. a \in Dests /\ entry'[a] # None /\ a[1] = seen[r] /\ SameOs(a[2], HostOf[r])
        BY <2>2, <2>4, <3>1
      <3>3. found' = [found EXCEPT ![r] = a]
        BY <2>1, <2>4
      <3> HIDE DEF a, PickEntry
      <3> QED
        BY <3>2, <3>3
    <2> QED
      BY <2>1, <2>3, <2>4
  <1>1. TypeOK'
    <2>1. found' \in [Readers -> Dests \cup {None}]
      <3> HIDE DEF PickEntry
      <3> QED
        BY <1>n
    <2>2. rpc' \in [Readers -> {"start", "picking", "done"}]
      OBVIOUS
    <2> QED
      BY <1>m, <2>1, <2>2
  <1>2. Working'
    OBVIOUS
  <1>3. OneName'
    BY <1>m DEF OneName
  <1>4. Writers'
    BY <1>m, InodeFacts DEF Writers
  <1>5. Fresh'
    <2>1. \A j \in Downloads : InUse(j)' => InUse(j)
      BY <1>m, InodeFacts DEF InUse
    <2> QED
      BY <2>1, InodeFacts DEF Fresh
  <1>6. LegacyGood'
    BY DEF LegacyGood, LegacyInode, WholeAndGood
  <1>7. Exclusive'
    BY DEF Exclusive
  <1>8. Hashed'
    BY DEF Hashed, WholeAndGood
  <1>9. InstalledIsVerified'
    BY <1>m
  <1>10. Placed'
    BY <1>m DEF Placed
  <1>11. Answered'
    BY <1>m, <1>n DEF Answered
  <1>12. PointerMissingOnlyMidSwap'
    BY DEF PointerMissingOnlyMidSwap
  <1> QED
    BY <1>1, <1>2, <1>3, <1>4, <1>5, <1>6, <1>7, <1>8, <1>9, <1>10, <1>11, <1>12

\* A step that changes nothing.
LEMMA StutterKeeps ==
  ASSUME IInv, UNCHANGED vars PROVE IInv'
  <1> USE DEF vars, files, fetcher, reader, history, IInv
  <1>1. TypeOK' /\ Working' /\ OneName' /\ Writers'
    BY DEF TypeOK, Working, OneName, Writers
  <1>2. Fresh' /\ LegacyGood' /\ Exclusive' /\ Hashed'
    BY DEF Fresh, InUse, LegacyGood, Exclusive, Hashed, WholeAndGood
  <1>3. InstalledIsVerified' /\ Placed' /\ Answered' /\ PointerMissingOnlyMidSwap'
    BY DEF InstalledIsVerified, Placed, Answered, PointerMissingOnlyMidSwap, WholeAndGood
  <1> QED
    BY <1>1, <1>2, <1>3

\* The initial states, whatever an older release has stored.
LEMMA InitInvariant == Init => IInv
  <1> SUFFICES ASSUME Init PROVE IInv
    OBVIOUS
  <1> USE StoreAssumption DEF Init, StoreAssumption, Idle, Fetching, Swapping
  <1>1. LegacyGood
    BY InodeFacts DEF LegacyGood, WholeAndGood, LegacyInode
  <1>2. current \in Versions \cup {None}
    OBVIOUS
  <1>3. TypeOK
    <2>1. content \in [Inodes -> [Chunks -> {"hole", "good", "bad"}]]
      OBVIOUS
    <2>2. legacy \in [Versions -> Keys \cup {None, Unidentified}]
      OBVIOUS
    <2>3. /\ entry \in [Dests -> Inodes \cup {None}] /\ partial \in [Dests -> Inodes \cup {None}]
          /\ dirs \in SUBSET Dests /\ overlapped \in SUBSET Dests
      OBVIOUS
    <2>4. /\ pc \in [Procs -> Idle \cup Fetching \cup Swapping \cup {"checking"}]
          /\ job \in [Procs -> Dests \cup {None}] /\ prev \in [Procs -> Versions \cup {None}]
          /\ fd \in [Procs -> Inodes \cup {None}] /\ pos \in [Procs -> 0..NChunks]
          /\ fetches \in [Procs -> 0..MaxFetches] /\ crashes \in 0..MaxCrashes
      OBVIOUS
    <2>5. /\ rpc \in [Readers -> {"start", "picking", "done"}]
          /\ seen \in [Readers -> Versions \cup {None}]
          /\ found \in [Readers -> Dests \cup {None}]
          /\ interrupted \in BOOLEAN /\ pointed \in BOOLEAN
      OBVIOUS
    <2> HIDE DEF Init, Idle, Fetching, Swapping
    <2> QED
      BY <1>2, <2>1, <2>2, <2>3, <2>4, <2>5 DEF TypeOK
  <1>4. Working /\ OneName /\ Writers /\ Fresh /\ Exclusive /\ Hashed
    BY InodeFacts DEF Working, OneName, Writers, Fresh, InUse, Exclusive, Hashed
  <1>5. InstalledIsVerified /\ Placed /\ Answered /\ PointerMissingOnlyMidSwap
    BY DEF InstalledIsVerified, Placed, Answered, PointerMissingOnlyMidSwap
  <1> QED
    BY <1>1, <1>3, <1>4, <1>5 DEF IInv

LEMMA AdvanceKeeps ==
  ASSUME IInv, NEW p \in Procs, Advance(p) PROVE IInv'
  BY AlreadyUpToDateKeeps, AlreadyHaveKeeps, OpenPartialKeeps, WriteChunkKeeps, BodyDoneKeeps,
     DownloadFailsKeeps, ChecksumMismatchKeeps, ChecksumMatchesKeeps, InstallEntryKeeps,
     RenameThrowsKeeps, RemovePointerKeeps, WritePointerKeeps
  DEF Advance

\* Every step preserves the inductive invariant.
LEMMA NextKeeps == IInv /\ [Next]_vars => IInv'
  <1> SUFFICES ASSUME IInv, [Next]_vars PROVE IInv'
    OBVIOUS
  <1>1. ASSUME NEW p \in Procs, \/ \E d \in Dests : Begin(p, d)
                                \/ Advance(p)
                                \/ Crash(p)
        PROVE  IInv'
    BY <1>1, BeginKeeps, AdvanceKeeps, CrashKeeps
  <1>2. ASSUME NEW r \in Readers, ReadPointer(r) \/ PickEntry(r) PROVE IInv'
    BY <1>2, ReadPointerKeeps, PickEntryKeeps
  <1>3. CASE UNCHANGED vars
    BY <1>3, StutterKeeps
  <1> QED
    BY <1>1, <1>2, <1>3 DEF Next
-----------------------------------------------------------------------------
\* The inductive invariant holds in every reachable state.
THEOREM Inductive == Spec => []IInv
  BY InitInvariant, NextKeeps, PTL DEF Spec

\* Type correctness, for every value of the constants.
THEOREM TypeCorrect == Spec => []TypeOK
  <1>1. IInv => TypeOK
    BY DEF IInv
  <1> QED
    BY <1>1, Inductive, PTL

\* An installed binary is the manifest's, whole, unless two live fetches of its
\* destination overlapped, for any number of fetches, corrupt downloads and kills.
THEOREM InstallsVerified == Spec => []InstalledIsVerified
  <1>1. IInv => InstalledIsVerified
    BY DEF IInv
  <1> QED
    BY <1>1, Inductive, PTL

\* What currentBin answers is verified, of the version read and of the host's
\* system, whatever fetches did between its two reads.
THEOREM ResolvesUsable == Spec => []ResolvedIsUsable
  <1>1. IInv => ResolvedIsUsable
    BY DEF IInv, TypeOK, Answered, InstalledIsVerified, ResolvedIsUsable, Verified
  <1> QED
    BY <1>1, Inductive, PTL

\* The pointer is missing only inside setCurrent, or after a kill inside it.
THEOREM PointerLapses == Spec => []PointerMissingOnlyMidSwap
  <1>1. IInv => PointerMissingOnlyMidSwap
    BY DEF IInv
  <1> QED
    BY <1>1, Inductive, PTL

\* A fetch that reported success left its destination verified.
THEOREM SuccessIsVerified == Spec => []OkMeansVerified
  <1>1. IInv => OkMeansVerified
    BY DEF IInv, TypeOK, Working, Placed, InstalledIsVerified, OkMeansVerified, Verified
  <1> QED
    BY <1>1, Inductive, PTL

\* Re-keying a legacy entry stores nothing new and takes nothing away.
LEMMA RekeyStoresNothing ==
  ASSUME IInv, NEW v \in Versions, RekeyLegacyEntry(v) PROVE UNCHANGED Stored
  <1> USE DEF IInv, TypeOK
  <1>1. CASE legacy[v] \in Keys
    <2> DEFINE d == <<v, legacy[v]>>
    <2>1. d \in Dests /\ LegacyInode(v) # None /\ None \notin Keys /\ None # Unidentified
          /\ legacy[v] # Unidentified
      BY <1>1, InodeFacts, StoreAssumption DEF Dests, StoreAssumption
    <2>2. \A e \in Dests : entry'[e] = IF e = d THEN LegacyInode(v) ELSE entry[e]
      BY <1>1, <2>1 DEF RekeyLegacyEntry
    <2>3. \A w \in Versions : legacy'[w] = IF w = v THEN None ELSE legacy[w]
      BY <1>1 DEF RekeyLegacyEntry
    <2>4. \A e \in Dests : legacy[e[1]] = e[2] <=> legacy'[e[1]] = e[2] \/ e = d
      BY <2>1, <2>3, DestFacts
    <2> HIDE DEF d
    <2>5. {e \in Dests : entry[e] # None} \cup {e \in Dests : legacy[e[1]] = e[2]}
            = {e \in Dests : entry'[e] # None} \cup {e \in Dests : legacy'[e[1]] = e[2]}
      BY <2>1, <2>2, <2>4
    <2>6. {w \in Versions : legacy[w] = Unidentified} = {w \in Versions : legacy'[w] = Unidentified}
      BY <2>1, <2>3
    <2> QED
      BY <2>5, <2>6 DEF Stored
  <1>2. CASE legacy[v] \notin Keys
    BY <1>2 DEF RekeyLegacyEntry, Stored
  <1> QED
    BY <1>1, <1>2

\* Every step of the fetches and readers is one of ActiveProvider, or none.
LEMMA StepRefines ==
  ASSUME IInv, [Next]_vars PROVE Promise!Next \/ UNCHANGED <<Stored, current>>
  <1> USE DEF IInv, TypeOK
  <1>1. ASSUME UNCHANGED <<entry, legacy, current>> PROVE UNCHANGED <<Stored, current>>
    BY <1>1 DEF Stored
  <1>2. ASSUME NEW p \in Procs, NEW d \in Dests, Begin(p, d) PROVE UNCHANGED <<Stored, current>>
    BY <1>2, RekeyStoresNothing, DestFacts DEF Begin
  <1>3. ASSUME NEW r \in Readers, PickEntry(r) PROVE UNCHANGED <<Stored, current>>
    BY <1>3, RekeyStoresNothing DEF PickEntry, Answered
  <1>4. ASSUME NEW p \in Procs, InstallEntry(p) PROVE Promise!Next
    <2>1. job[p] \in Dests /\ job[p] = <<job[p][1], job[p][2]>>
          /\ job[p][1] \in Versions /\ job[p][2] \in Keys
      BY <1>4, DestFacts DEF InstallEntry, Working
    <2>2. \A e \in Dests : entry'[e] # None <=> entry[e] # None \/ e = job[p]
      BY <1>4, <2>1 DEF InstallEntry
    <2>3. Stored' = Stored \cup {job[p]} /\ current' = current
      BY <1>4, <2>1, <2>2 DEF InstallEntry, Stored
    <2>4. Promise!Install(job[p][1], job[p][2])
      BY <2>1, <2>3 DEF Promise!Install
    <2> QED
      BY <2>1, <2>4 DEF Promise!Next
  <1>5. ASSUME NEW p \in Procs, RemovePointer(p) PROVE Promise!Next
    BY <1>5 DEF RemovePointer, files, Stored, Promise!Next, Promise!Lapse
  <1>6. ASSUME NEW p \in Procs, WritePointer(p) PROVE Promise!Next
    <2>1. job[p] \in Dests /\ job[p] = <<job[p][1], job[p][2]>>
          /\ job[p][1] \in Versions /\ job[p][2] \in Keys
      BY <1>6, DestFacts DEF WritePointer, Working
    <2>2. <<job[p][1], job[p][2]>> \in Stored /\ UNCHANGED Stored
      BY <1>6, <2>1 DEF WritePointer, Placed, Swapping, Stored, files
    <2>3. Promise!Point(job[p][1])
      BY <1>6, <2>1, <2>2 DEF WritePointer, Promise!Point
    <2> QED
      BY <2>1, <2>3 DEF Promise!Next
  <1>7. ASSUME NEW p \in Procs, Advance(p) \/ Crash(p),
               ~InstallEntry(p), ~RemovePointer(p), ~WritePointer(p)
        PROVE  UNCHANGED <<entry, legacy, current>>
    BY <1>7 DEF Advance, Crash, AlreadyUpToDate, AlreadyHave, OpenPartial, WriteChunk, BodyDone,
                DownloadFails, ChecksumMismatch, ChecksumMatches, RenameThrows, files
  <1>8. ASSUME NEW r \in Readers, ReadPointer(r) PROVE UNCHANGED <<entry, legacy, current>>
    BY <1>8 DEF ReadPointer, files
  <1>9. CASE UNCHANGED vars
    BY <1>1, <1>9 DEF vars, files
  <1> QED
    BY <1>1, <1>2, <1>3, <1>4, <1>5, <1>6, <1>7, <1>8, <1>9 DEF Next

\* The store implements ActiveProvider: entries stay, and the pointer is only
\* ever set to a version of which there is one.
THEOREM Refines == Spec => KeepsPromise
  <1>1. Init => Promise!Init
    <2> SUFFICES ASSUME Init PROVE Promise!Init
      OBVIOUS
    <2>1. Stored \subseteq Versions \X (Keys \cup {Unidentified})
      BY DEF Stored, Dests
    <2>2. ASSUME NEW v \in Versions, legacy[v] # None
          PROVE  \E k \in Keys \cup {Unidentified} : <<v, k>> \in Stored
      BY <2>2 DEF Init, Stored, Dests
    <2>3. current \in {None} \cup {v \in Versions : legacy[v] # None}
      BY DEF Init
    <2> QED
      BY <2>1, <2>2, <2>3 DEF Promise!Init
  <1>2. IInv /\ [Next]_vars => [Promise!Next]_(Promise!vars)
    BY StepRefines DEF Promise!vars
  <1> QED
    BY <1>1, <1>2, Inductive, PTL DEF Spec, KeepsPromise, Promise!Spec
=============================================================================
