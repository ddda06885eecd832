# A TLA+ verification of clode

clode builds a stand-alone `claude` from an upstream Claude Code binary: it
downloads the binary (a *provider*), carves the JavaScript out of it, stages
that beside its own companions, and runs or links it on engines that are not
Bun, through a Bun shim and a set of Node API shims. Most of it is sequential
text and byte processing. What is hard to test is elsewhere: directories under
the user's cache and data homes that several processes and several releases of
clode share without a lock, stream, process and HTTP shims whose order of events
real programs depend on, and the graph algorithms that decide in which order the
modules of a program may be compiled. These modules are about those parts.

## Inventory

Paths are under `src/libexec/`. "Shared" means shared between processes.

| component | state | operations | what is hard | what makes it correct |
|---|---|---|---|---|
| Provider store (`clode-update`, `clode-current`, `clode-paths`, `clode-net`) | `<providers>/<version>/<os>-<arch>/claude`, its `.claude.partial`, the pointer `current`, legacy `<version>/claude` (all shared) | fetch, re-key, set the pointer, resolve | concurrent fetches, kills, one partial name, pointer swap in two steps | only verified bytes are installed and found; the pointer names something stored |
| Extraction cache (`clode-extract`, `stageUpstreamCli` of `clode-build`) | the carve, a split bundle's runner, two companions, `.extractor-sig` in `<cache>/<version>/` (shared) | look, restage in about ten writes, refresh on a hit | rewritten in place under the old signature; releases and platforms share it | a build goes on with its own checked carve; the entry hits again |
| Stream shim (`node-shim/modules/stream`) | buffer, flags, microtasks, a timer | push, listeners, resume, pause, destroy, iterate, pipe | a buffer, a flush and a microtask per chunk; withheld 'end' and 'close' | nothing lost or reordered, one 'end', one 'close', both eventually |
| Engine template cache (`clode-templates`) | one file per engine (shared) | check, drop, download, write in place | check then read, unlink while another writes | only verified engines; "a cache must never be able to FAIL a build" |
| Launcher dependencies (`naude-sea`) | unpacked trees and temp trees (shared) | unpack, publish by rename, clean up | first launches racing, a cleaner | a launch loads from a whole tree |
| Dependency store (`clode-deps`) | `node_modules`, `.deps-sig` | install, trust, re-install | interrupted installs | nothing partial is trusted |
| Pinned tools (`clode-node`, `clode-rcodesign`) | a versioned directory (shared) | download, verify, unpack, flatten | unpacking over a tree in use | what runs is whole and verified |
| Upstream watcher (`clode-watch`, `clode-signals`) | a stamp, a notice file | throttled check, notice | check-then-act, non-atomic write | about one check per interval, no torn notice acted on |
| Child process shim (`child_process`) | pipes, exit status, pending reads | spawn, read, kill, exit, close | exit against draining; launch failure | 'close' after both ends; no output lost |
| HTTP shim (`http`, `https`, `net`, `tls`) | sockets, request and response state, the body decoder; a server's listener and its connections | connect, write, receive, upgrade, destroy; listen, accept, answer, close | destroy while connecting, failure in mid-body, reads cut anywhere, an answer that overtakes the request's body | each exchange settles once, bodies arrive whole and without framing, no socket leaks |
| `readline`, `timers`, `events` shims | a pending question, queued lines; aborts | question, line, close; setTimeout promise | one slot and a queue | each line goes to one taker |
| Module loader (`node-shim/loader`) | module cache | require, evaluate, throw | cycles and throwing modules | a module is evaluated once |
| Bundle graph and SCC merge (`bun-graph*`, `scc-merge`, `graph-scc-merge`, `extractGraphToFile`) | the document's sources, names and order; the work lists of each search | classify require() calls, order modules, find and merge cyclic groups, order again | edges committed one by one, searches without recursion, what a merge does to the edges | no require() left, each module after what it needs, a refusal only where there is no order |
| Extractor, other shims, Bun shim, blobs, command line | none shared | conversions and I/O | parsing | not a state machine |

They interact through files and calls: a fetch fills the provider store; a build
resolves a provider (`currentBin`), stages it in the extraction cache, takes an
engine from the template cache and links the result; the launcher materialises
dependencies and runs the program, whose `fetch`, child processes and terminal
all go through the Readable of the stream shim.

## Modules

| module | role |
|---|---|
| `ActiveProvider` | abstract: entries appear and stay; the active pointer names a version that has one, or lapses |
| `ProviderStore` | the store in detail; implements `ActiveProvider` |
| `ProviderStoreProofs` | its inductive invariant, theorems and refinement |
| `ExtractCache` | one version's extraction cache and the builds that share it |
| `ExtractCacheProofs` | its inductive invariant and theorems |
| `Readable` | the Readable of the stream shim |
| `ReadableProofs` | its inductive invariant and theorems |
| `PublishedTree` | abstract: a tree appears whole, in one step, where there was none |
| `SeaDeps` | the dependency tree that launches of one naude share; implements `PublishedTree` |
| `SeaDepsProofs` | its inductive invariant, theorems and refinement |
| `HttpWire` | what is on the wire: framing of a body and its decoder, common to the next two |
| `HttpClient` | one request of the HTTP shim, its socket, and any peer |
| `HttpClientProofs` | its inductive invariants and theorems |
| `HttpServer` | the HTTP shim's server and one connection |
| `HttpServerProofs` | the decoder's lemmas, the server's inductive invariant and theorems |
| `ChildProcess` | `execFile` and `spawn` of the child process shim, and the operating system |
| `ChildProcessProofs` | its inductive invariant and theorems |
| `BundleGraph` | the module graph from classification to the staged, merged graph |
| `BundleGraphProofs` | the whole way of any graph: classification, planOrder, components, merge and verdict |
| `MC*` | instances for TLC |

### ProviderStore

Files are inodes, because that is where the hazards are: `entry` and `partial`
map a destination (version and key) to an inode, `content` an inode to its
chunks, and `fd` is an open descriptor that keeps writing to its inode after a
rename or unlink. `partial` has one name per destination, as in the code, so a
second fetch truncates the first one's file. A fetch is `Begin` (re-key the
legacy entry, read the pointer), one of `AlreadyUpToDate`, `AlreadyHave` and
`OpenPartial`, then `WriteChunk`* `BodyDone`, `ChecksumMatches` or
`ChecksumMismatch`, `InstallEntry` (`renameSync`, by path) and the two halves of
`setCurrent`: `RemovePointer`, `WritePointer`. Hashing and renaming are separate
steps. `Crash` kills a process at any of them. A reader is `ReadPointer` then
`PickEntry`, the two moments at which `currentBin` looks at the disk.

`overlapped` records destinations two live fetches wrote at once; there the
installed bytes really can be wrong, as the partial is common to both, and the
content properties exclude exactly those destinations. `interrupted` records a
kill between the halves of `setCurrent` until a later fetch completes one.

### ExtractCache

`carve` is the file at `cliPath` (the graph of a split bundle, the script of
another); its value says which provider platform and extractor it came from and
how far it got. `sig` is `.extractor-sig`, `runner` a split bundle's `cli.cjs`,
`shim` and `unicode` the companions, by the release they came from. A build is
`Look` (the whole hit test) and then two refreshes, or the writes of a miss in
the code's order, `WriteSig` last. `RemoveCarve` is every failure that the code
catches, `Crash` a kill, or one of the copies or the signature write throwing,
which the code does not catch. The extractor's output is a choice between a carve
the check accepts and one it refuses.

`interrupted` records a restage of a signed entry that was cut short, until a
staging completes or removes the carve; `overlapped` that two builds ran at once
of which one could disturb the other (any pair except two hits of one release).
The properties exclude both, because there they fail: the directory is rewritten
in place under its old signature, and has no lock.

### Readable

One microtask of the shim is one element of `micro`, in queue order: a chunk, a
flush of the backlog, 'end', 'close'. Between microtasks, and between two chunks
of a flush (where a listener runs), the producer may push and the consumer may
attach or detach listeners, resume, pause or destroy. `timer` is the macrotask
destroy() sets; it needs `micro` empty. A chunk is its push number.

The histories `lossy`, `torn`, `early` and `released` name the four reasons for
which an ordinary expectation is given up: the consumer resumed or left (chunks
are discarded, as in Node), a chunk was buffered while a flush was queued,
destroy() came before EOF, 'close' was released without its 'end'.

### SeaDeps

`dir` is the shared tree, `tmp[p]` and `stale[p]` the two private paths named for
a process id. A tree is its marker, what the marker lists, and what is there; a
package is there or not as a whole. A launch is `Launch` (the first completeness
test), `Clear`, `Unpack` or `UnpackFails`, `WriteMarker`, `Recheck`, `MoveAside`
or `MoveRefused`, `DeleteStale`, then `Publish`, or `PublishRefused` and the third
test: `DropOwn` or `PlaceFails`. `Clean` takes one old file of the shared tree,
and `DaysPass` is what makes files old; no launch spends days unpacking. A process
id that has ended may be that of a later launch.

`displaced` records that a whole tree was moved aside (finding 4), `gap` that a
launch died after moving a tree aside, `cleaned` the running launches the cleaner
reached, `littered` the ids that died or failed.

### HttpWire, HttpClient, HttpServer

A wire is a sequence of symbols: one for the text of a head, one for the text of a
chunk-size line, CR, LF, and one per body byte, so a read may cut between any two.
`HttpWire` has where a head ends, the framing it announces (`bodyFraming`), and the
decoder: `push` maps its state and new bytes to its state and the body bytes it
returns; `pending` is what the code holds back of an unfinished line or chunk. The loop
of `_pushChunked` is a recursive function, `Loop`, of one `Turn` after another until it
`Stops`. `WholeBody` is the reference: the body of bytes read in one piece.

What a peer sends is a constant: a wire, and the payload that the bodies got are compared
with; so are the request's method and the framing, if any, that its owner declares by a
header (`declared`), over which the shim announces none of its own. That the payload is what the framing of the wire's own head makes of the bytes behind
it is an assumption on these constants (`HttpClientAssumption`, `HttpServerAssumption`);
the instances state their payloads by hand, and TLC checks them against it. A client's
wire has a head wherever one may start, `heads`: an interim one is followed by another, any
other by the body.

`HttpClient` is a `ClientRequest` over a `ClientSocket`. The native socket connects
or refuses, reads any number of the peer's bytes, ends, fails, and completes or fails a write, when
it likes (`Connect`, `ReadDone`, `WriteDone`); what the code does in a continuation
or a deferred event is one element of `micro`, in queue order (`RunJob`); and
`Caller` is the owner, who writes, ends, destroys the request, or attaches to an
upgraded socket, between any two of these. `queue` is what waits for the connection,
`chain` the promises of `_writeChain`, `sent` what reached the native socket. `early`,
`broken` and `resErrors` record that the request was destroyed while it was connecting, that a
write failed, and that the peer cut the body.

`HttpServer` is listen() and close(), the accept loop and `serveConnection`: the head
read by read, the `request` event, the pump that starts in a later tick, and the
response, which end() writes whole before it closes the connection. Each await is a
step of its own, so the pump and the response interleave. The event comes before the body's
framing is judged: a request whose framing is refused, or whose listener throws, is
in the phase "refused", where the handler still has its request and its response but
nobody pumps the one and the connection of the other is closed. `cut` records that the
connection broke.

### ChildProcess

`child`, `orphan` and `wrote` are the operating system's part: a child that writes
to its pipes and goes, perhaps leaving a descendant that holds them. Each drain loop
is `awaiting` a read or has one queued in `micro`; the Readable between a loop and
the collector is taken in its flowing mode (`Readable` has the others), so a chunk is
two microtasks away from the collector. `RunExit` and `RunClose` are the handler of
wait(): 'exit', on which execFile calls back, then 'close', the cancellation of the
loops and the closing of stdin; an exception of the callback, or of a listener of 'close', skips what comes after it.
`events`, `callbacks` and `stdinEvents` are histories of what programs see.

### BundleGraph

Sources are abstracted to their edges: `imports` and `requires`. Round 1 is
extractGraphToFile: `TestRequire` takes the next require() in name order, `Search` is
the reachability search step by step, `LeaveRequire` and `MakeImport` its two
outcomes, `Rewrite` the rewriting of the sources. Round 2 is mergeStagedGraph:
classification again, `planOrder` frame by frame (`PlanRoot`, `PlanDep`, `PlanEmit`,
`PlanCycle`), Tarjan's algorithm with the code's stacks (`GroupRoot`, `GroupEdge`,
`GroupLeave`), the two passes over a group's pairs, the order of its bodies
(`EmitBody`), and `ApplyMerge`, which gives each group a module of its own, turns its
members into shims, and sorts once more.

Whether one member of a group reads another's binding while it evaluates is
read from the text; here `EagerPair` may answer either way. What of mergeGroup concerns
names (collisions, exports, import attributes) is not modelled, nor modules outside the graph.

## Runs

| run | configuration | shows |
|---|---|---|
| `provider_store` | `MCProviderStore` | five invariants of the store, and that it implements `ActiveProvider` |
| `extract_cache` | `MCExtractCache` | a build's stage is its own, and hits again |
| `readable` | `MCReadable` | order, 'end' and 'close', and their liveness |
| `sea_deps` | `MCSeaDeps` | a running launch has its packages; the tree appears whole (`PublishedTree`) |
| `http_client` | `MCHttpClient` | bodies and upgrades keep their bytes, requests go out in order, each settles once, and what may stay open |
| `http_server` | `MCHttpServer` | request bodies, the causes of a failed request, no connection held that nobody serves, answered connections close |
| `child_process` | `MCChildProcess` | order of output and of events, one callback, nothing waits for a descendant |
| `bundle_graph` | `MCBundleGraph` | classification, components and the staged graph against their definitions |
| `empty_entry` | `EmptyEntry.cfg` | violation: an empty directory hides the fallback |
| `stale_sig` | `StaleSig.cfg` | violation: a hit on another platform's carve |
| `stranded_chunk` | `StrandedChunk.cfg` | violation: a chunk that no listener gets |
| `moved_aside` | `MovedAside.cfg` | violation: a whole tree is moved aside |

**Bounds.** `provider_store`: two fetching processes, one fetch each, one kill,
two chunks (enough for a file half one fetch's and half the other's), two
versions (the pointer moves, or an old pointer is kept), three keys of two
systems (exact match, same-system fallback, refusal), one reader, one legacy
version. The processes are symmetric. A sequence of two fetches by one process
is a fetch by each in turn; three at once share nothing that two do not.
`extract_cache`: two builds at once, as many in sequence as one likes, one kill,
two platforms (one with cyclic groups), three releases of which two have the same
extractor (a signature cannot tell those two apart, the companions can); code-split
and plain bundles. `readable`: three chunks and five consumer calls: a chunk can be in
a microtask, in a flush and in the buffer at one time, and a consumer can attach,
detach, attach again, destroy and listen. `sea_deps`: three process ids (one launch
runs or loses a race while two others place), two packages, one kill or failure, any
number of launches in sequence. `http_client`: eleven exchanges (every
framing, refused ones, an interim answer, an upgrade, CONNECT) of at most 15
symbols, read in pieces cut anywhere, bodies of up to three bytes with CR LF among
them, two owners who declare a framing of their own, and two calls of the owner, so that
a destroy meets a write or an end.
`http_server`: eight requests of the same kinds, two writes of the response, one
close(). `child_process`: one stream, as the
streams share nothing but the exit that cancels them, two chunks (a first and a last), two calls on
stdin. `bundle_graph`: every graph of four modules with at most four
edges, imports and requires: two groups of two, a group of three with an outside
module before or after it, a diamond, a module that requires itself.

Deadlock is checked in `extract_cache` and `sea_deps`, where a build or a launch
can always begin. It is also checked in `bundle_graph`, where only a finished graph
stays as it is (`Finished`). It is not in the others: fetches reach their bound, and
a stream, a request or a child that is over is quiet.

**Fairness.** The shims state weak fairness of the next microtask and of their timers,
which the event loop runs without anybody's help, and of what the engine has been
asked for: a connect, a read or a write that is outstanding completes or fails. So a peer
that stays silent for ever is left out; the code has no answer to it without the
inactivity timers, which are not modelled. In `ChildProcess` a read completes
when there is something to read or the pipe has no writer left, wait() when the child is gone; no child has to
exit and no descendant ever does. The
producer and the consumer are never obliged to act, so each liveness property
says from what state of theirs on it holds. Processes that fetch or build may
stop for ever; nothing is claimed to happen in the end there.

## Disagreements found

Each contradicts a sentence that the repository states. The first four are the
counterexamples of violation runs; the fifth is what an invariant of `provider_store`
has to allow for.

1. **`empty_entry`.** `pickProviderEntry` promises "any entry with the SAME OS"
   when the host's own key is missing. `currentBin` passes it directory names,
   and a fetch makes the directory before it downloads. While it downloads, or
   once it has failed, the empty directory of the host's key is chosen, and
   the stored same-OS binary is not found.
2. **`stale_sig`.** stageUpstreamCli's comment calls a hit "by construction a carve
   for this same platform". The signature is not removed when a restage begins:
   cut short after the carve is staged, the directory holds platform B's carve
   under platform A's signature, and the next build for A hits it.
3. **`stranded_chunk`.** A chunk that arrives with no listener between a flush being
   queued and being run stays in the buffer when a listener is attached then;
   later chunks overtake it, and 'end' waits for a buffer no one empties.
4. **`moved_aside`.** materializeDeps tests the tree a second time so that "a tree
   another launch published whole meanwhile is left alone", and then renames
   whatever is there. The tree published between the two is moved aside and deleted
   under the launch that runs from it, and a launch that has just lost the race to
   that tree fails, because it finds none when it looks again.
5. **The pointer swap** (`provider_store`, `PointerMissingOnlyMidSwap`). clodeUpdate's
   comment says "Atomically re-point current", setCurrent's "write a pointer FILE
   atomically (temp + rename)". But setCurrent removes the pointer (`clode-current.cjs:99`)
   before it renames the new one into place: whoever reads in between finds no active
   provider, and a kill there leaves none until a later fetch has swapped it again. The
   step that shows it is `RemovePointer`, after which `current = None` with a pointer set
   before. The invariant keeps what does hold: nothing but this window, and a
   kill in it, makes a pointer that was set lapse.

What no sentence of the repository speaks against, but a reader of the properties
should know; each is a case that a property allows for, and that the code reaches:

- destroy() of a Readable after EOF, with unread chunks and an 'end' listener (which
  `stream.finished` attaches), parks 'close' behind an 'end' that nothing will make
  due (`DestroyedCloses`).
- A ClientSocket destroyed while it connects has no native socket yet; it connects
  afterwards, reads, and stays open. A body the peer cuts short fails the response
  and tears down nothing: no 'close', and the socket stays open (`NativeReleased`).
- A response sent before the request's body has been read closes the connection under
  the pump, and the handler's request fails though nothing broke (`ErrorHasCause`).
  A response that cannot be written leaves the connection open, its promise rejected
  (`AnsweredCloses`).
- A server hands its handler a request before it judges the body's framing. When that is
  refused, or the handler throws, the connection is closed and the server emits
  'clientError', but the request neither ends nor fails, and an answer goes to a closed
  socket (`RequestSettles`).
- close() before listen()'s continuation finds no listener: the server opens after
  it and accepts as ever (`NoneHeldUnserved`, which holds for the connections it then has).
- execFile calls back on 'exit', which wait() brings as soon as the child is gone: the
  output it hands over may lack chunks the loops have not read yet (`LifecycleInOrder`).
  If it throws, 'close' is not emitted, nothing is cancelled and stdin stays open; a
  listener of 'close' that throws leaves the loops and stdin in the same way (`Reaped`).

## Proofs

`ProviderStoreProofs` proves, for every set of processes, readers, versions and keys, every
number of chunks, fetches and kills (`StoreAssumption`: `None` is not a value of the
other sets, the bounds are naturals, every reader has a host key):

- `TypeCorrect`: `Spec => []TypeOK`;
- `InstallsVerified`: `Spec => []InstalledIsVerified`;
- `ResolvesUsable`: `Spec => []ResolvedIsUsable`;
- `PointerLapses`: `Spec => []PointerMissingOnlyMidSwap`;
- `SuccessIsVerified`: `Spec => []OkMeansVerified`;
- `Refines`: `ProviderStore` implements `ActiveProvider`;
- `Inductive`: `Spec => []IInv`, from which the others follow.

What was hashed is not what is renamed: both go by the one partial name. `IInv` therefore
follows inodes. No partial is an entry or another destination's partial
(`OneName`); a descriptor writes to an inode of its own fetch's destination
(`Writers`), and an inode once made is never made again (`Fresh`); two live
fetches of one destination are recorded (`Exclusive`), so that elsewhere the inode a fetch
hashed is the one it renames, and nobody else's descriptor reaches it (`Hashed`,
`Placed`). `StepRefines` maps `InstallEntry` to the abstract installation,
`RemovePointer` to the lapse, `WritePointer` to the new pointer, and everything else
to a stutter, re-keying too: the entry is stored before and after it.

`ExtractCacheProofs` proves, for every set of builds, releases and platforms,
every assignment of extractors to releases and any number of kills:

- `TypeCorrect`: `Spec => []TypeOK`;
- `StagesOwn`: `Spec => []StagedIsOwn`;
- `HitsAgain`: `Spec => []StagedHitsAgain`;
- `Inductive`: `Spec => []IInv`, from which the others follow.

The only assumption is `CacheAssumption`: `None` is not a value of the other
sets, the cyclic platforms are platforms, and the crash bound is a natural.

`StagedIsOwn` is not inductive: it speaks of a build that has finished, and
nothing in it says how the directory came to hold that. `IInv` adds, as long as
nothing was interrupted or overlapped: at most one build stages and then nobody
else is at work (`Exclusive`); builds that serve a hit are of one release
(`OneRelease`); a working build has a job (`Working`); what the stager has
written by each of its stages (`StagerKnows`); what a build that serves a
hit may rely on (`ServerKnows`); and that a signed entry nobody is
staging holds what its signature says (`Settled`).

`SeaDepsProofs` proves, for every set of process ids and packages and any number
of kills and failures (`SeaAssumption`: the dot entry is no package, the bound is
a natural):

- `TypeCorrect`: `Spec => []TypeOK`;
- `RunsComplete`: `Spec => []RunsOnComplete`;
- `PlacesUnlessMoved`: `Spec => []PlacingSucceeds`;
- `LeavesNothing`: `Spec => []NothingLeftBehind`;
- `Refines`: `Spec => PublishesWhole`, that is, `SeaDeps` implements `PublishedTree`;
- `Inductive`: `Spec => []IInv`, from which the others follow.

`RunsOnComplete` is not inductive: what a launch is about to rename into place might
be partial, a marker might list too little, and the cleaner might take a package
without the launch being counted as reached. `IInv` adds that a marker lists every
package (`MarkerListsAll`), how far each launch has got with its partial tree, which
is whole from the marker on (`OwnTree`), that a whole tree seen while a launch works
was published meanwhile and is too young for the cleaner (`Young`), why a launch
about to publish may find something in its way that is not whole (`InTheWay`), and
what a launch that was not cut short has beside the tree (`Tidy`). For the refinement,
`StepRefines` maps `Publish` to the abstract publication, `MoveAside` to taking
away, `Clean` to decay, and everything else to a stutter. `PublishesWhole` needs
`OwnTree` alone of the invariant's parts, and type correctness.

`BundleGraphProofs` proves, for every number of modules and every graph
(`BundleGraphAssumption`: the number is a natural, the graphs are pairs of modules):

- `TypeCorrect`: `Spec => []TypeOK`, which includes that planOrder emits no module twice;
- `ClassifiesRight`: `Spec => []ClassesAreRight`;
- `ResidualsStayCyclic`: `Spec => []ResidualsAreCyclic`: the second classification,
  of the staged sources, makes no new import, so what is merged are the cycles
  of the first;
- `StagesInOrder`: `Spec => []StagedInOrder`: in a staged graph no require() is left, and
  each module is listed once and behind all that it imports;
- `RefusesOnlyCycles`: `Spec => []StopsOnlyAtCycles`: the extraction refuses only a provider
  whose own imports are cyclic;
- `GroupsFoundRight`: `Spec => []GroupsAreComponents`: Tarjan's algorithm, as the code has it
  with its two stacks, finds the strongly connected components of more than one module;
- `VerdictsAreRight`: `Spec => []VerdictIsRight`: whatever is staged runs in its order, merged
  or not, and a graph is refused only for one of the three reasons;
- `NeverStuck`: `Spec => []GoesOn`: every loop that takes the next of what is left finds
  one. In particular mergeBodyOrder's closing throw ("ordered only ... of ... members")
  is out of reach: what is decided stays acyclic (`DecidedInv`), and an acyclic graph on a
  non-empty finite set has a start (`AcyclicStarts`, by the module with fewest before it).
  The model has no action for that throw; TLC's deadlock check finds the same on the instance.

`ClassesAreRight` speaks of paths in `deps`, the graph that grows by one edge at a time, while
the code only ever ran one search per edge in the graph of that moment. The invariant ties
the two: what a search has seen is reachable and, but for its frontier, closed
(`SearchInv`), so a search that ends without a hit proves that there is no path;
an edge added then closes no cycle, through itself or through any other
(`ClassInv`, by a lemma on paths of a graph with one edge more); and paths only
grow, so a require() left because of a cycle stays right. A path is defined
by closed sets, which spares induction over its length. Of planOrder's explicit stack
the order needs that whatever an open module imports is still to be looked at, listed,
or the next frame (`PlanInv`), and a refusal that each open module reaches
those opened after it (`ChainInv`), so that an import of an open one closes a cycle.

Of the components, `TarjanInv` says that both stacks are in the order of the numbers
(`StackInv`); that an open module reaches what was stacked after it, and all that is
stacked reaches an open module numbered no later (`PathInv`); that `low` is the number of a
stacked module it reaches, and no edge looked at leads to a lower number than the open
modules since its source have (`LowInv`); and that the modules off the stack are
closed and their components are those taken (`PlacedInv`). So when `low` equals a module's
number, the stack from there on leads nowhere below, and is one component.

Of the merge, `Judged` follows the graph past the point where the sources are rewritten. Until
then no edge is lost (`NamedInv`), and the groups are the components (`CompsInv`). Their ranks
are a permutation of `1..Cardinality(comps)` (`RankIs`, `GroupsFill`), so going through them in
order takes each once (`BodiesInv`), and the group in hand keeps a body behind what
it reads eagerly (`CurrentInv`). Every import of the merged graph is an import
kept, a shim's, or a merged module's of one outside it (`MergedGraph`), so a path along
planOrder's stack stands for paths between what its names stand for (`MergedFrames`). A
cycle of the merged graph would therefore join a component with a module outside
it, unless the provider's own imports form one: this is why merging whole components,
and nothing less, cannot be refused by the second planOrder.

`ReadableProofs` proves, for any number of chunks and of consumer calls
(`ReadableAssumption`: both bounds are naturals):

- `TypeCorrect`: `Spec => []TypeOK`;
- `LosesNothing`: `Spec => []NothingLost`;
- `EndsThenCloses`: `Spec => []EndThenClose`;
- `Inductive`: `Spec => []IInv`, from which the others follow;
- `RestIsDone`: `Spec => []AtRest` (see "What is owed", below).

The chunks on their way are in four places at once: microtasks, the flush that is
running, the buffer, and those already delivered. `IInv` says which jobs can be queued
behind which, with one flush at most (`JobsInv`); that no chunk is behind a queued 'end'
(`EndInv`); that there is one 'close' in all, queued, pending, withheld or emitted
(`CloseInv`), and ahead of a due 'end' only where that is recorded (`OrderInv`);
which histories explain a discarded or stranded chunk (`LossInv`, `DroppedInv`); and that what is
pending is in push order, behind what was delivered (`LineInv`). The line is kept pair by
pair of places, so no sequence is concatenated and no induction over its length
is needed.

`ChildProcessProofs` proves, for any finite set of streams, any number of chunks and of calls
on stdin (`ChildProcessAssumption`: that, and "none" is not a stream):

- `TypeCorrect`: `Spec => []TypeOK`;
- `DeliversInOrder`: `Spec => []OutputInOrder`;
- `ReportsInOrder`: `Spec => []LifecycleInOrder`;
- `Inductive`: `Spec => []IInv`, from which the others follow;
- `RestIsReaped`: `Spec => []ReapedAtRest` (see "What is owed", below).

Output stays in order because a drain loop has one read, outstanding or queued, and a
queued one is behind all that its stream has queued (`DrainInv`); so a chunk cannot overtake
the one before it, and a cancel that meets a chunk comes behind it. A loop ends at the
end of its pipe, which nobody can write to any more, or by a cancel. One
job at a time carries the child's life on, and says what has not happened yet (`LifeInv`).

`HttpServerProofs` proves, for any requests, of any length and framing, that keep
`HttpServerAssumption`, and any number of calls:

- `TypeCorrect`: `Spec => []TypeOK`;
- `HandlerGetsBody`: `Spec => []RequestIsPayload`;
- `ErrorsAreCaused`: `Spec => []ErrorHasCause`;
- `RestIsSettled`: `Spec => []AtRest` (see "What is owed", below);
- `PushFed`: a decoder fed a body in whatever pieces has given out what it gives out when fed
  it in one.

`PushFed` is about the decoder alone, and is the heart of both modules. It is an induction
over the bytes, with a recursive function, of which neither is built into the prover. The
function comes first: `Ends` is the relation between a state of the loop and the one it
stops in, which holds of one state at most and, as every turn takes bytes off the buffer, of
one at least; a function so defined satisfies the equation of `Loop`, which is therefore not
an empty choice (`LoopIs`). Inductions are over sets of states, by well-founded minimality
(`Induction`, `LoopInduction`), since a theorem with an operator as its parameter cannot be
instantiated here. Then: what the loop does with some bytes, and after it stopped for want of
more with further ones, is what it does with all of them (`LoopMore`); a chunk's data may be
taken in two parts where it was taken in one, and that is the only difference a cut makes. So the state
of a decoder that was fed some bytes is a function of those bytes (`Fed`). The
connection's invariant is that the pump has fed the decoder exactly the bytes taken off
the wire behind the head, less those a read holds that nobody has looked at.

`HttpClientProofs` proves, for any exchanges that keep `HttpClientAssumption`, with any
number of interim heads and any framing, and any number of calls:

- `TypeCorrect`: `Spec => []TypeOK`;
- `SettledOnce`: `Spec => []SettlesOnce`;
- `SocketReleased`: `Spec => []NativeReleased`;
- `RequestSentInOrder`: `Spec => []RequestInOrder`;
- `ResponseIsPayload`: `Spec => []BodyIsPayload`;
- `UpgradeLosesNothing`: `Spec => []UpgradeKeepsBytes`;
- `RestIsSettled`: `Spec => []AtRest` (see "What is owed", below).

Its invariants are layers. `Control` says which jobs can be queued together and in which order
(at most one that sets the connection up, one that the pump waits for, one that
settles the request: `Queued`), what that tells of the socket (`Connection`), that whoever
tears the request down takes the socket with it (`TornDown`), what the owner has heard
(`Heard`), and that a request that failed by itself has nothing under way that would
complete it (`Failed`): each is needed for the next, and none of the properties is inductive
without all. `Sending` keeps the whole of what was asked for equal to what was sent, chained
and queued, in this order. `Stream` says of every byte read where it is: there is a `t` such that the
bytes up to `t` have been handled, and those from `t` on are in the one read job that is queued; the
handled ones behind the current head are in the buffer, were fed to the decoder, or are with the
upgraded socket's owner and in `held`. `HttpClientProofs` takes what the decoder does
from `HttpServerProofs`, of which it has an instance over the constants of `HttpWire`.

### What is owed

A liveness property has two halves: that what is due happens, which is the scheduler's doing and
needs fairness, and that there is something due as long as the promise is open, which is the
code's. The second half is an invariant, and is proved for the four asynchronous components. It
says that whoever can take no further step has kept its promise; a callback forgotten on one
path, a flag that is cleared without queueing what it stood for, or a read that is not asked
for again would break it without any fairness being in question.

| theorem | at rest means | and then |
|---|---|---|
| `ReadableProofs!RestIsDone` | no microtask | a stream that is read, none of whose chunks was stranded by a flush, has delivered all that was pushed and not dropped; with an empty buffer and a reader, its 'end' has come if EOF has, and its 'close' if it is destroyed |
| `ChildProcessProofs!RestIsReaped` | no microtask, the launch failed or `wait()` settled | `execFile` has called back once; unless there was an error or a listener threw, 'close' was emitted, stdin is closed and every drain loop has ended |
| `HttpServerProofs!RestIsSettled` | the pump is over, no write is outstanding | the request ended or failed, not both, or was refused behind its event, with its connection closed and one 'clientError'; the answered connection is closed, or its write failed |
| `HttpClientProofs!RestIsSettled` | no microtask, no read outstanding, no connection on its way | the request closed, or its response failed |

The first, second and fourth rest on an invariant `OwedInv`, inductive with the one before it,
that names for each open promise the job that will keep it: a stream that is flushing has its
flush queued; a wait() that settled has its report queued or has made it; a request that is not
closed is being connected or read. The server's rests on `Settled`. What remains for TLC
alone is that these jobs run and these reads return.

In all eight modules the proof has one lemma per action and in it one step per conjunct,
and TLC checked each invariant before it was proved.

Model-checked only: all liveness (`ReaderGetsEnd`, `DestroyedCloses`, `Settles`,
`NoneHeldUnserved`, `RequestSettles`, `AnsweredCloses`, `Reaped`), whose part that needs fairness is outside what
the proof system handles. Every other property of a passing run is a theorem.

## Not modelled

- Reading of manifests, channels and versions over HTTP, and all parsing.
- The execute bit set after `renameSync`, macOS quarantine attributes.
- The digest: a file is the manifest's if and only if all its chunks are good. A
  legacy entry's bytes are taken to be good.
- Power loss: a kill loses no completed write.
- In `ExtractCache`: the two scratch files that moduleMetas writes into the cache directory
  and reads back (`clode-extract.cjs:180-193`). Only builds that overlap could meet in
  them, and for those `StagedIsOwn` claims nothing. `SigOf` is a function of the provider and
  the extractor: the hash is taken to be the same whenever it is taken.
- In `Readable`: errors, `setEncoding`, two 'data' listeners at once, and pushes
  after EOF, which no producer of the shims makes.
- In the HTTP modules: the text of heads, inactivity timers, pause and resume, proxies,
  TLS, a second connection of a server (connections share only the listener).
- In `ChildProcess`: spawnSync and execFileSync, which are one blocking call, fork's
  message channel, the timeout and maxBuffer options.
- In `BundleGraph`: source text. The extractor, the Bun shim, the blob layout and most
  of the build scripts, which are the greater part of the repository by lines, are text and
  byte processing in which no property of order or of shared state is at stake.
- The components marked `not_modelled` in `PROJECT.json`.

## Plan

1. `NaudeAssets` (launches of different executables writing one directory their
   children read), `ToolStore` (pinned Node and rcodesign, another implementation of
   `PublishedTree`), `EngineCache` (builds check, drop and rewrite one engine).
2. The async iterator and `PassThrough` on `Readable`, with a first-in-first-out channel
   with EOF as the abstract specification they implement.
3. `Loader`, `DepsStore`, `readline`'s pending question.
