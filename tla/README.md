# A verification project for modeld

modeld keeps AI model files on one machine: a content-addressed store (CAS) of
blobs on disk, name tags that point at blobs, pins that protect blobs from
reclamation, a daemon that serves all this over a Varlink socket and hands out
sealed descriptors of blobs, and `modelctl`, a command line tool that imports and
downloads models. This directory holds TLA+ modules that model it, TLC
configurations that check them on small instances, and theorems that TLAPS proves
for every value of the constants. All source paths below are relative to
`src/crates`.

## 1. Inventory

| Component | State | Operations | Interacts by |
|---|---|---|---|
| **CAS blob files** `modeld-core/src/cas/store.rs` | files under `cas/blobs/sha256/`, `cas/`, `cas/incoming/` | `blob_path`, `has_blob`, `open_blob`, `blob_size`, `store_blob` | files only, no lock |
| **Tag registry** `cas/tags.rs` | files `tags/<name>/<variant>` | `set_tag`, `get_tag`, `list_tags`, `remove_tag` (no caller) | files |
| **Eviction** `cas/eviction.rs` | files under `pinned/` | `pin`, `unpin`, `is_pinned`, `prune` | scans and unlinks blob files |
| **Import** `modelctl/src/cmd/import.rs` | a process | validate, `store_blob`, `set_tag` | works on the root directly |
| **Pull** `modelctl/src/cmd/pull/{stream,commit_artifact}.rs` | a process, a staged file | skip test, download, rename, relink, tag, symlinks, notify | the root directly, then `Register` calls |
| **Resolution** `pull/resolve/*.rs` | none | alias, Hugging Face tree, file selection | HTTP |
| **Bootstrap** `pull/bootstrap.rs` | a set of tasks | plan, pull all targets at once, join, report | envelope, pull |
| **Visual pulls** `cmd/visual/*.rs` | none | one pull each | pull |
| **Varlink methods** `modeld-daemon/src/varlink/{model1,register,inspect,service}.rs` | none (all on disk) | List, Inspect, Pin, Unpin, Prune, GetStorageStats, Register, service methods | store, tags, eviction |
| **Varlink connection** `varlink/{server,protocol}.rs`, `modelctl/src/client.rs` | receive buffer per connection | frame, dispatch, reply; shutdown | socket |
| **Descriptor handoff** `fd_server.rs`, `modeld-core/src/descriptor/*.rs` | a memfd per request | resolve, copy, seal, send | store, tags, socket |
| **Peer authorization** `auth.rs` | none | lookup of the peer's groups | user database |
| **Daemon lifecycle** `main.rs`, `activation.rs`, `notify.rs` | listeners, watchdog, shutdown channel | start, readiness, reload, stop | systemd, signals |
| **Execution envelope** `modeld-core/src/envelope/*.rs` | none | topology with fallbacks, memory budget, the plan of a family | the socket of inferenced, /proc/meminfo |
| **Format checks** `modeld-core/src/format/*.rs` | none | magic and header validation, metadata | pure, files |
| **Reflink** `cas/reflink.rs` | none | clone or copy (no caller) | |
| **Configuration, CLI, install files** | none | parsing, printing | |

How they interact. The daemon's handlers and every `modelctl` process work on one
directory tree and share nothing else: no lock file, no rename of directories, no
journal. The daemon spawns a task per connection and a handler is a plain function
that runs on a runtime thread, so two calls interleave at every system call, and
so does a call with `modelctl` processes, which write blobs and tags without
asking the daemon. What holds the store together is only the order of the system
calls in each operation and what `rename`, `link` and `unlink` do atomically. The
daemon also keeps nothing in memory between two calls.

What is hard.

* A blob has up to three names, and readers look for them in a fixed order. `prune`
  scans two of them, at two moments, and removes two of them, at two moments.
* `prune` decides on a scan it made earlier; pins, other prunes and writers move on.
* `commit_artifact` removes the standard name of a blob before it links the new one,
  and falls back to `fs::copy`, the only write to a file that is already published.
* A tag file is truncated and then written. A process may be killed in between.
* Errors are sometimes propagated, sometimes skipped, sometimes discarded
  (`let _ =`), in neighbouring lines.
* Readers look a blob up twice (once for its size, once to open it).
* One read of a connection may bring part of a call, or several calls; a reply waits for
  a peer that may not read; shutdown can arrive at each await.
* The connections of a stopping daemon are tasks that nobody awaits, the watchdog is not
  fed while it drains. Socket files outlive a daemon without a manager, so that its next
  start fails; with modeld.service they go with the process, while the manager's sockets
  may stay, or be closed with everything that waits in them.
* A family is bootstrapped by pulls that run at once and fail one by one.
* A pull writes its tag, then up to three symbolic links, then asks the daemon to write the
  same tag again; another pull may come between any two of these steps, and `List` reads
  all tags while they are written.
* Header parsers pass over data whose sizes the file itself declares, nested, with capped
  loops and with arithmetic on the declared sizes.
* A quantization is looked for in file names that contain each other (F16 in BF16), by
  three searches of falling strictness over a listing in the server's order.

What makes each component correct.

* *Eviction*: a pinned blob is not reclaimed; a call stops at its budget and reaches
  it unless everything left is pinned; what was written first goes first; reported bytes were
  freed; every call is answered, whatever happens to the files it scans.
* *CAS files*: what a digest's path names is the whole blob with that digest; storing
  a blob again never makes it unreachable; a killed writer leaves no torn blob.
* *Tags*: a tag names a blob that is there; an empty tag has somebody to blame.
* *Handoff*: the descriptor holds the bytes of the digest that was asked for.
* *Connection*: replies come in the order of the calls, one per call.
* *Lifecycle*: the manager's watchdog does not expire while the daemon is alive, a stop
  comes to an end whatever peers do, no new work is taken on during it, and a connection
  that waits in a backlog is taken by some process, unless the manager drops it.
* *Names*: after a pull, tag and links lead to one blob; a link that works is not taken
  over, and one that dangles is made anew; a listing holds every tag it can reach or says
  nothing.
* *Formats*: the parser and the file stay in step, metadata comes from inside the file, and
  the parser reads as GGUF or SafeTensors what the detector calls so.
* *Resolution*: the file chosen has the quantization asked for, and none that fits better
  was passed over.
* *Bootstrap*: what is planned fits into the machine, more memory never plans less, and
  success is reported if and only if every pull succeeded.

## 2. Modules

    CasLayout                 files: directory entries and inodes
      |-- Eviction            Prune, Pin, Unpin tasks, crashes of the daemon
      |     `-- EvictionAudit history variables for what Prune reports
      |-- TagRegistry         tag files
      |     `-- CasWriters    import and pull processes
      `-- ModelStore = Eviction + CasWriters on one storage root
            `-- FdHandoff     descriptor requests that read this root
    OrderedService            abstract: calls answered in order, one reply each
      `-- VarlinkConnection   handle_varlink_client and a peer; implements it
    DaemonLifecycle           main, listeners, watchdog, service manager, clients
    Bootstrap                 topology, budget, plan, parallel pulls
    Publication               tag, links, Register and List of a pulled model
    FormatDetection           the first bytes of a file
      `-- HeaderReader        Inspect and Register: detection, then the header parsers
    ModelResolution           aliases, the tree of a repository, selection of a file

The theorems are in eight modules: **EvictionProofs** (CasLayout, Eviction, EvictionAudit),
**ModelStoreProofs** (TagRegistry, CasWriters, ModelStore, FdHandoff; it uses EvictionProofs),
**PublicationProofs**, **VarlinkConnectionProofs**, **DaemonLifecycleProofs**,
**HeaderReaderProofs**, **ModelctlProofs** (Bootstrap and ModelResolution, what modelctl
decides before it downloads), and **FiniteSums**, lemmas about sums over finite sets
that EvictionProofs and ModelctlProofs rest on. Each `MCX` with its .cfg files gives the
constants of X values for TLC.

**CasLayout** models what `store.rs` puts on disk. Since two names of a blob may be
hard links to one file, a path is a directory entry `link[l][d]` that names an inode,
and content, size and modification time belong to the inode. `BlobPlace` is
`blob_path`, `Resolvable` is `has_blob`, `StoredBytes` is what GetStorageStats adds
up (each inode once). A blob's content is its digest or `Torn`, which stands for
every content that is not a whole blob: an empty file, a prefix. `Shapes` names the
combinations of names that imports, pulls and prunes leave behind, and a behaviour
starts from any assignment of them to digests.

**Eviction** has an action per system call of `prune` that another task can tell
apart: the two directory reads, the `metadata` of each entry, the check of a pin, the
two unlinks. The locals of a call are `ppc`, `budget`, `listing`, `snap`, `total`,
`reclaimed`, `victim` and `hit`, and they are gone when it returns. A sorted vector
is modelled as the set `snap` of which an oldest member is taken, which leaves the
order of equal modification times open, as the directory order does. It is the time of
the last write: no action of a reader touches it, as nothing in the code does. `Unpin` looks
and then removes; `Pin` is one step, since creating the pin file is. `DaemonCrash`
loses every call in progress. Pins are files and survive.

**EvictionAudit** adds history variables that constrain nothing: which digests a call
passed over as pinned, bytes that left the disk, bytes reported.

**TagRegistry** and **CasWriters** model `import` and `pull`. Both stage and hash a file
(the stream is one step: a staged file is private until it is renamed), both rename
it, the pull then relinks the standard name (`commit_artifact` step 2: remove,
`hard_link`, `fs::copy` as fallback, split into opening with truncation and copying,
because another process can come between), and both write a tag in two steps. Every
I/O error the code handles is an action, and `Kill` ends a process anywhere. A pull's
skip test (`stream.rs` 43-60) is `PullSkip`; with `--force` it is not made. The three
`is_file()` calls by which an import finds its target are one step.

**ModelStore** is the conjunction: a step is one of the daemon or one of a writer.

**FdHandoff** is `handle_fd_request`: resolve the identifier (a tag file or a digest), look
the blob up for its size, look it up again and open it, read it in two steps (a mixture
of two contents is `Torn`), send. Between any two of them the root may change. An
open file stays readable when its names are gone, as the inode does.

**VarlinkConnection** counts bytes: `sent`, `received` and `consumed` are positions in the
peer's stream and `nuls` the positions of the NULs, so that a frame is the interval
between two of them and the buffer is what lies between `consumed` and `received`. An
action is what the task does between two awaits. `eager` tells a peer that pipelines
from one that waits for each reply, as `VarlinkClient` of modelctl does. `OrderedService` is the
abstract specification: calls arrive, each is answered in turn, the connection may close.

**DaemonLifecycle** is one process after another on the same socket files: the stores are
opened, the passed sockets adopted or standalone ones bound, mode set, tasks spawned,
READY=1, signal handlers, signal, drain, STOPPING=1, exit; every `?` on the way is an action
that ends the process. `unit` and the actions `RestartSockets`, `OperatorStop` and
`OpenSockets` are what modeld.service and modeld.socket do to the sockets: they are closed by
a stop and by the restart after a failure (`PartOf=`), which drops what waits in their
backlog (a client that is "lost"); socket files go with every process
(`RuntimeDirectory=`); after a process that ended by itself the sockets are open but
"stale", without files. Without a manager files stay, and a client can connect from the
bind on. One read may complete several calls, which are answered without a look at the
shutdown channel between them (`calls`). The order of the branches of
the biased `select!` of both accept loops is kept: the shutdown channel is looked at first,
the accept may still succeed in the same poll. Time is a counter: `Tick` advances the
ages of the last ping and of the drain, and cannot pass the moment where a task would be
polled later than `Slack` allows.

**Bootstrap** counts memory in tenths of a MiB, in which every size and threshold of the
catalogue is a whole number; the code computes 85% and 50% in floating point on bytes,
which rounds by less than such a unit. The five planners are operators from a budget to a
set of targets, and `run_bootstrap` is a sequence of steps beside pulls that end in any
order, well or not.

**Publication** takes up where CasWriters ends. A digest is in `stored` when it has any blob
file and in `flat` when it has the one that links lead to; a pull makes both, an import
after a prune only the first, so that a link can dangle to a digest that is stored. Then
come the tag in two steps (`fs::write` truncates), the test of the plain link by `exists()` (which
follows it, so a dangling link does not count), then `remove_file` and `symlink` of each
link, then Register. `setting` is the `set_tag` that Register or an import is in; it goes on
in the daemon when the pull is killed. A name is a sequence of words, because the point is
that `<m>-<7b>` and `<m-7b>` are one path. `Portable` is what `validate_tag_segment` lets
through: the daemon validates, `modelctl pull` does not. A name with a slash (`Nested`) puts
its tag file a directory deeper, where the walk of `List` does not go, and can have no links. `disturbed` and `settled` are
history variables that say which pulls ran without another on the same paths.

**FormatDetection** is `detect_safe_format` on classes of first bytes: the low and high word
of the length field or magic, whether the ninth byte is a brace, whether later signatures
occur. **HeaderReader** is `parse_gguf_header` as a machine: a position in the file, the number
of pairs left and a stack of arrays that are open. One action per read or seek; the file's
answers (counts, types, lengths) are chosen when they are read. `MaxU64` and `MaxSeek` are
the widths of the declared sizes and of the file offset; `lost` counts what the loop over
an array leaves in the file, `sought` says that the last move was a seek, which may end
behind the file. `parse_safetensors_header` is one step up to its JSON.

**ModelResolution** is `resolve_model_with_format`, `resolve_hf_repo` and `select_file` as
steps from a request and a listing to a file or an error. File names are sequences of words
and delimiters, so that "strict", "delimited" and "contained" are what the code's string
searches compute.

Definitions whose name ends in `_Something` are deliberately broken forms of the
definition after them (a dropped check, a swapped order). No specification uses
them: each is there to show that a property notices that mistake.

## 3. Runs

| Run | Question | Result |
|---|---|---|
| `evict_prune` | Two Prune callers and a pin client, crashes included: safe pins hold, the budget is met, first written goes first; a call that overlaps no other frees no more than it must and reports freed bytes | holds |
| `evict_pinrace` | Is a pinned blob never evicted? | violated |
| `evict_safetensors` | Does Prune meet its budget on safetensors blobs? | violated |
| `writers_doublepull` | Two pulls that both finish: is every file whole? | violated |
| `store_all` | Everybody at once: torn files only in a race, pinned blobs are lost in one way only, every Prune is answered | holds |
| `varlink_serve` | Any stream of calls, cut into any chunks: implements `OrderedService`, no reply owed when idle, bounded buffer, refusals, every call answered | holds |
| `fd_copies` | A handoff beside an import and a pull with every failure: what is sent is whole, a tagged model is missed only because of a pull, tags resolve, blank tags have a writer, blobs stay available | holds |
| `lifecycle_run` | Two starts, two clients, one failure, signals, stops and restarts of the sockets at any time: watchdog, accepts around a stop, socket files, termination, backlogs | holds |
| `bootstrap_plans` | Every family on machines around every threshold: plans fit and grow, pulls are all joined and reported | holds |
| `format_headers` | Files with any first bytes and any nesting of declared counts, types and lengths: the parser passes what is declared or fails, stays inside the file, agrees with the detector | holds |
| `resolve_models` | Any spec, format, quantization and override against any listing: the right file or an error | holds |
| `publish_pulls` | Any three of two pulls, an import and a List, with kills, failing links and prunes, over a tag the daemon refuses and a name with a slash: what tag, links and List say of a model | holds |

### What the violations say

1. **A pin can come too late** (`evict_pinrace`). `prune` asks `is_pinned` once
   (eviction.rs 133) and unlinks two names afterwards. A Pin answered in between does
   not keep the blob, against `docs/VARLINK_SPEC.md` 50. `SafePinHolds` is what does
   hold: a pin made while no Prune is past its check.
2. **Safetensors blobs are not freed** (`evict_safetensors`). The flat name
   `sha256-<d>.safetensors` is neither scanned nor removed, so Prune removes one of two
   names, reports the bytes, and frees none.
3. **Two pulls of one digest may empty it** (`writers_doublepull`). When pull A has put
   the standard name back between B's `remove_file` and `hard_link`, B's fallback
   `fs::copy` opens the same inode as source and as destination with truncation.

More disagreements and surprises are visible in the models and have no run. Store and daemon:

* Prune does not evict in least-recently-used order, which `docs/VARLINK_SPEC.md` 60 promises
  (50 and 54 speak of LRU too, as does eviction.rs 1): it sorts by modification time, which
  nothing updates when a blob is opened, handed out or listed. A model in daily use that was
  downloaded first goes first. `OldestFirst` states the order that does hold.
* A pull can lose a safely pinned blob: its flat name is pruned between its rename and
  the pull's removal of the standard name. `PinLossNeedsPull` says that this is the only way.
* The drain does not wait for connections: only the accept loops and the watchdog task
  are awaited, so a reply that waits for its peer is dropped, where the comment in
  main.rs 86-88 says that SIGTERM "drains in-flight connections cleanly".
* When a socket-activated daemon stops on a signal of its own, the manager keeps the sockets
  but `RuntimeDirectory=` has removed their files: clients that connect by path find
  nothing until modeld.socket is restarted (`Reach`, "stale"). A stop or a restart of the
  service drops what waits in the backlogs (`PartOf=`); `QueuedIsTaken` excepts exactly this.
* Overlapping Prune calls each work on the total of their own scan: together they may
  remove more than needed, and both report the bytes of one file. The history variable
  `beside` restricts `NoOverEviction` and `ReclaimedIsFreed` to calls that overlap no other.
* `commit_artifact` discards the error of `fs::copy` (line 48): where hard links do not
  work, a failed copy leaves a partial standard name, which is the one that readers prefer.
  `HardLinks` is the constant that excludes it.
* The size cap of a connection is tested before the buffer is scanned for a NUL
  (server.rs 97, 114): a peer that pipelines is refused although complete calls are
  buffered, where the doc comment (60-61) says "without a NUL". `RefusalIsForOneCall`
  states what does hold, for peers that wait.
* The catalogue gives "Minimum VRAM budget in megabytes required for GPU primary"
  (families.rs 27) as the size of the primary, 5324 MB for qwen, while the planner admits it
  from 5.0 GiB = 5120 MB on; nothing plans with the catalogue.

Names:

* `modelctl pull` does not validate the tag it writes, the daemon does: after a pull
  with a tag such as `x:y`, every List is empty (`ListAllOrNothing`).
* A model pulled under a name with a slash (`a/b:x`, which the comment at stream.rs 103
  expects) has its tag in `tags/a/b/x`. `list_tags` passes over `b` as a directory, so List
  answers with all the others and without this one: the exception in `ListAllOrNothing`.
* Links lead to the flat file, which an import does not bring back: after a prune and an
  import a tag resolves and its links dangle, until a pull that is not skipped makes both.
* The dash link of `m:7b` is the plain link of `m-7b`; whoever comes last has it.
* Register truncates a tag that is already right (`RegisterRepeats`): a daemon that stops at
  that moment leaves the model without a tag. Register also sets the tag before it looks
  at the blob, so a SecurityRejection is answered for a model that stays tagged.
* An import makes no links, and a pull that is skipped repairs none. The links of a
  name:tag pulled in two formats are in two directories and both stay.

Formats and resolution:

* A numeric array whose elements are cut off by the end of the file is accepted when it
  comes last (gguf.rs 178): it is passed by a seek, which no read follows. The comment in
  gguf.rs 60-62 promises an error. `AcceptedInside` excepts exactly this. An empty array of an
  unknown element type is accepted too.
* A SafeTensors length whose low bytes look like a pickle's (0x80 and a protocol number) is
  refused as one.
* Inspect and Register label ONNX files, and files the detector refuses, as "gguf".
* A strict match of a less preferred quantization wins over a delimited match of a more
  preferred one; Q4_K matches a file of Q4_K_M; shards of GGUF are not refused, those of
  SafeTensors are; an alias asked for with `--quant` loses the alias' name and tag.

### Bounds and why they are enough

* Two digests and budgets 1 and 2 (`evict_prune`): one removal may or may not reach the
  budget, a victim and a bystander, a pinned blob first or last, equal ages (`MaxAge = 1`).
  `SYMMETRY MCSymmetry` permutes digests of equal size and callers; this run alone
  uses it, and it has safety properties only.
* Two pulls on one digest (`writers_doublepull`): the hazards in the code are races of
  two processes on one digest; writers on different digests share a tag only.
* In `store_all` one digest is enough: the actions of different digests touch disjoint
  entries of `link`, and the budget is below the blob's size, so it is always a candidate.
* `clock` grows once per written file, and each writer runs once, so it needs no bound of
  its own. Writers do not restart: a retry is another writer.
* `MaxMsg = 3`, `Chunk = 2`, `SendBound = 7` bytes (`varlink_serve`): a read may end
  before, at and after a NUL, hold two whole calls, and exceed the cap with and without
  one; `OutCap = 1` makes the second reply wait for the peer.
* Two digests of different size, one import, one pull, starts from three shapes of either
  digest and one handler that may serve any number of requests (`fd_copies`); no Prune, whose removals `MissNeedsPull` would have to
  except one by one. Two handlers share nothing but the files, which they only read.
* `Second = 1`, a timeout of 4, `Slack = 1`: period 1, lateness 1 and drain 2 use the
  timeout up exactly; `WatchdogSet = TRUE`, since `WatchdogFed` says nothing of a manager
  without a timeout. `DefaultPeriod`, ten seconds in the code, is 4 units, and is used by the
  daemons that have no manager. `MaxCalls = 2`: the signal can come
  before the last call of a read. Two starts let a process meet the files of an earlier one, and one
  fault suffices for each `?` and for a kill. Both clients are on one socket, so that a
  second one can be queued when the signal arrives.
* VRAM whose 85% lies at each threshold and one unit below, several planes, planes that do
  not count, replies without memory and hosts without MemAvailable (`bootstrap_plans`).
* `MaxStarted = 3` of two pulls, one import and one List (`publish_pulls`), over two
  digests and four targets: two names of which one is the other with a tag, one tag the
  daemon refuses, one name with a slash. A third pull on the same paths adds no kind of overlap. No definition
  tells pulls or digests apart, so `McSymmetry` is sound; `McView` drops what a process that
  has ended worked on, which no guard and no property reads again, and keeps of an ended
  List only whether its property holds. Both action properties
  speak of one step of a process that has not ended.
* `Lengths` up to 76 bytes (`format_headers`): two pairs and arrays three deep; counts whose
  payload ends inside the file, behind it, and beyond `MaxU64 = 255`, the scaled 64 bits.
  `MaxSkip = 2` stands for the caps of the loops. The theorems have none of these bounds.
* Listings of up to three of fourteen entries in every order (`resolve_models`): every rule
  of the selection compares at most two candidates with one quantization, the third entry
  lets neither be first.
* `CHECK_DEADLOCK FALSE` appears in the runs of the writers, the connection, the lifecycle,
  the bootstrap, names, headers and resolution, where every process may have ended.

### Fairness

`FairStoreSpec` assumes weak fairness of the steps of each Prune call and nothing else.
`handle_model1_call` contains no await: once a call has been received, its handler runs
to completion on a runtime thread unless the daemon is killed, and a kill ends the
call as well. Nothing is assumed of `modelctl` processes, of further calls, or of Pin
clients. The steps that a call may be stopped in by others, a `metadata` of a file that
has gone, have their own actions, which is what `PruneTerminates` is about.

`FairConnSpec`: the task of a connection is polled when it can move on, and a peer that stays
reads its replies in the end; it need not send anything.

`FairLifecycleSpec`: main, the accept loops and the polls of client tasks are run by the
runtime, time passes, and the manager does what its units say: after a failure it restarts
the sockets and then the service (`Restart=on-failure`, `PartOf=`), and it starts a service
for which connections wait (modeld.socket). An operator need not do anything, and peers need
not read, write or leave.

`FairBootstrapSpec`: the command's own steps. A pull need not end: its downloads have no
timeout. `EndsWithItsPulls` is therefore about the state where all of them have.

## 4. Proofs

All theorems hold for any sets of digests, writers, callers, tags, handlers and clients and
any sizes, under the named assumptions of the modules: `LayoutAssumption` (sizes are
positive, the names of inodes and digests do not collide, there are finitely many digests
and writers), `EvictionAssumption` (`handle_prune` rejects a budget of zero; finitely many
callers), `TagAssumption`, `WriterAssumption` (a writer imports or pulls, pulls commit to the
two flat paths), `ConnectionAssumption` (cap, chunk and socket buffer are positive),
`LifecycleAssumption` (below), `BootstrapAssumption` (reported memory is a natural number, a
reply lists finitely many planes), `PublicationAssumption` (names and tags are
sequences of words, no name holds a colon, since the parser of `name:tag` splits at the first
one; the daemon refuses names with a slash; no tag holds one, and no tag file lies where
another target needs a directory; pulls and importers are different processes),
`ReaderAssumption` (counts, lengths and caps are natural numbers) and `ResolutionAssumption`
(a listing is a sequence of entries, a quantization a non-empty sequence of words, no option a number). Finiteness is
what a sum needs to have a value; a disk and a reply are finite.

Four theorems have a hypothesis of their own: `GgufOnly`, that no digest starts under a
safetensors name. No action of Prune or of a Pin client makes one, and with one these
properties are false, which is what the run `evict_safetensors` shows.

| Theorem | Module | Says |
|---|---|---|
| `EvictionTypeCorrect` | EvictionProofs | type invariant of Prune, Pin, Unpin |
| `SafePinsHold` | EvictionProofs | `SafePinHolds` |
| `AuditInvariant`, `AuditTypeCorrect`, `NeverEvictsTooMuch` | EvictionProofs | `AuditInv`, `AuditTypeOK` and `NoOverEviction` for files under any names |
| `GgufInvariant`, `ClaimsAreFreed`, `PruneKeepsItsBudget`, `OldestGoFirst` | EvictionProofs | under `GgufOnly`: `GgufInv`, `ReclaimedIsFreed`, `PruneMeetsBudget`, `OldestFirst` |
| `WritingTypeCorrect` | ModelStoreProofs | type invariant of files, tags, writers |
| `OnlyRacesTear` | ModelStoreProofs | `TornNeedsRace` |
| `TagsAlwaysResolve` | ModelStoreProofs | `TagsResolve` while nothing is pruned |
| `BlobsStayAvailable` | ModelStoreProofs | `StaysAvailable` while nothing is pruned |
| `StoreTypeCorrect` | ModelStoreProofs | type invariant of the whole root |
| `StoreOnlyRacesTear` | ModelStoreProofs | `TornNeedsRace` with Prune removing files beside the writers |
| `OnlyPullsLosePins` | ModelStoreProofs | `PinLossNeedsPull` |
| `HandoffTypeCorrect`, `HandoffIsWhole` | ModelStoreProofs | types; `HandoffWhole`: a sent descriptor holds the blob it was asked for, unless writers raced on it |
| `BlankTagsExplained` | ModelStoreProofs | `BlankTagHasWriter`, with Prune and handlers beside the writers |
| `OnlyPullsMakeMisses` | ModelStoreProofs | `MissNeedsPull` while nothing is pruned |
| `ConnTypeCorrect`, `BufferStaysBounded`, `NoReplyOwedWhenIdle`, `PoliteRefusalIsForOneCall` | VarlinkConnectionProofs | the invariants of `varlink_serve` |
| `ConnectionServesInOrder` | VarlinkConnectionProofs | the connection implements `OrderedService` |
| `PeriodFitsTimeout` | DaemonLifecycleProofs | the ping period fits into every timeout of a second or more |
| `LifecycleTypeCorrect`, `WatchdogIsFed`, `AtMostOneLateAccept`, `LatecomersAreUnserved`, `ListenersAreReachable`, `NothingAcceptedAfterStopping` | DaemonLifecycleProofs | the safety properties of `lifecycle_run` |
| `PlansFitTheMachine`, `PlansGrowWithMemory` | ModelctlProofs | `Fits` and `Grows` for every amount of memory and every family |
| `BootstrapReportsAll` | ModelctlProofs | `ReportsAllPulls` |
| `BootstrapInvariant`, `BootstrapTypeCorrect`, `PlanAlwaysFits`, `PlanAlwaysGrows` | ModelctlProofs | `BootstrapInv`, `BootstrapTypeOK`, `PlanFits` and `PlanGrows` in every state, for topologies with any planes |
| `ResolutionInvariant`, `SelectionIsRight` | ModelctlProofs | `SelectionRight`: quantization honoured, no better file passed over, weights whole, for any listing |
| `PublicationTypeCorrect`, `PublicationInvariant` | PublicationProofs | types; `PublicationInv` |
| `SettledLinksFollowTag`, `RegisterWritesAgain`, `ListIsAllOrNothing` | PublicationProofs | `LinksFollowTag`, `RegisterRepeats`, `ListAllOrNothing` |
| `PullEndsLive`, `PlainLinkStays` | PublicationProofs | the action properties `EndsLive`, `PlainStays` |
| `HeaderTypeCorrect`, `ReaderStaysInStep`, `MetadataFromInside`, `DetectorAgreesWithParser` | HeaderReaderProofs | types; `InStep`, `AcceptedInside`, `DetectorAgrees` for files, counts and nestings of any size |

*Safe pins.* The property is about steps, so the type invariant suffices: a step makes
d evictable only by `PrunePick`, which looks at the pin; a step takes a name of d only
when d is the victim of a call past its check, which a safe pin excludes in the state
before.

*What Prune reports.* The properties compare sums over a changing set of files with
numbers a call keeps. `AuditInv` says of every call that what it noted of a candidate is
still true (`Faithful`: a file of the daemon's own history is never written again), that
the total of a scan is the sum over the digests it has seen, each once (`ScanTotal`), and
of a call that nobody disturbed that it has counted nothing that is not on disk
(`AloneCountsDisk`, up to `Unbooked`: bytes of the victim that are gone and not yet taken off).
So it removes only while the disk holds more than the budget. The other direction, that
a call has counted all there is, needs `GgufInv`: at each point of the two scans every file that is
still there has been seen, is listed, or was passed over as pinned (`NoneMissed`), and so
the total covers the disk (`TotalCovers`), whether or not others prune beside. The budget and the
age order follow from it, and `ClaimsBacked` gives the report.

*Sums.* `StoredBytes`, the claims and the VRAM of a topology are sums over finite sets, which the
community modules define by a recursive function on subsets. Instead of an induction,
FiniteSums takes a smallest subset for which a statement fails (the strict subset order of
a finite set is well-founded) and removes one element. It shows that the recursion has a
solution, that the value does not depend on the set it is embedded in, and how a sum changes
when an element is taken out, renamed or made zero.

*Torn files.* `TornNeedsRace` is not inductive. `IntegrityInv` adds who owns an inode
(`PublishedOwned`, `CopyOwned`: a published file, and the destination of a copy, was
created for its digest and is not staged any more, so nobody streams into it),
`StagedWhole` (what is renamed is complete) and `LonePullLinks` (a pull that is alone on
its digest finds the standard name free, so its `hard_link` works, or finds nothing to
copy). The last one is what makes `fs::copy` harmless without a race, and it is where
`HardLinks` is needed. Prune only removes entries, which preserves every conjunct; that
is `StoreOnlyRacesTear`.

*Tags.* `AvailabilityInv` adds that the flat file of a pull stays from its rename on
(`FlatPublished`) and that the blob can be found before its tag is written
(`TaggedResolvable`). `BlankTagHasWriter` is inductive by itself: only a writer truncates a
tag, and it is recorded as being there until it has written or ended.

*Misses.* A handler looks under three names, one after the other, while writers work.
`NamesStand` says that no pull of the digest has taken the standard name away yet; `ProbesFind`
that under it a digest that was tagged can be found, and that a handler that has found nothing
under the names it tried has a file under one of those it has left. The only step that ends
`NamesStand` is the one `MissNeedsPull` excepts.

*Handoff.* `HandoffInv` rests on `IntegrityInv`: a file found under a name of a digest was
created for it and is whole unless writers race; as long as they do not, no writer
changes the content of a published file, so what was read in two steps is of one piece and
has the size that was looked up before, even if the two lookups found different files.

*Connection.* `ConnInv` says that the calls drained from the buffer are those answered, the one in
progress excepted (`DrainedIsReplied`), that the task waits only when its buffer holds no
complete call, and that outside of the size test the buffer is within the cap. The
refinement maps the answered calls to `replied`; every other step stutters.

*Lifecycle.* `WatchdogInv` bounds the age of the last ping by what the watchdog task has
waited, and by the drain when it has left; adding these up needs
`LifecycleAssumption`: period + lateness + drain are within the timeout. With
`WatchdogSec=15` of modeld.service they are 5 and 2 seconds, so the runtime may be 8 late;
with a timeout below three seconds nothing is left. `LatecomerInv` counts the accepts of a
listener that had looked at the channel before the signal; `SocketInv` ties listeners to
socket files, and main to open sockets, over restarts; `DrainInv` says which tasks are done once main is past the drain.

*Bootstrap.* Each planner is reduced to the targets it may contain with the thresholds
that admit them; that they fit is then arithmetic, 85% of the VRAM against sizes. `PullInv` says
that there is a pull for exactly the planned targets and that what was joined has ended.
`BootstrapInv` ties the plan to the topology it was made from, whichever of the three sources that
came from, and makes the two facts about planners facts about every state.

*Names.* `PublicationInv` follows a pull from point to point. A pull that is not `disturbed` shares its
paths with nobody at work (`AloneOnPaths`), so the tag is what it wrote from the second step
of the tag on (`TagAhead`), the links are what it made from their `symlink` on (`LinksAhead`),
and nobody else's links lie on them; its flat file stays, so a plain link that it has kept or
made leads to a file. `SettledQuiet` says that nobody at work
is going to write the tag or the own links of a settled target. `ListAllOrNothing` needs only
that tags are never removed, that a name the daemon refuses stays, and that the walk reads
every file at the depth of a tag and none below.

*Resolution.* `Searches` lists what `select_file` tries, and the first search that has a
hit gives the file. `RankIsFirstHit` says that the reference order `Rank`, which knows nothing of
searches, is the number of the first search that hits a file; the searches before the
successful one hit nothing, so nothing ranks better. That the quantization is in the name, and
not as a part of BF16, is shown from each of the three string tests.

*Headers.* `HeaderInv` adds `FramesWithin` (no open array has taken more elements than its
loop admits, and each one that encloses another has one to go) and `InsideOrSought` (the
position is inside the file unless the last move was a seek). The first gives `InStep`: an
array is closed only when nothing of it is left. The second gives `AcceptedInside`: every
read that succeeds ends inside the file, and only a seek at the very end can escape the test.

Model-checked only. Every invariant and every action property of the passing runs is stated by a theorem,
and the refinement `ServesInOrder` is checked and proved. What is left is liveness under
fairness, which is out of TLAPS's reach: `PruneTerminates`, `CallsAnswered`, `StopTerminates`,
`QueuedIsTaken`, `EndsWithItsPulls`.

## 5. Not modelled

* What a digest is computed from: content is identified with its digest, and a staged file
  is hashed while it is written, so no writer stores content under another digest.
* Directory creation, permissions, `fsync`. The code never calls `fsync`, so after a power
  loss (not a kill) a renamed file may be empty; the model has kills only.
* Printing, HTTP details, JSON and what is taken out of it, the family catalogue.
* Peer authorization: one comparison with a group read at each request, without state; its
  outcome is the guard of `FdHandoff.Request`.
* Visual pulls are pulls; `visual_meta.rs` and `reflink.rs` have no caller, nor has `remove_tag`.
* `commit_tokenizer`, which writes one file per name whatever the tag.
* In `publish_pulls` all pulls are of one format, so of one directory of links.
* Tags with a slash, and a tag file where another name needs a directory
  (`PublicationAssumption`); the sizes that List adds to its entries.
* An empty quantization: the search loop of select.rs 115-133 can step past the end of a
  file name and panic (`ResolutionAssumption` excludes it). The case in which
  `model.safetensors` is compared: paths are upper-cased words.
* The depth of the native stack: an array of arrays is parsed recursively without a limit
  (gguf.rs 162); the stack of HeaderReader is unbounded.
* The systemd notify protocol beyond which message is sent when, and the units beyond what
  becomes of the sockets and of the process.
* Components marked `not_modelled` in PROJECT.json, with their reasons.

Five hazards have no property. Staged files that a killed writer leaves in `cas/incoming`
are never removed, so the only true statement is that they pile up. A SIGTERM
between READY=1 and the installation of the signal handlers is a kill, which
DaemonLifecycle has as an action and nothing in the code promises anything about. Two Prune
calls that overlap count the bytes of one file twice, and `ReclaimedIsFreed` leaves such calls
out. A standalone start fails on the socket files of an earlier process until somebody
removes them, and `ListenersReachable` speaks of the starts that succeed. That the topology
comes from the right source could only be a copy of the guards that choose it.

## 6. Plan

The order was: files, eviction and writers first, since they hold what the program is for;
their composition; then the readers, the connection, the process, the planner; then names,
headers and resolution. All modules of section 2 are there. Left, in this order:

1. `PruneMeetsBudget` and `OldestFirst` in ModelStore, where writers add files beside a Prune: what
   survives of them when a scan may miss a file that is renamed into place behind it.
2. The safety part of the liveness properties: that a process which has not ended has a step
   to take, action by action.
3. `commit_tokenizer` and pulls of several formats in Publication.
