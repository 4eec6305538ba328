# A TLA+ model of monotone

monotone is a distributed version control system in C++. Every database holds
files, manifests, revisions and certs, all named by the SHA-1 of their content;
databases are brought together by *netsync*, a protocol that finds what differs
by comparing merkle trees. These modules model the parts of monotone where the
order of things decides whether the result is right: netsync with its sessions,
its event loop and the writer that puts what arrives into the database in the
order of its dependencies; the version store with its deltas and transactions;
the searches over the graph of revisions; and change sets, with the working copy
that they are made of and applied to.

Contents: [inventory](#1-inventory), [modules](#2-modules-and-code),
[runs](#3-runs), [findings](#4-findings), [proofs](#5-proofs),
[what is not modelled](#6-what-is-not-modelled), [plan](#7-plan),
[running the checks](#8-running-the-checks).

## 1. Inventory

### 1.1 How the parts work together

    client process                                     server process
    --------------                                     --------------
    call_server: one session                serve_connections: many sessions
         |                                          | (select; one step at a time)
      session  <===== netcmds over TCP =====>    session, session, ...
       |  |  \                                       each with its own
       |  |   merkle trees (cert, key, epoch)        trees, writer and valve
       |  packet_db_valve -> packet_db_writer
       |                       |
       +------- reads ------ database (SQLite): version store, certs, keys, epochs
                                      |
    command process                   |
    ---------------                   |
    add, drop, rename, commit, update, merge, checkout
       |            |                 |
    MT/work,     change sets    revision graph (ancestor of a merge, paths,
    MT/revision, (analyze,       update targets, heads)
    the files    concatenate, invert, merge)

Everything is single-threaded. Concurrency is that of the two processes, of the
messages between them, of the sessions of one server over one database, and of
the callbacks that a write sets off (`satisfy`).

### 1.2 Components

| Component | State | Operations | What makes it correct |
|---|---|---|---|
| netsync session (`netsync.cc`) | role, authentication, `requested_items`, `received_items`, `received_certs`, `ancestry`, done markers, goodbyes, error mode, buffers | one handler per command: hello, anonymous, auth, confirm, refine, done, send_data, send_delta, data, delta, nonexistant, error, bye | roles are opposed, epochs agree before anything is written, no legal command is refused, a goodbye means that all is written, the sink ends with a superset of its source, every exchange ends |
| netsync refinement (`netsync.cc`) | a merkle tree per item type and a done marker for each | `process_refine_cmd`, `process_done_cmd`, `queue_*` | both sides learn of every difference; the end, which is inferred, is inferred at the right moment |
| ancestry fetcher (`netsync.cc`) | heads, child counts, maps of forward and reverse deltas | `get_heads_and_consume_certs`, `traverse_*`, `request_*` | exactly the missing versions are asked for, and can be put together |
| server loop (`netsync.cc`) | the map of sessions, the listening socket, the armed set | accept, read, write, process, reap | no session disturbs another; listening resumes; nobody waits for ever |
| merkle tree (`merkle_tree.cc`) | table from prefixes to nodes | `insert_into_merkle_tree`, `recalculate_merkle_codes` | equal sets give equal trees; no hash is out of date |
| packet writer and valve (`packet.cc`) | delayed packets, prerequisites, the valve's queue | `consume_*`, `satisfy`, `open_valve` | written in the order of the dependencies, whatever the order of arrival; nothing is forgotten |
| packet text format (`packet.cc`) | none | `extract_packets`, `packet_writer` | reading gives back what was written |
| netcmd framing (`netcmd.cc`, `hmac.cc`) | chained HMACs, buffers | `read`, `write` | a command is taken whole; both chains stay in step |
| database: version store (`database.cc`) | tables of full versions and of deltas, version cache | `put*`, `get_version`, `deltify_revision` | every version that was stored can be read |
| database: transactions (`database.cc`) | `transaction_level` | `begin_transaction`, `commit_transaction`, `rollback_transaction`, `transaction_guard` | what is not committed is gone, all of it |
| database: certs, keys, branches, migration | tables | queries, SQL upgrade scripts | |
| revision graph (`revision.cc`, `update.cc`) | none that lasts; worklists and bitmaps of a search | `toposort`, `erase_ancestors`, `ancestry_difference`, `find_common_ancestor_for_merge`, `find_least_common_ancestor`, `calculate_composite_change_set`, `pick_update_candidates` | agreement with the definitions on graphs, whatever the order of hashes; every search ends |
| change sets (`change_set.cc`) | none (pure) | analyze, compose, concatenate, merge, invert, apply, complete | different ways between two revisions say the same; what they say can be applied; no side's work is lost |
| working copy (`work.cc`, `commands.cc`) | `MT/revision`, `MT/work`, the files | add, drop, rename, checkout, commit, update | what `MT` says of the base is what is on disk; whatever the user has done can be committed |
| text merge, diff, xdelta | none (pure) | | |
| commands, automate, Lua hooks, RCS/CVS import, platform code, vendored libraries | | | |

`PROJECT.json` lists the same components with their status.

### 1.3 What is hard in this code

* **Ordering.** Items arrive in any order; a write wakes delayed packets, whose
  writes wake others, recursively, over sets that change meanwhile
  (`packet.cc:150`). Both refinements of a tree cross each other
  (`netsync.cc:1451`), and three trees are refined at once.
* **Inferred ends.** No command says "that was all". The end of a refinement,
  the moment for the analysis and the moment to say goodbye are each inferred
  from counters and sets on one side (`netsync.cc:1068`, `2999`).
* **Several writers, one database.** Sessions of a server look things up,
  remember the answer, and meet a database that another session has changed
  (`packet.cc:652`, `netsync.cc:2596`).
* **Failure in the middle.** Lost connections, crashes between the server's
  commits, a client that commits once; error mode, in which handlers go on
  (`netsync.cc:900`); guards inside of guards (`database.cc:700`).
* **Limits.** The server listens only below a number of sessions, reads only
  while `inbuf` has room and processes only while `outbuf` is not too long
  (`netsync.cc:3011`, `3377`); and it is one thread for all sessions.
* **Shape of history.** Merges, several roots, versions that come back
  (`netsync.cc:3747`, `3881`); the same for chains of deltas in the database
  (`database.cc:1107`, `1374`); sets that grow in place while they are read, in
  an order that hashes decide (`revision.cc:405`, `537`, `945`).
* **Stale paths.** A change set knows a file by its path; the rename of any
  directory above it changes the path, in this change set, in the one before and
  in the one on the other side of a merge (`change_set.cc:1570`, `2076`, `2391`).

The "hazards" of `PROJECT.json` have each of them at its line, with the
properties that would notice.

## 2. Modules and code

| Module | Models | Checked by | Proved in |
|---|---|---|---|
| `ItemStore` | abstract: a set of items that grows by items whose needs are met | (property `StoreSpec`) | `PacketWriterProofs` |
| `PacketWriter` | `packet_db_writer`, `packet_db_valve` | `MCPacketWriter` | `PacketWriterProofs` |
| `MerkleTree` | `merkle_tree.cc` | `MCMerkleTree` | |
| `Refinement` | the refinement of one tree between two peers, and the transfer it leads to | `MCRefinement` | `RefinementProofs` |
| `NetsyncSession` | both ends of a whole session | `MCNetsyncSession` | `NetsyncSessionProofs` |
| `NetsyncInvariants` | no code: the invariants of `NetsyncSession` that its proofs rest on, and what its kinds of steps do | | `NetsyncSessionProofs` |
| `AncestryFetcher` | `get_heads_and_consume_certs`, `ancestry_fetcher` | `MCAncestryFetcher` | `AncestryFetcherProofs` |
| `VersionStore` | versions and deltas in the database; transaction guards | `MCVersionStore` | `VersionStoreProofs` |
| `ServerLoop` | `serve_connections`, `call_server`, buffers and sockets | `MCServerLoop` | `ServerLoopProofs` |
| `Ancestry` | the table of parents; reference definitions on graphs | (with the next three) | `RevisionGraphProofs` |
| `MergeBase` | the search for the ancestor of a merge, the composition of change sets along the graph | (with `RevisionGraph`) | `RevisionGraphProofs` |
| `RevisionWalks` | update targets, `erase_ancestors`, `ancestry_difference`, `toposort` | (with `RevisionGraph`) | `RevisionGraphProofs` |
| `RevisionGraph` | composes the two: the commands that walk the graph and ask for an ancestor with what they found | `MCRevisionGraph` | `RevisionGraphProofs` |
| `ChangeSet` | `change_set.cc`: analysis, concatenation, application, completion, inversion | (with `WorkingCopy`) | |
| `ChangeSetMerge` | `change_set.cc`: the merge of two change sets | (with `WorkingCopy`) | |
| `WorkingCopy` | composes the two with a history and a working copy: add, drop, rename, edit, checkout, commit, update, merge | `MCWorkingCopy` | |
| `DataLemmas` | no code: facts about numbers, sequences and finite sets that the proofs share | | itself |

The modules cut the system at its interfaces, and what one establishes is what
the next assumes:

* `MerkleTree` shows that the tree is a function of the set of its leaves
  (`Canonical`); so `Refinement` has the set of items for the tree, and a node
  is what is below its prefix.
* `Refinement` shows that the two refinements of a tree find all that differs
  before the trees are marked done (`DoneMeansComplete`, `PostState`); so
  `NetsyncSession`, which refines three trees, has one `refine` command per tree
  that carries the tree.
* `PacketWriter` shows that the writer's database depends on what has arrived
  and not on the order (`OrderIndependent`); so `NetsyncSession` has a set
  `held` of items that wait, and writes what has its needs met (`Written`).
* `AncestryFetcher` shows that the requests that follow from an ancestry are
  exactly the missing versions (`EveryVersionAsked`, `Constructible`); so
  `AnalyzeRequests` of `NetsyncSession` asks for those.
* `NetsyncSession` and `Refinement` show which commands a session says, with
  buffers that have no limit; so in `ServerLoop` a session says a number of
  requests, answers and a goodbye, and has the limits.
* `MergeBase` shows that the ancestor is one, and that a path is found to either
  side (`AnswerSound`, `PathsWhole`); so `WorkingCopy` has the common ancestor by
  its definition, which is unique in histories as short as those of the run, and
  the composition along any path to it.

Where the premise of such a cut fails - another session writes to the same
database - `NetsyncSession` and `PacketWriter` model that, and it is where two
of the findings come from.

### PacketWriter

State: `db` (what exists), the delayed packets by address (`pkt`, `unsat`), the
maps of prerequisites (`prereqs`), and the recursion of `satisfy` made explicit:
`stack` has the calls in progress and `left` the dependents each has yet to
visit. So every interleaving of nested cascades that the iteration order of a
`std::set` of pointers can lead to is a behaviour. The valve is `valve_is_open`
and `packets`; opening it replays the queue from its end, as the code does
(`ReplayLast`).

Actions: `ReceiveOpen`, `ReceiveClosed` (a packet reaches the valve), `OpenValve`,
`ReplayLast`, `SatisfyOne` (an iteration of the loop in
`prerequisite::satisfy`), `SatisfyReturn`, `OtherSessionWrites`. The handlers
`Consume*` are shared by the actions that may call them; their parameters are
the delayed packets and the stack as the caller leaves them. A delta is `good`
or not: a file delta that does not give the ident it claims is refused
(`ConsumeDelta`).

A public key and a key pair of one name would be two members of `Keys`.

### MerkleTree

`tab` maps prefixes to nodes; `Inserted` is `insert_into_merkle_tree` as it
descends, pushes a leaf down when two share a slot, and leaves empty hashes above;
`Recalculated` is `recalculate_merkle_codes`, which trusts hashes that are not
empty. A hash is what it determines: `HashOf` is the content of the node, so two
hashes are equal exactly if the nodes are. Leaves may be live or dead, though
netsync inserts only live ones.

### Refinement

For one tree: `tree` (items, as paths of slots), `have` (the database), `chan`
(commands on their way to each peer: TCP gives one FIFO each way),
`had_refinements` and `tree_is_done` of the done marker, `requested`, `received`,
goodbyes. One action per handler, each the whole of `dispatch_payload` for its
command, with `maybe_say_goodbye` at its end. `SlotReply` is the case table of
`process_refine_cmd`: for each slot, what both sides have in it, and what is
asked for, sent, or refined further.

### NetsyncSession

`conf` is the situation (roles asked for, what each side holds, epochs,
permissions, what other sessions may write), chosen in `Init` from `Configs` and
constant. `db` is what a peer's process sees and `disk` what of it is
committed: the server commits after each command (`process`), the client once,
at the end (`run_netsync_protocol`). `sess` is the session object, `net` and
`inbuf` the commands written and read: `Read` takes several commands at once, so
that an error among them finds the later ones in `inbuf`.

Actions: one per command (`ProcessHello`, `ProcessAuth`, `ProcessConfirm`,
`ProcessRefine`, `ProcessDone`, `ProcessSendData`, `ProcessEpoch`,
`ProcessKeyOrContent`, `ProcessCert`, `ProcessRevision`, `ProcessBye`,
`ProcessError`), `Read`, `Hangup`, `EndOfFile`, `ConnectionLost`, `Crash`,
`OtherSessionWrites`. Every handler is followed by what the code calls after it:
the epoch check that opens the valve, the analysis, the goodbye (`Reply`).
`error()` does not throw in this code; it sets a flag and queues an error
command, and the model has the flag with just the effects that the code gives it.

### AncestryFetcher

The steps of the loops one by one, each choosing any member where the code takes
the next one in the order of hashes: `DropHead`, `FollowEdge` (one turn of the loop
over the edges of the revision at the front; `passed` has the parents gone through),
`PassRevision`, `RequestForward`, `RequestReverse`. `conf` has the history, the version
(of one file or of the manifest) of each revision, the revisions that are known, the
versions that are stored, and the revisions with a wanted branch cert. What a
history may be is said by three assumptions: every revision has an edge, and the
database has with a revision what it descends from and what it names
(`ConfigsTyped`, which is what `PacketWriter` establishes); no revision is its own
ancestor (`ConfigsAcyclic`); there are finitely many (`RevsFinite`).

### VersionStore

`full` and `delta` are the tables for either files or manifests (they are
separate and treated alike); `guards` has a snapshot of the tables for each
guard alive, of which only the outermost is ever used to roll back, as SQLite
has one transaction. The version cache is not state: what is in it is right, being
named by its hash, and `Readable` quantifies over all it may contain.
`DeltifiedEdge` is the body of the loops of `deltify_revision`, with the drops
and the `put_version`; `Search` is the breadth-first search of `get_version`,
with `Extended` for `extend_path_if_not_cycle`. `Begin`, `Commit`, `Rollback` and
`Unwind` are the guards, which nest: an inner one that is not committed only
lowers the level. The loops are `InTurn`, a fold as a function of the number of
turns, so that they can be reasoned about.

### ServerLoop

Each connection has two ends, and each end the buffers of a `session`: `inbuf` in
units (the largest command has `MaxCmd` of them), `outbuf` in commands with what
is `written` of the first, `cmd` that it is armed with. `wire` is what the sockets
hold. `sessions`, `listening`, `armed` and `loop` are the server's: one turn of
`serve_connections` is `ServerArm` (which throws out sessions whose input cannot
be decoded), `Accept`, `ServerIo` or `ServerInstant` (what the probe returned),
`ServerProcess` and `ServerReap`. A client goes through `call_server`
(`ClientIo`, `ClientInstant`, `ClientTimeout`, `ClientProcess`). What is said is
reduced to requests ("ask"), answers ("data") and goodbyes: each end asks a number
of times, and says goodbye by the rule of `maybe_say_goodbye`. A client is honest,
silent (connects and says nothing), garbled (sends what cannot be decoded) or dying
(goes at any moment). Time passes (`Tick`) in periods of the timeout, and only where
nothing else can happen: the timeout is six hours (`netsync_timeout_seconds`).

### Ancestry, MergeBase, RevisionWalks and RevisionGraph

`Ancestry` has the graph, chosen once from `Ancestries`, and what ancestors,
dominators and heads *are*: least closures, defined without an order of
traversal. `MergeBase` has the search of `find_common_ancestor_for_merge` and
`find_least_common_ancestor` visit by visit: `anc` and `dom` are the maps of
bitmaps, `ctx` the interner that gives numbers in the order in which revisions are
met, a round is one or two passes (`VisitAncestors`, `VisitDominators` take the
highest number first, as the loops do; sets are changed in place, so that later
visits of one round see them), in either order, as the operands of `|` may be
evaluated in either. `Found`, `NextRound` and `NotFound` are what follows a
round; `RightSet` is the set of the right side that the search looks at after it, which
is not the one in the map when both sides are one revision (section 4). Then the change sets to both sides are composed: `ExpandFrontier` is
`find_subgraph_for_composite_search`, and `RelevantParent`, `SkipParent`,
`ExploreParent` and `Exhausted` the steps of the recursion of
`calculate_change_sets_recursive`, with `visited` and `partial` for its memory; a
composed change set is represented by the path that it follows.

`RevisionWalks` has one walk at a time: `Target`, `SkipTraversed`, `Traverse` for
`calculate_update_set`; `StartErase`, `StartNode`, `PushParent`, `PopNode` for
`erase_ancestors`; `StartBase` and `TakeDifference` for `ancestry_difference`,
which shares the map of ancestors among its calls; `SortRoot` and `SortDone` for
`toposort`. `RevisionGraph` lets the commands take a walk and then ask for an
ancestor of what it returned.

### ChangeSet, ChangeSetMerge and WorkingCopy

`ChangeSet` keeps the code's view: a rearrangement is *analyzed* into two states of
a tree whose entries have transient ids (`tid`), and all operations are on such
pairs. `Analyze` mentions what is named, gives what is renamed one id, makes each
state name what the other does (`Ensured`), and identifies what has not moved
(`Matched`). `Compose` is the way back. `ConcatenatedAnalyses` identifies the state
after the first with the one before the second; `ConcatenatedSets` carries the
deltas along (`CarriedDeltas`, `FusedDeltas`), `Inverted` turns them round,
`Completed` makes them from two manifests, `AppliedInPlace` has the fast path for
deletions. A failing `I()` or `N()` is an empty set of results. In `ChangeSetMerge`,
`MergedAnalyses` is `merge_disjoint_analyses` with its renumbering, its conflicts
and the check that both ways give one rearrangement, and `MergedSets` is
`merge_change_sets`.

`WorkingCopy` has `revs` (the revisions: edges with change sets, and a manifest),
`base` (`MT/revision`), `work` (`MT/work`) and `files`. `Add`, `Drop`, `Rename` are
the commands of `work.cc`, each ending with a concatenation to `MT/work`; `Edit`
is the user. `Commit` completes the change set and puts a revision if
`check_sane_history` accepts it (`SaneHistory`, to the depth
`constants::verify_depth`); `Update` is the merge of the way to the target with the
uncommitted change set, of which one half goes to the disk and the other to
`MT/work`; `Merge` is `try_one_merge`. A content is a set of marks, one for each
writing, so that what has become of each edit can be told in the result of a merge.

## 3. Runs

| Run | Configuration | Distinct states | Shows |
|---|---|---|---|
| `writer` | `MCPacketWriter.cfg` | 400 000 | five properties of the writer in every order of arrival, and that it implements `ItemStore` |
| `merkle` | `MCMerkleTree.cfg` | 2 800 | one tree for one set; hashes never out of date |
| `refinement` | `MCRefinement.cfg` | 71 000 | refinement is complete, never refused, and ends |
| `session` | `MCNetsyncSession.cfg` | 203 000 | six properties of whole sessions, with a crash or a lost connection anywhere |
| `fetcher` | `MCAncestryFetcher.cfg` | 145 000 | the right heads and requests for every history |
| `store` | `MCVersionStore.cfg` | 35 500 | every stored version can be read; nothing is forgotten under nested guards |
| `revision_graph` | `MCRevisionGraph.cfg` | 1 215 000 | the searches of `revision.cc` and `update.cc` agree with their definitions, and end |
| `server_loop` | `MCServerLoop.cfg` | 254 000 | the limit on sessions, back-pressure, timeouts; honest clients are not cut short; every session ends |
| `working_copy` | `MCWorkingCopy.cfg` | 10 000 | working copies stay usable, change sets lead back, merges and updates lose nothing |
| `shared_sink`, `wanted_certs`, `update_back` | | | the [findings](#4-findings) |

Every property of a passing run has a mutant in `PROJECT.json`: a variant of an
operator, defined next to it, with which the property fails. The variants are
the comments' "Variant" operators and nothing uses them otherwise.

### Properties

| Property | States | About |
|---|---|---|
| `PacketWriter!DependenciesClosed` | nothing is in the database without what it names | any order, any nesting of cascades, other sessions |
| `PacketWriter!Bookkeeping` | delayed packets and prerequisites agree | the `I()` in `prerequisite_satisfied` |
| `PacketWriter!NoLostWakeup` | between calls nothing waits for what its own writer wrote | |
| `PacketWriter!OrderIndependent` | the database is the least fixpoint of the packets received | no order, duplicate or corrupt delta matters |
| `PacketWriter!ValveHolds` | nothing is written before the valve opens | |
| `PacketWriter!StoreSpec` | refinement of `ItemStore` | |
| `MerkleTree!Canonical`, `NoStaleHash` | see 2 | compared with a reference tree, defined from the set |
| `Refinement!DoneMeansComplete` | when a tree is marked done no refinement is on its way to that side, and a sink has the items of its source | `netsync.cc:1451-1475` |
| `Refinement!NothingCutOff`, `NetsyncSession!GoodbyeMeansDone` | hanging up loses nothing; a goodbye means that all is written | `netsync.cc:2999` |
| `Refinement!PostState`, `NetsyncSession!PostState` | the promise of `netsync.cc:92-95` | |
| `NetsyncSession!DatabaseClosed` | what is committed has no dangling references | crashes, lost connections |
| `NetsyncSession!NoProtocolError` | no command is refused after authentication | |
| `NetsyncSession!EpochsFirst` | nothing is written before the epochs agree | the valve |
| `AncestryFetcher!HeadsRight` | wanted revisions without children are heads, nothing that they descend from is one or loses its certs, no unwanted revision is a head, and unwanted ones that nothing wanted descends from lose their certs | the counting down in `netsync.cc:1026`, in any order |
| `AncestryFetcher!EveryVersionAsked`, `Constructible` | exactly the missing versions are asked for, each once; what is asked for can be put together | compared with definitions on the graph |
| `VersionStore!Readable` | the search of `get_version` finds every stored version, whatever is cached | forks and joins of deltas |
| `VersionStore!NothingForgotten` | only a rollback takes versions away, and it gives back what the outermost guard found | |
| `MergeBase!AnswerSound`, `AnswerComplete` | the ancestor is a common one and, for a merge, dominates one side; none is returned only where there is none, or for the merge of a revision with itself | any order of hashes and passes |
| `MergeBase!PathsWhole` | both change sets are composed of the edges of one path from the ancestor | the memory of the recursion |
| `RevisionWalks!TargetsRight`, `DifferenceRight`, `SortedRight` | update targets are the heads of what is acceptable and descends from the base; the difference and the order are right | compared with definitions on the graph |
| `ServerLoop!SessionsBounded` | never more sessions than the limit | the decision to listen is made before the probe |
| `ServerLoop!NoStandstill` | a session stands still only if both ends have a full `inbuf` and too long an `outbuf` | `arm`, `which_events` |
| `ServerLoop!NotCutShort` | an honest client is not dropped, nor sees its connection fail, before its exchange is finished, unless a timeout has passed | each end closes when it is finished itself |
| `WorkingCopy!WorkApplies` | after any commands and updates `MT/work` can be applied to the base and gives the paths on disk | |
| `WorkingCopy!CommitGoesThrough` | what the user has done can be made a change set, and `check_sane_history` accepts the revision | deltas carried across renames |
| `WorkingCopy!WayBack` | the change set from a new revision to any other gives that one's manifest | inversion |
| `WorkingCopy!MergeKeeps` | after a merge or an update every file that both sides kept is there once, with the edits of both; what one has dropped is gone, what one has added is there | renames of files and directories on both sides |
| `Ends` of five modules | every exchange, every walk comes to an end | under the fairness below |

### Bounds, and why they are enough

* `writer`: two revisions in line, with a file and a manifest that change, give
  every kind of packet a prerequisite of every kind; nine packets include two
  deltas between the same versions in opposite directions (each waits for the
  other's target), a corrupt one and a cert. Three slots: the most packets
  delayed at once are of interest from two on (a cascade inside of a cascade
  needs a packet with two prerequisites). `MaxQueue` bounds the valve's queue,
  which is replayed packet by packet; `MaxForeign` the writes of others.
* `merkle`: two slots per node instead of 16, four levels instead of 40; the
  leaves part at every level and two only at the last, so that a push down goes
  through every level. The code's cases are about one slot of one node.
* `refinement`: all pairs of sets of five items of which pairs part at the
  first, the second and the last level; so subtree against leaf, leaf against
  another leaf, subtree against subtree and each against nothing all occur,
  next to each other. Two peers, as in the code.
* `session`: each side has none, the first or both of two revisions, with
  contents, certs and keys; two epochs. `MaxRead` = 2: reading two commands at
  once is what lets one be processed after the error of the one before.
  `MaxFaults` = 1: nothing continues after a crash or a loss but the other side
  noticing it. `MaxForeign` = 2.
* `fetcher`: four revisions (chain, diamond, fork, two roots), with up to three
  versions in every assignment, so that versions come back on one line, and
  appear on both sides of a merge; any of the new revisions wanted, so that step 3 of
  `get_heads_and_consume_certs` exposes wanted revisions too.
* `store`: four versions: the shortest chain with a fork and a join has four.
  Revisions of one or two deltas, in every combination that shares a version. Two
  guards, one inside of the other: a third would behave as the second. One write
  for each level: guards restore what they find.
* `revision_graph`: five revisions of which each has at most two parents, neither
  descending from the other, as a merge leaves them: a criss-cross merge needs
  five with its root, and a node that is met first from one side and later from the
  other needs four. All walks over all subsets that a command can start with.
* `server_loop`: a limit of two sessions and three clients: one has to wait.
  `MaxCmd` = `OutLimit` = `Chunk` = `WireSize` = 2: a command may be read and written
  in two parts, and each buffer may be full, half full or empty. One client with up
  to eight requests from each side fills every buffer; companies of three have
  one request each.
* `working_copy`: a file in a directory, places beside it and outside, a name for the
  directory; four commands, two commits and one merge. A checkout or an update is one
  of the four. Two commits on one line need none, and may have two changes each; two
  commits that part from one base need one in between, which leaves three changes, two
  on one side and one on the other. So each pair of a rename of the directory, a
  rename, an edit, an addition and a deletion occurs in one commit, in two after each
  other, and on the two sides of a merge. Histories have up to four revisions, within
  `constants::verify_depth` = 4; so the additional comparison that
  `check_sane_history` makes for merges of long divergence (`revision.cc:230`) is not
  needed and not modelled. `PlainWay` leaves out of `WayBack` and of the updates
  of this run the case of the finding `update_back`.

### Fairness

* `PacketWriter`: `WF(Internal)`. The steps of a cascade and of the replay are
  steps of one call on one thread; they go on until it returns. The invariants and the refinement do not depend on it.
* `Refinement`: `WF(Process(p))` for each peer: a process whose peer has sent
  something processes it, as its loop probes the socket and comes back to the
  session (`call_server`, `serve_connections`).
* `NetsyncSession`: weak fairness for the steps of each peer (read, process, hang
  up, notice the end of the connection). Nothing is assumed of crashes, of lost
  connections, or of other sessions: they may happen or not.
* `AncestryFetcher`: `WF(Step)`: loops of one function.
* `RevisionGraph`: `WF(Next)`: the same.
* `ServerLoop`: weak fairness of the server's steps, of each client's, of connecting,
  and of time. The server takes one session after the other in each turn of its
  loop, so that fairness of its steps taken together is enough.

`MerkleTree`, `VersionStore` and `WorkingCopy` have no liveness property and no
fairness. `Ends` excludes nothing by assumption about the peer: errors, refusals,
losses and silence all end both sides.

Deadlock is checked in the runs of netsync, the writer, the tree and the store;
where such a system has ended, it stutters (`Terminated`, `Finish` and the like), so
that a wait of both sides for each other would be reported. `revision_graph`,
`server_loop` and `working_copy` say `CHECK_DEADLOCK FALSE`: a command ends, a
server without clients may wait for ever, and the user may stop at a bound. What
deadlock would be there is said by `Ends` and `NoStandstill`.

## 4. Findings

Each is a run that violates one property, which states what a comment or a
document says.

1. **A packet skipped as existing wakes nobody** (`shared_sink`,
   `packet.cc:652`). A writer wakes the packets it delayed only when it writes
   what they wait for itself. If another session of the server wrote it, the
   packets that wait are never written; the sink is no superset of its source
   (`netsync.cc:92`).
2. **Certs of wanted revisions are dropped** (`wanted_certs`,
   `netsync.cc:1043`). When the last child of a revision is dropped, and is unwanted
   itself, the revision is put on `tmp` without a look at whether it has a wanted
   cert (`netsync.cc:1036`). When its own turn comes its certs are erased in any case;
   it becomes a head only if it is in turn the last child of one of its parents to be
   dropped. So every newest wanted revision that has children loses its certs
   (`ExposedLoseCerts`, proved for every history); whether it is a head depends on the
   shape of the history and, behind a fork, on the order of hashes. `HeadsRight` says
   what holds nevertheless, in every history.
3. **An update back leaves a file under two names** (`update_back`,
   `change_set.cc:2391`). The inverse of a change set takes a delta to the old path
   of its file if the file itself is an entry of the analysis; a file that moves with
   its directory is none, and its delta keeps the new path. Edit `d/a`, rename `d`
   to `e`, commit, and `update --revision` to the parent: `d/a` has the new content
   and `e/a` the old. `monotone.texi:3756` promises the chosen revision.

Seen on the way, without a run:

* The analysis is never started (`netsync.cc:2596`): a revision that was asked for
  and is there when it arrives, since another session wrote it, takes the branch
  "already exists", which does not look whether it was the last one awaited. The
  certs received so far are thrown away behind two goodbyes. In the run `session`
  others write no revision that the session has asked for.
* In error mode things are written (`netsync.cc:900`): commands read together with
  the offending one are processed, although "all received data is ignored"
  (`netsync.cc:886`).
* A guard that is not committed does not abort (`database.cc:700`) if it is inside of
  another that is: the client's processing guard is inside of the one around the
  exchange, which commits although a `bad_decode` was caught between the two
  (`netsync.cc:3041`, `3647`).
* A node's total counts the slots of the node in use, not the elements below it
  (`merkle_tree.cc:468`, `netsync.cc:123`). It is used for statistics only.
* The ancestor of a merge is not the least: the search returns the lowest number
  in the first intersection (`revision.cc:543`). With 2 and 3 children of 1, a line
  2-4-5 and a merge 6 of 2 and 3, the heads 5 and 6 get 1, although 2 is an
  ancestor of both and dominates 5. The merge is right, with more to merge.
* `lcad` finds nothing for a revision and itself (`commands.cc:2835`), and says "no common
  ancestor/dominator found". `find_common_ancestor_for_merge` does not look whether its
  arguments are equal, as `find_least_common_ancestor` does (`revision.cc:575`). The
  second insertions under the same number (`revision.cc:531`, `533`) do nothing, so that
  `ranc` and `rdom` are in no map and stay empty, and nothing meets, although
  the revision is an ancestor of both sides and dominates both. `AnswerComplete` makes the
  exception, and `NothingForItself` proves that it is no matter of the ancestry.
  `merge`, `propagate` and `explicit_merge` never ask for it.
* A commit may be refused when a directory takes a name that an ancestor's directory
  has given up; the repository has a test that is expected to fail
  (`tests/t_rename_dir_add_dir_with_old_name.at`), and `CommitGoesThrough` makes the
  exception.
* Each of `update` and `commit` writes `MT/revision` and `MT/work` one after the other
  ("small race condition here...", `commands.cc:2495`, `3031`): after a crash in
  between, the rearrangement is applied to the wrong base. Nothing repairs it.
* The comment at `netsync.cc:3684` (full data only where no path leads back to
  existing data) does not hold: with a merge of which the other parent's version is
  stored, full data may be asked for. It costs bandwidth, nothing else.
* A client that only wants to write is refused when it lacks the permission to
  *read* a branch (`netsync.cc:1743`).
* A pure source is written to: `process_hello_cmd` stores the server's key, and
  `rebuild_merkle_trees` sets missing epochs to zero (`netsync.cc:3551`).
  `PostState` and `EpochsFirst` make an exception for these.
* The wait for the epochs in `maybe_note_epochs_finished` is redundant as long as
  one connection keeps the order of its commands.
* `deltify_revision`'s condition that the old version be there in full is not
  needed for `Readable`; it saves work.
* A standstill of the buffers (`NoStandstill`'s exception) needs millions of requests
  outstanding on both sides, and is ended by the timeout. A silent session may live for
  almost two timeouts, as the comparison is of times of the last I/O, and a client
  that waits behind it in the backlog may give up first.

## 5. Proofs

All proofs are checked by TLAPS, for every value of the constants that the named
assumptions allow; TLC evaluates the assumptions in the runs.

| Module | Theorem | Statement |
|---|---|---|
| `PacketWriterProofs` | `TypesKept` | `Spec => []TypeOK` |
| | `DependenciesAlwaysClosed` | `Spec => []DependenciesClosed` |
| | `BookkeepingAgrees` | `Spec => []Bookkeeping` |
| | `NoWakeupLost` | `Spec => []NoLostWakeup` |
| | `OrderDoesNotMatter` | `Spec => []OrderIndependent` |
| | `ImplementsItemStore` | `Spec => StoreSpec` |
| | `ValveKeepsShut` | `Spec => ValveHolds` |
| `RefinementProofs` | `Invariant` | `Spec => []Inv` |
| | `NeverRefused` | `Spec => []NoProtocolError` |
| | `DoneIsComplete` | `Spec => []DoneMeansComplete` |
| | `HangUpIsSafe` | `Spec => []NothingCutOff` |
| | `PostStateHolds` | `Spec => []PostState` |
| `NetsyncSessionProofs` | `Invariant` | `Spec => []Inv` |
| | `DatabasesStayClosed` | `Spec => []DatabaseClosed` |
| | `NeverRefused` | `Spec => []NoProtocolError` |
| | `EpochsComeFirst` | `Spec => EpochsFirst` |
| | `SourcesOnlyGive` | `Spec => []SourceKeeps` |
| | `GoodbyeIsHonest` | `Spec => [](Tidy => GoodbyeMeansDone)` |
| | `PostStateHolds` | `Spec => [](Coherent => PostState)` |
| `VersionStoreProofs` | `Invariant` | `Spec => []Inv` |
| | `NeverForgets` | `Spec => NothingForgotten` |
| | `EveryVersionReadable` | `Spec => []Readable` |
| `ServerLoopProofs` | `LimitKept` | `Spec => []SessionsBounded` |
| | `NeverStuck` | `Spec => []NoStandstill` |
| | `FinishesProperly` | `Spec => NotCutShort` |
| `AncestryFetcherProofs` | `Invariant` | `Spec => []Inv` |
| | `AsksExactly` | `Spec => []EveryVersionAsked` |
| | `RequestsBuildable` | `Spec => []Constructible` |
| | `HeadsAreRight` | `Spec => []HeadsRight` |
| | `ExposedLoseCerts` | in every history, `Spec => []`: heads with children have no certs left, nor have newest wanted revisions with children |
| `RevisionGraphProofs` | `SearchTyped` | `SearchSpec => []SearchTypeOK` |
| | `FoundIsAcceptable` | `SearchSpec => []AnswerSound` |
| | `GivesUpRightly` | `SearchSpec => []AnswerComplete` |
| | `NothingForItself` | `SearchSpec => [](left = right /\ left # NullRev /\ ~lca => answer = NullRev /\ left \in Acceptable)` |
| | `WalksInvariant` | `Spec => [](WalkInv /\ IInv)` |
| | `TargetsAreRight` | `Spec => []TargetsRight` |
| | `DifferenceIsRight` | `Spec => []DifferenceRight` |
| | `OrderIsRight` | `Spec => []SortedRight` |
| | `CommandsAncestorRight` | `Spec => []AnswerSound /\ []AnswerComplete` |
| | `PathsAreWhole` | `Spec => []PathsWhole` |

### PacketWriterProofs

For all sets of packets and slots, any finite sets of items with any graph of
dependencies, and any number of writes by others.

Assumptions, all of them on constants and evaluated by TLC in the run `writer`:
the kinds of items are disjoint, the texts of revisions name files, manifests and
revisions, `NoPacket` is no packet, the database that the writer starts with is
closed, and there are finitely many items (`ItemsFinite`, which only
`OrderDoesNotMatter` needs: its fixpoint is defined by rounds).

**The inductive invariant.** None of the properties is inductive. `Books` is what
`Bookkeeping` says and also that no packet is both registered and yet to be
visited for one ident. While a cascade runs, a packet may be waiting for an item that is
in the database: the loop that will tell it is on the stack. So `Frames` relates the stack
to the loops - the dependents yet to be visited belong to a call on the stack, for
an item that is in the database - and `Waiting` says that an ident which is still
registered in the maps is missing from the database, or was written by another session. With an
empty stack there are no loops, and that is `NoLostWakeup`.
The conjunction, `Inv`, is an operator of the state's parts and not of the
variables: the handlers are called in the middle of a step, when the caller has
already taken the packet out of the map but not yet written anything, and each
lemma (`SkipStep`, `WriteOnlyStep`, `WriteAndAcceptStep`, `DelayStep`) starts
from there. `ConsumeStep` puts them together for all kinds of packet;
`SatisfyOneStep`, `SatisfyReturnStep`, `OtherSessionStep` are the other actions;
`StepInv` has one case for each action.

**The refinement** needs only that a handler writes one item at most, and that one
when what it needs is there (`ConsumeWritesOne`, from the guards), and that
`SatisfyReturn`, the valve and the queue leave the database alone.

**The order of arrival.** `OrderDoesNotMatter` compares the database with
`Derivable(seen)`, which knows nothing of delays. Two invariants meet there.
`Tracked` says that no packet is lost: each one received is still behind the
valve, or its item is written, or it can never be used (a delta with the wrong
result, a key that is not taken), or it waits at some address for things it
needs. `Justified` says that nothing is made up: every set that holds what was there at the start
and what the others wrote, and is closed under the packets received, holds the
database. Both are kept by one lemma on `Consume` (`ConsumeOrders`), entered by a new packet,
by the replay and by a satisfy loop alike. Between calls a waiting packet waits for something
missing, by the inductive invariant above, so that the database is closed
under the packets received; and `DerivableLeast` says that `Derivable` is the
least such set: a round that adds nothing is the last, and there cannot be
more rounds that add something than there are items.

### RefinementProofs

For every fanout, every depth up to 255 (the done level is one byte), any finite sets
of items on the two sides, and all pairs of opposed roles (`IdsTyped`,
`RolesTyped`: `process_auth_cmd` gives the server the role opposite to the client's).

Nothing in the protocol says that a refinement has ended; the done marker that
the two sides pass to and fro must stand for it. `Inv` says what it stands for:

* There is one marker in both directions together, and none only when both trees
  are done (`OneToken`).
* `TokenMeans`: what is on its way to the other side, or behind the marker to its
  receiver, was caused by refinements that the receiver has seen since it
  last sent the marker on (`current_level_had_refinements`). So a marker that comes to
  a side that has seen none has nothing in front of it and nothing behind it. That
  is the end, and `DoneIsQuiet` keeps it.
* `TokenLevel`: the level that the marker counts bounds from below the depth of
  the nodes in flight, on each side of the marker; so the level is below
  the depth of the tree while there is anything to refine, and never wraps.
* `NothingLost`: an item of the other side is there already, or on its way, or asked
  for, or named in a node that is on its way here, or below a node on its way to
  the other side that the other side has too (`Expected`). Each clause is kept by one
  part of `process_refine_cmd`; the last one is why each node sent leads to a reply.
* `Requests`, `Goodbyes`, `Complete`: what has been asked for is asked for or on its
  way; a goodbye follows all data; a done sink has the items of its source.

When nothing is on its way, `NothingLost` leaves only "is there already":
`DoneMeansComplete`. `NothingCutOff` and `PostState` follow with `Goodbyes`. The
lemmas on prefixes (`PrefixOf`, `BelowDigits` and those after them) replace
sub-sequences by digits; the step lemmas have one case for each handler.

### NetsyncSessionProofs

For any finite sets of epochs, keys, certs, revisions and contents, which are of
different kinds (`SessionConstants`: a command names an item by its type and its
hash), any history of revisions (`NamesAcyclic`: the hash of a revision covers the
hashes of its parents, so that no revision is its own ancestor), and any situation
whose databases have no dangling references (`SituationsTyped`). What a goodbye
means has two more premises, given below. The invariants are in
`NetsyncInvariants`.

`DatabaseClosed` needs two things: that `Written` adds an item only with its
needs there (an induction over the rounds of the writer), and that what is
committed is never more than what is seen and is closed too (`Committed`), through
rollbacks and crashes. `NoProtocolError` needs to know what can be on its way, and
that is most of `Inv`: who is authenticated when anything is exchanged
(`Authentication`), that the roles are opposed as soon as both sides know them
(`Opposed`), that each tree's refinement is followed by its done marker, of which
there is one (`Roots`, `Markers`), and that requests go to sources and data to
sinks (`Traffic`). `EpochsFirst` is a property of steps: the valve opens when all
epochs have arrived, and `EpochsMet` and `EpochLeads` say why that is enough: before
anything but epochs, keys or certs can reach the writer, the other side's epoch
tree has been seen, and each epoch in it is asked for or known. All clauses speak of
`Stream`, the commands read and not yet processed followed by those not yet
read, so that `Read` changes nothing.

Each handler is a reply that is put together from small parts (marks, data,
requests, the analysis, a goodbye). The lemmas show for each clause of `Inv` what is
needed of such a reply (`PlainReply`, `QuietReply` and the like), then for each
handler that its reply is one of these.

**What a goodbye means.** `maybe_say_goodbye` looks at two things only: whether all
trees are done and whether `requested_items` is empty. `GoodbyeIsHonest` says that
nothing else can then be open, and that needs an account of every item, `Account`:

* `Books`, for each side. `Entered`: an item asked for is in the other side's trees,
  or a revision with a cert there; one received is in the database, in the writer, in
  `received_certs` or in `ancestry`. `AnalysisMade` and `ValveOpened`: the two things
  that no command announces have been done as soon as what they wait for is there.
  The code looks whenever a revision, an epoch or a marker has come, and that is
  often enough. `Balanced` is what holds from the goodbye on.
* `Planted`: the trees have all certs and used keys of the database they were built
  from, a revision with a cert in a tree has its parents there too (`Ancestral`),
  and what is in the trees stays in the database.
* `Wares`: only certs of the giver's tree are given or asked for, and revisions and
  contents only come to a side that has asked for them.
* `Arriving`: from the time the root of a tree has been seen, each key and cert of the
  other side's tree is here, asked for, or on its way in front of the marker.

The step that matters is the one that says goodbye (`Closing`). All three trees are done,
so that by `Arriving` the keys and certs are here or received; nothing is asked for, so
that the analysis has been made and the valve is open; so all that was received
is with the writer. The writer could still wait for something: the parent of a
revision, say. But the parent has a cert in the other side's tree (`Ancestral`),
which has been received, which led to a request for the parent, which has been
answered. So all that is missing is held itself; and as no revision is its
own ancestor, the writer writes something in each round until nothing is left
(`WrittenComplete`).

`Handled` is what the accounts need of a handler; `HandledStep` shows that they are
kept then, and one lemma for each handler (`CertServed`, `DoneServed` and so on)
that it is so. `UneventfulStep` has the steps that handle nothing, `QuietBooks` those
before the client is authenticated.

`Tidy` is the premise, and it is about the situation: no other session writes
*revisions* meanwhile, and each revision there at the start has a cert there (`commit`
gives it four). Without the first, what the theorem says is false: at `netsync.cc:2596` the
analysis is never started, and a goodbye is said with the certs still in
`received_certs` (section 4). Without the second, a parent would not be
asked for, as requests for revisions follow from certs (`netsync.cc:2588`), and its
child would stay in the writer. Keys and contents may be written by others at any time.
TLC also checks one situation with revisions of others, in which the session
itself only reads what they write.

`PostStateHolds` follows for databases in which, besides, each key has
signed a cert and each content belongs to a revision (`Coherent`); what nothing
uses is not synchronized. All of the holdings that TLC checks are like this. The part
about sources has no premise: it is `SourcesOnlyGive`.

### VersionStoreProofs

For every finite set of versions, revisions of any number of deltas, any nesting
of guards and any number of writes.

`Sound` says of the tables that every base is stored and that the deltas have no
cycle: every set of versions has a member with no delta from another member. It is
inductive: a put adds a version that is no base yet, a reverse delta one that nothing
is based on, and `DeltifiedEdge` drops the deltas of the new version before it
makes it the base of the old one (`WithVersionSound`). It must hold of each guard's
snapshot too (`GuardsSound`), as a rollback brings it back. `NeverForgets` is an
induction over the deltas of a revision.

`EveryVersionReadable` is about the search of `get_version`, for any content of
the cache. The invariant of its loop (`Sought`): paths lead along deltas, from the
version that is wanted; each version that was seen is the end of a path or has
had all of its bases extended (`Covers`); a path that comes back to itself would be a
cycle of deltas. So the search never says "cycle"; it cannot run out of paths without
having found anything, for the versions seen would then be a set in which each
has a base in the set; and each round makes the paths longer, which cannot go on
for longer than there are versions.

### ServerLoopProofs

For any finite set of clients, any limits and sizes of buffers, of reads and writes
and of the sockets, any number of requests, and whatever the clients do
(`LimitsAssumption`; `ConfigsTyped`: a client is of one of the `Kinds`). `SessionsBounded` is not inductive: the server accepts a connection
some steps after it has decided to listen. `IInv` adds `ListeningHasRoom`: at
the probe, a server that listens still has room, as nothing between the two adds a
session. `EraseShrinks` and `AcceptBounded` say what the steps do to the number of
sessions; `ServerBounded` and `OthersBounded` have a case for each action.

`NeverStuck` and `FinishesProperly` need to know what is still to come, wherever it
is now. They follow from one invariant, `TalkInv` (TLC has checked it on the
run's instance, and it is inductive), with three layers:

* *Bytes*: `Carries` says that one direction of a connection holds a sequence of whole
  commands: the one the end is armed with, what is in `inbuf` and in the socket, and
  what is queued, of which the first has been written in part. `Parse` gives for each
  unit how many commands are whole by then and how far the next one has come.
  `CarriesRead`, `CarriesArm`, `CarriesWrite`, `CarriesQueue` and `CarriesTail` are
  what reading, arming, writing, queueing and processing do to the sequence: the first
  three, nothing.
* *Conversation*: `Protocol` relates the two sequences. They are the greeting; or the
  authentication with the client's requests; or any mixture of requests, answers and
  goodbyes (`Shape`). What an end expects is on its way to it or will be when the other
  has read what is on its way there (`End`); it has said goodbye exactly when it has
  begun and expects nothing; and a goodbye is the last thing on its way (`ByeWay`).
  `Speak` and `ConversationSpeaks` say that processing a command keeps this.
* *Ends*: the conversation holds while both ends are there, and for an honest client
  also when one has gone without a timeout (`Kept`); and who has gone has finished
  (`AllSaid`). For the finished end nothing is on its way any more (`Quiet`), so
  that closing its socket loses nothing, and when the other end reads the end of the
  stream, or cannot write, what it has read ends with the goodbye (`CutClean`).
  The last needs `ClientArmed` and `ServerArmed`: what can be armed is armed
  before input or output is looked at; else an end could see the end of the
  stream before the goodbye in its own buffer.

`RestingStays`, `MovingStays`, `LeftStays` and `DroppedStays` say what kinds of steps
keep a `Connection`; then there is one lemma per action. `StandstillFull` derives
`NoStandstill`: too much to write means a full socket, a full socket that is not read
means a full `inbuf`, a full `inbuf` holds a whole command (`ShortInput`), and
one that is not armed means too much to write at that end as well; and if neither
end has a whole command in its `inbuf`, nothing is left, and both have finished.

### AncestryFetcherProofs

For any finite acyclic history, any part of it in the database, any versions of a
file or of the manifests in its revisions, any other versions stored, and every
order of hashes (`ConfigsTyped`, `ConfigsAcyclic`, `RevsFinite`).

`EveryVersionAsked` says something only of the last state; the loops before it are
related to it by these parts of `Inv`:

* `Traversed`: what was seen is above the heads; the new revisions of it have
  been consumed or wait, and the parents of what has been consumed were seen. With
  an empty frontier, what was consumed is closed under parents, so that it is all
  that is needed (`NeededConsumed`).
* `Mapped`: the maps of deltas lead to versions of revisions above the heads only;
  and they lead to all of them. The two algorithms do it differently. Forward
  deltas of manifests start at the heads, and there is a reverse delta for each edge
  followed; so whatever holds the targets of the forward deltas and what the
  reverse ones lead to has the versions of the heads, and with a revision's that of its
  parents. Forward deltas of files start where a version is seen for the first time,
  and a version that is seen later is no target of its own; so the invariant is that
  what holds the targets and what reverse deltas lead to from there has all that was
  *seen*. There is no delta for an edge that leaves a file as it is; such a version is
  named by an older revision as well, and by acyclicity one of these was changed, or
  is in the database (`AllReached`).
* `Requesting`: what was asked for is what `request_files` has gone through and is
  not stored, each version once; and what reverse deltas lead to from there has been
  gone through too, but for versions on the stack. With the stack empty that is
  a set as `AllReached` needs it.
* `Buildable`: what is asked for, and also what is on the stack, can be put
  together. The stack is needed: the base of a reverse delta is on the stack and may
  be stored, or asked for earlier.

`HeadsAreRight` is about the heads, for every history, also those in which step 3
exposes wanted revisions. `HeadsInv` says that `chld_num` counts the children whose
certs have not been dropped; that a revision is dropped after all its children, and a
wanted tip never; that one of which all children are dropped and unwanted is dropped
or waits in `tmp`; and that a head is a wanted tip or has been dropped. As what is
dropped holds its children and no wanted tip, it holds nothing that a wanted tip
descends from (`NotAbove`). And a revision that was not dropped, and is no wanted tip,
has a child that was not dropped, or is wanted; as there is a newest one (`Newest`)
and no revision descends from its child (`NoLoop`), this leads to a wanted revision
above it (`DroppedAtEnd`). `ExposedLoseCerts` follows from the same lemma; it is the
finding `wanted_certs` for every history.

### RevisionGraphProofs

The search for an ancestor (`SearchSpec`): for every finite set of revisions, every acyclic ancestry over it
(`AcyclicAssumption`: a revision's hash covers those of its parents), every pair of
revisions, every order of numbers and of passes. `SearchSpec` is the search and the
composition without the walks of `RevisionGraph`, asked at any time for any two
revisions.

The inductive invariant `IInv` has the types; `Sound`: what the maps hold of a
node are ancestors and dominators of it; `Searching`: as long as nothing has changed in a
round, every entry that it has visited is *settled* (`AncSettled`, `DomSettled`: it holds
the node itself, its parents are in the map, and it has what their entries have to
give), and the two sets do not meet; and `Answered`: in which stage there is an
answer, and that there is none for one revision on both sides of a merge.
`FoundIsAcceptable` follows from `Sound`: an
intersection of subsets has only right members. `GivesUpRightly` needs that maps which no
longer grow hold everything (`AncestorsReached`, `DominatorsReached`): for ancestors
the settled nodes are a closed set; for dominators, one that is missing in a
settled set is missing in the set of a parent too, and so on along a line that avoids
it; by acyclicity the line ends at a root, so that it does not dominate. `VisitAncestorsStep` and `VisitDominatorsStep` are the visits, the
other lemmas the remaining actions.

The walks: for every finite set of revisions, every acyclic ancestry, and any walks
(`WalksTyped`: the revisions asked for exist, and an update or a difference has a
base), in any order of children, rows and hashes.

The base of it is `Before(n)`, what `n` descends from, with the null revision:
`BeforeByParents` says that it is what the parents are and descend from, which is how
`calculate_ancestors_from_graph` puts it together, and that needs the ancestry to be
acyclic (`NoCircle`). `WalkInv` has a clause for each part of the walks:

* `Traversing`, of `calculate_update_set`: what was reached descends from the base,
  and the children of what was passed have been passed or wait. When nothing waits,
  what was passed is closed under children, so that it is everything that
  descends from the base (`Collected`).
* `MapRight`, of the map that all calls share: an entry is all that comes before its
  revision, whichever call has made it. So a later call may stop at it, and
  takes the whole of what it would have found.
* `UnionRight` and `BaseRight`: what the union has is what the revisions begun so far
  give to it; the one that is calculated may still be missing. The heads are
  what no other revision of the set gives, the difference is what only the
  base gives.
* `Sorting`, of `toposort`: with `Taken`, the revisions that have left the queue of
  roots, the edges left are those from revisions not taken, and the number kept of a
  revision is that of its parents not taken. So what is taken has all its ancestors
  taken (`TakenClosed`): parents come first. With the queue empty, a revision that is
  not taken has a parent that is not, and by acyclicity there is none
  (`AllTaken`): the assertion `I(graph.empty())` holds.

`StepKeeps` joins this with `IInv` of the search: a command asks the search only for
revisions of the database, and nothing of a walk is left when it does.

The composition of change sets: for the same ancestries, any two revisions and any order in
which parents are met. `PathsWhole` speaks of the end only; `PathsInv` of the two
loops before it:

* `Scanning`: all that the scan has taken in is *linked* to the child, that is reached
  from it over parents without leaving the subgraph (`Linked`, `LinkedGrows`); and what it
  has left behind has all its parents in. When the frontier is empty the subgraph is
  closed under parents, so that it has the answer, which is an ancestor
  (`DominatorIsAncestor` for a merge, from acyclicity). However the scan returns,
  the answer is in the subgraph.
* `Recursing`: a revision that was visited, is not on the stack and has no path is
  *dead*, and the parents of a dead revision in the subgraph are dead and not the
  answer. That is inductive because a parent that is passed over is dead at once, although it
  may have been visited and not be finished: such a one would be on the stack, but what is
  on the stack descends from the innermost activation (`Descending`, `NotOnStack`), and
  the ancestry has no circle. If the first activation returned without a
  path, all but the child would be dead, by `Linked`, with the answer among it
  (`NotInVain`).

### DataLemmas

Induction, as the library's theorems have it, takes a predicate as its parameter, which
the provers cannot instantiate. `SetInduction` and `IntervalInduction` are about *sets*
of numbers instead, from the well-foundedness of the order of numbers, and serve as
well: the proofs above use them for loops over sequences, for folds
(`AppendingExists`, `TurnsExist`) and for searches. The rest is what sequences hold
(`Elems`) after the operations that the models use, that a queue without duplicates
stays so, and that `SetToSeqs`, which the models choose orders of iteration with,
gives orders.

### Only model-checked

* Liveness (the `Ends` properties), which TLAPS does not do under fairness.
* `MerkleTree`, `ChangeSet`, `ChangeSetMerge` and `WorkingCopy`: their operators are
  recursive, and TLAPS proves nothing about those.
* `NetsyncSession!GoodbyeMeansDone` and `PostState` in the situations that the
  premises of their theorems leave out: another session that writes revisions while
  this one only gives.
* `SinkSuperset`, `WantedCertsKept` and `UpdateArrives` do not hold; see the findings.

## 6. What is not modelled

* About three quarters of the lines of the repository are vendored libraries (SQLite,
  Botan, libidn, Lua, Netxx, popt, parts of Boost). They are not monotone's own
  logic; a transaction of SQLite is taken to be atomic and durable, and a socket to be a
  FIFO that can fail. Locks between processes are left out.
* Texts: what a delta computes, how two texts are merged, diffs, the text forms of
  packets, manifests, revisions and change sets. A version is its ident; a merge of
  two texts has the changes of both.
* Cryptography: nonces, signatures and HMACs are taken to work; who is known and
  permitted is part of the situation.
* The `nonexistant` reply: nothing removes items during a session, so that no peer
  is asked for what it does not have. `Refinement` has the command and its handler's
  guard, and shows that it is not needed.
* Out-of-band data, which nobody sends, and the usher's commands.
* Memory: delayed packets and prerequisites point at each other; what is never
  satisfied is freed when the process ends.
* In the working copy: attributes, `revert`, restrictions to some paths, inodeprints,
  missing and ignored files, directories that stay when they have become empty (an
  `update --revision` to a sibling may fail at one), the steps by which files go
  through `MT/tmp`, and crashes in the middle of a command.
* Deleted directories: `drop` refuses directories (`work.cc:214`), so that no
  rearrangement has any.
* In the revision graph: `is_ancestor`, the reconstruction of a graph from old
  formats (`db changesetify`, `db rebuild`).
* Certs, keys, trust, selectors, schema migration, RCS and CVS import, automate,
  tickers and messages, Lua hooks, platform code.
* Everything of `PROJECT.json` with the status `not_modelled`, with its reason there.

## 7. Plan

The most important behaviour, what netsync promises of the databases, came first;
then the loop that runs it, the graph, and the change sets.

1. Done: `ItemStore`, `PacketWriter` and its proofs; `MerkleTree`; `Refinement`;
   `NetsyncSession`; `AncestryFetcher`; `VersionStore`.
2. Done: `ServerLoop` with its proofs; `Ancestry`, `MergeBase`,
   `RevisionWalks` and `RevisionGraph` with the proofs of the search; `ChangeSet`,
   `ChangeSetMerge`, `WorkingCopy`.
3. Done: the proofs of `Refinement`, `NetsyncSession`, `VersionStore`,
   `RevisionWalks` with `RevisionGraph`, and `AncestryFetcher`.
4. Done: the proofs about `ServerLoop`'s standstills and ends, of `PathsWhole`, and of
   `GoodbyeMeansDone` with the `PostState` of a session.
5. Next: an abstract specification of a synchronization (two sets that end as a
   superset or as their union), and `Refinement` shown to implement it.
6. Crashes between the steps of `update` and `commit` in `WorkingCopy`, and
   `revert`, which the user would recover with.

## 8. Running the checks

    tlc -config MCNetsyncSession.cfg MCNetsyncSession
    tlapm DataLemmas.tla
    tlapm PacketWriterProofs.tla
    tlapm RefinementProofs.tla
    tlapm NetsyncSessionProofs.tla
    tlapm VersionStoreProofs.tla
    tlapm ServerLoopProofs.tla
    tlapm RevisionGraphProofs.tla
    tlapm AncestryFetcherProofs.tla

Each `.cfg` goes with the module that `PROJECT.json` names for its run; the
community modules have to be in TLC's path.
