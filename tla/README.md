# ksef2-mcp in TLA+

ksef2-mcp is an MCP server over the `ksef2` SDK for KSeF, the Polish e-invoice
system. It offers tools to open and close interactive sessions, to author an
invoice step by step in a *draft*, and to manage tokens and permissions. It keeps
all its state in three process-wide dictionaries (session handles, drafts, exported
invoices), the exported files, and the caches of `functools`; FastMCP runs its
synchronous tools in worker threads, so tool calls overlap, and nothing in the
code takes a lock. This project models that state, checks it with TLC, and proves
the central claims about it with TLAPS.

All paths below are relative to `src/src/ksef2_mcp`.

## Inventory

| Component | State | Operations | Hard behaviour |
|---|---|---|---|
| Unit of work (`adapters/uow.py`, `ports/repository.py`) | `_SHARED_IN_MEMORY_STORE` (session handles, drafts); a private `_backup_store` per call | `__enter__` deep-copies both dictionaries, `commit` drops the copy, `rollback` clears and refills both | copying while others write; a rollback that is not aware of others; the gap between clear and refill |
| Repositories (`adapters/draft_store.py`, `adapters/database/repository.py`) | the two dictionaries | add, get, get_or_raise, delete, list_all | hand out the stored objects, which callers change in place |
| Draft runtime (`services/drafts.py`, `domain/drafts.py`) | `DraftSession.contexts`: named builders in a tree | create, get_contexts, get_possible_methods, update (spawn, call, done), build, delete | a batch catches `KsefMcpError` per operation and nothing else; check-then-act in `_spawn`; recursion over a dictionary others change |
| Sessions (`services/sessions.py`, `domain/models.py`) | session handles, and the session at KSeF | open, close, list | KSeF and the store change at different moments; the unit of work spans the network call |
| Client factory (`services/authenticated_client.py`) | one SDK client per call; the factory and its credentials, cached | create (a context manager) | close on every path; `except` clauses around a `yield`; credentials cached apart and without a lock |
| Tokens, permissions (`services/tokens.py`, `permissions.py`) | the cached services | one SDK call each | overlapping first calls; which SDK errors are translated |
| Downloads (`services/invoice_downloads.py`, `server.py`) | files on disk, `_DOWNLOAD_ARTIFACTS` in memory | create link, serve | file and registration apart; checked, then opened; restart |
| Payload schemas (`services/annotations.py`) | none | a method's JSON schema, normalised | pure; the rules of one keyword meet those of another |
| SQL adapters (`adapters/database/*`) | SQLite | a second unit of work | not used: `fresh_uow` returns the in-memory one |
| Front end, configuration (`tools/*`, `server.py`, `config.py`, `auth.py`, `errors.py`), demo | settings read once | registration, parsing | none of their own |

What makes each correct:

* **Unit of work** — all or nothing: a call that returns has its effect and keeps
  it, a call that raises has none, and nobody sees half of one. Every call ends.
* **Draft runtime** — the contexts of a draft form a tree under `root`; a live
  context works on a builder that is open and that came from its parent's
  builder; a failed operation has closed nothing.
* **Sessions** — a handle is listed as open exactly while its session is open at
  KSeF, up to calls under way.
* **Client factory, tokens, permissions** — a client is closed on every path, once;
  a login uses a certificate and the key that belongs to it; a call reported as
  refused did nothing; SDK errors are translated.
* **Downloads** — a link that was handed out serves the whole invoice it was made
  for, with every change that had been acknowledged when it was asked for, until its file or its process is gone; a file name is a plain one.
* **Payload schemas** — a normalised schema admits no payload the method refuses.

`PROJECT.json` lists the components with their status and, under `hazards`, each
place where the code can go wrong in a way a test hardly reaches.

## Modules

| Module | Models |
|---|---|
| `ToolCalls` | the requests that touch the store and the keys they name |
| `AtomicStore` | abstract: what a unit of work promises, one step per call |
| `UnitOfWork` | `InMemoryUnitOfWork` and the calls inside it, step by step |
| `ContextNames` | the names of contexts |
| `ContextTree` | abstract: the contexts of a draft as a tree, one step per spawn or done |
| `DraftContexts` | `update_draft` calls on one draft, step by step |
| `InteractiveSessions` | session handles, sessions at KSeF, and the SDK client of each call |
| `AuthenticatedCalls` | the cached services, factory and credentials behind every call to KSeF, and what its exceptions become |
| `InvoiceDownloads` | download links: file, registration, HTTP route, restarts |
| `DownloadNames`, `PayloadSchemas` | algorithms: file names, the normalisation of JSON schemas |
| `NameRequests` | a request for a name, and the step that normalises it |
| `AtomicStore_proofs`, `UnitOfWork_proofs`, `ContextTree_proofs`, `DraftContexts_proofs`, `DraftContexts_serial_proofs`, `InteractiveSessions_proofs`, `AuthenticatedCalls_proofs`, `InvoiceDownloads_proofs` | the theorems |
| `MCUnitOfWork`, `MCDraftContexts`, `MCInteractiveSessions`, `MCAuthenticatedCalls`, `MCInvoiceDownloads`, `MCFunctions` | instances for TLC |

### UnitOfWork

`store` maps a key to the object filed under it and `heap` maps an object to its
content. The two are apart because the code's objects are shared: a call that
looked a draft up goes on changing that object (`held`) even after a rollback has
filed a copy in its place. An object is named by its key and the call that made
it. Its content is the set of changes made to it, each named by its call and its
number in the call's batch, which is what durability and atomicity tell apart: a
draft can hold a part of a batch, and so can a copy of it. `Batch` says how many
operations of a call's `update_draft` succeed, `applied` how many it has applied so
far; `close_interactive_session` makes one change. `backup` is a call's deep copy,
`iter` what the dictionary held when its copying began, `overlap` a history variable.

| Actions | Code |
|---|---|
| `Begin`, `CopyEntry`, `CopyEnd`, `CopyFails` | `__enter__`: `copy.deepcopy` of the sessions, then of the drafts, entry by entry |
| `Add`, `OpenFails`, `Lookup`, `NotFound`, `Write`, `Observe`, `Pop`, `Raise` | the body of the `with` statement in `services/drafts.py` and `services/sessions.py`; `Write` is one operation of a batch (`update_draft`, the loop over `operations`), or the `close()` of a handle |
| `Commit` | `__exit__` without an exception |
| `ClearTable`, `RestoreTable` | `rollback`: clear and refill the sessions, then the drafts |

Three decisions deserve a reason.

* CPython's dictionary iterator fails when the dictionary's size differs from what
  it was at the start, and otherwise walks on in the table as it now is. Hence
  `SizeKept`; and after another call's rollback has rebuilt the table under the
  iterator (`Refilled`) the copy may miss entries. An exception in `__enter__`
  never reaches `__exit__` (`refused`).
* The deep copy of one entry is one step: it has the changes made so far, half a
  batch included. In the code a copy may also be torn inside one draft, and have a
  later change without an earlier one; that is not modelled. But a draft whose
  contexts change while it is copied can make the copy fail, and that is in
  `CopyFails` (`Changing`).
* `read_draft` stands for `get_contexts`, `get_possible_methods`, `build_draft`
  and an `update_draft` none of whose operations succeeds. `Raise` is
  possible before, between and after the changes of an `update_draft`: an exception
  that the batch loop does not catch.

### DraftContexts

One `DraftSession` object and the `update_draft` calls that hold it. `contexts` is
its dictionary; `frames` is the Python stack of `remove_context_tree`, each frame
with the children it collected and has not removed yet; `walked` is what a running
iteration over the dictionary started with. An action ends where another thread
can see or change the dictionary: between the checks of `_spawn` and its
installation, between `done()` and the removal, between collecting children and
removing them.

| Actions | Code |
|---|---|
| `Begin`, `Accept`, `Refuse`, `MethodFails`, `ValidationEscapes`, `EndOp` | the batch loop of `update_draft`, and the checks before a builder is called |
| `SpawnReturns`, `Install`, `CallReturns` | `_spawn`, `_call` |
| `DoneReturns`, `ScanStart`, `ScanEnd`, `Descend`, `Pop`, `PopMissing` | `_done` and `remove_context_tree` |
| `IterationFails`, `TooDeep`, `Escape` | exceptions that are no `KsefMcpError`: they leave the call, and its rollback files a copy of the draft in place of this object (`detached`) |
| `ListStart`, `ListEnd` | `_serialize_contexts` |

Builders are the SDK's. The model assumes that a method may return a new
sub-builder, return something else or raise, and that `done()` closes its builder.
After a rollback, `UnitOfWork` says what the store holds; here, calls that still
hold the old object go on with it, and no new call finds it. The rollback of a call
that is no `update_draft` does the same to the object; for the calls on it, that is
the case of a call that never begins.

### InteractiveSessions

`handle` is the store's view of a session (no handle, `date_closed` unset, set),
`remote` is KSeF's, `client` the SDK client of each call. The three change at
different steps, and every request may be refused, or take effect and lose its
answer. `filed` says whether the handle that a close looked up is still the one in
the store: a rollback files copies, and a `SessionHandle.close()` on the old object
then changes nothing that anybody reads.

| Actions | Code |
|---|---|
| `Begin` | the tools of `tools/sessions.py` |
| `CreateClient`, `AuthenticationFails`, `CloseClient` | `AuthenticatedClientFactory.create` and its `finally` clause, which may raise too |
| `Enter`, `EnterFails`, `Commit`, `Rollback` | the unit of work, one step each: what their own steps expose is `UnitOfWork`'s subject |
| `RemoteOpens`, `AddState` | `open_interactive_session` |
| `FindHandle`, `NotFound`, `RemoteCloses`, `MarkClosed` | `close_interactive_session`, which does not ask whether the handle is open |
| `RequestFails` | a request that raises in either |
| `ListOpen` | `list_interactive_sessions` |

`NotFound` also stands for a handle of a batch session: nothing in the code files
one, and the exception has the same effect.

### AuthenticatedCalls

`service` holds the factory of each cached service, `factory` the cached factory,
`loaded` the generation of the two XAdES files each factory has in its
`cached_property`s, and `disk` the generation that is on disk. Neither
`functools.cache`, `lru_cache` nor `cached_property` (Python 3.12) takes a lock
while it computes, so a lookup and the storing of its result are two steps: calls
that overlap build a factory each, `lru_cache` keeps the service that came first
and `cache` the factory that came last.

| Actions | Code |
|---|---|
| `FindService`, `KeepService` | `get_token_service`, `get_permission_service`, `get_session_service` |
| `FindFactory`, `BuildFactory`, `BackendUnsupported` | `get_authenticated_client_factory` |
| `Load`, `Store`, `LoadFails`, `NotConfigured` | the credential providers |
| `Request`, `RequestFails` | `Authenticator`, then the one SDK call of the service method |
| `ReplaceFiles` | the environment: both files are exchanged at once |

Every way out of a call is `Leave`, which composes the two translations an
exception passes: `CreateRaises` (`AuthenticatedClientFactory.create`, whose
`except` clauses surround its `yield`, so that what the body raises passes them
too) and `ServiceRaises`. `client.close()` may raise in the `finally` clause and
replace what was raised. `InteractiveSessions` has the part of the session tools
between the login and the way out; here it is one request.

### InvoiceDownloads

`file` is the export directory, `artifacts` the dictionary `_DOWNLOAD_ARTIFACTS`.
A creation goes through the states *build*, *open*, *write*, *register*; the file
is there, unfinished, from the second step on. A request finds its artifact and
opens the file in two steps, as the route and `FileResponse` do. A restart empties
`artifacts` and the drafts and leaves the files.

The draft is what other calls make of it. `Change` is one operation of an
`update_draft`, `UpdateReturns` the end of the call, by which its changes are
acknowledged (`acked`). `RollBack` is the rollback of any call that was under way
together with those: it files a copy of what was stored at some earlier time (`past`),
and so undoes acknowledged changes (`undone`), or brings a deleted draft back; a call
that had found the draft before goes on with an object that is not stored any more
(`replaced`). Which calls overlap, and how a rollback goes about it, is `UnitOfWork`'s
subject: here a rollback to anything that was stored may happen at any time. A creation
whose own `build_draft` fails is such a rollback too (`BuildFails`).

Two pairs of steps of the code are one here, which narrows a gap. `BuildDraft` looks
the draft up and exports it at once; the code exports the object it looked up, which
can gain changes in between but not lose any. `Serve` looks at the file and opens it at
once; in `FileResponse` a file deleted between the two is the same server error.

At this commit no tool calls `create_invoice_download_link`; the route is registered, and
the service is part of the API and tested.

### DownloadNames and PayloadSchemas

Both are operators, no state machines; `NameRequests` and `MCFunctions` apply each in one
step. A file name is a sequence of tokens, one per
class of characters that the code's regular expression, `strip`, `pathlib` and
`rsplit` tell apart. A schema is a record of the keywords the code looks at.
`PayloadSchemas` also states what a schema admits (`Admits`), by JSON Schema's
rules and not by the code, which is what normalisation is held against.

What the translation showed, none of it contradicting a document: `null` stays
where two options beside it remain; the option that is merged wins over the
field's own keywords (its description, its builder format); the options of an
`enum-string` that are no enumeration are dropped; a name of unsafe characters only
becomes `xml.xml`, so the last fallback of `_normalize_file_name` is never reached;
`March.2026` becomes `March.xml`.

## Runs

| Run | Instance | Shows |
|---|---|---|
| `store_serial` | 1 session, 2 drafts, 3 calls with batches of 2, 2 and 1, one at a time (43,100 states) | `Durable`, `ListIsComplete`; refinement of `AtomicStore` |
| `store_concurrent` | 1 session, 1 draft, 3 overlapping calls with batches of 2, 2 and 1 (423,883 states) | `TypeOK`, `ExplainedLoss`, `ListingExplained`, the action properties `AtomicUnlessShared` and `StepsAdvance`, liveness `CallsEnd` |
| `create_lost`, `list_incomplete` | same | counterexamples to `CreatedStaysFiled`, `ListIsComplete` |
| `contexts_serial` | 3 ids beside the root, 5 builders, 1 call of 6 operations | `LiveUnderOpen`, `FailedLeavesOpen`; refinement of `ContextTree` |
| `contexts_racing` | 2 ids beside the root, 4 builders, 2 calls of 2 and 3 operations | `TypeOK`, `RootStays`, `TreeUnlessRaced`, the action property `UpdatesAdvance`, liveness `UpdatesEnd` |
| `orphan_listed` | same | counterexample to `ParentsListed` |
| `sessions_concurrent` | 2 sessions, 4 overlapping calls | `TypeOK`, `ClosedMeansClosed`, `ClientsReleased`, `Agreement`, `CloseStays` |
| `closed_listed` | same | counterexample to `ListedAreOpen` |
| `clients_concurrent` | 3 overlapping calls of 2 services, token and XAdES, files replaced once | `TypeOK`, `MatchedCredentials`, `StableLogin`, `RefusedWithoutEffect`, `ErrorsTranslated` |
| `downloads` | 2 overlapping creations, 2 requests, 2 changes of the draft, rollbacks and deletion of it at any time, 1 restart (991,523 states) | `TypeOK`, `ServedComplete`, `FreshUnlessUndone`, `LinkServed`, `ErrorOnlyInTheGap` |
| `functions` | every field of up to 3 options from 12, every name of up to 5 tokens | `NeverWidens`, `KeepsValues`, `OffersEveryLiteral`, `NameIsFileName`, `FitNameIsKept` |

**Why these bounds.** Damage to the store takes three parties: a call that rolls
back, one it harms, and one that created the entry they share. Three calls with
one key per table give all of them; a second draft in the serial run adds entries
that a call must leave alone. A batch of two changes is the smallest that can be
seen, copied and rolled back half made; two calls have one, so that two batches can
mix. For contexts, two racing
batches of 2 and 3 operations are the smallest that close a cycle: `c2` spawns
under a context that `c1` removes, spawns that context again under its own child,
and then closes the child. Three named contexts in the serial run give chains and
siblings. Four calls on sessions are an open, a close, the call that rolls back over
them and the listing that shows the result; a second session is one that a close
must leave alone. Three calls to KSeF are two that overlap in filling the caches and one
that finds what they left; one replacement of the files can fall between any two
reads. The three operations are one of each translation (`list_token_page` hands
errors on, `list_permissions` translates the SDK's, the session tools everything);
the other token tools share `TokenRaises`, which is `PermissionRaises` again. Two
creations are one that disturbs and one that must not be disturbed, and a second
change is one that is made, or acknowledged, after a link was asked for. Three options are what it takes to have a null, a value and another
value; five tokens hold a stem, the extension and a character to strip on either
side. `Builders`, `MaxOps`, `MaxDepth` and the number of calls bound the runs.
`MaxDepth` stands for the interpreter's recursion limit and exceeds the number of
contexts, so that only a cycle reaches it. Symmetry is used where there is no
liveness to check.

**Fairness.** Weak fairness per call, on every step but its beginning. A worker
thread that runs a tool keeps running, and each step is one the thread can take by
itself; no lock or queue is waited for. That a client makes a call, or another
one, is never assumed. A KSeF request or a builder method that never returned is
excluded by this; the SDK's own timeouts are its business.

**What the runs say.** Calls made one at a time get what a unit of work should
give: an atomic store and a tree of contexts. Overlapping calls do not. The
rollback of one call wipes out, or resurrects, what others did. What remains true
is `ExplainedLoss`: a call is contradicted only if a call that rolled back
overlapped it, or two calls that rolled back overlapped each other; a listing misses
a session for no other reason (`ListingExplained`). Overlapping calls
are not atomic even when none of them fails: `update_draft` applies its batch one
operation at a time to the shared draft, so that an overlapping `get_contexts`,
`build_draft` or `update_draft` of the same draft sees, or mixes with, a part of it
(`Sharing`; the finding `orphan_listed` is one instance). What remains is
`AtomicUnlessShared`: as long as no call rolls back and no `update_draft` overlaps
another call that looks up its draft, each call takes effect in one step, as in
`AtomicStore`, its whole batch at once (`Visible` is the store with the batches that
are complete, `Effect` the calls whose body has ended), and what a read finds holds
whole batches only (`ReadsVisible`). The one exception is a call that found a draft
which a `delete_draft` removes before the call's effect: it returns as if it had come
first (`Overtaken`). On one draft,
spawns and calls may run side by side, and the tree is at risk only when a `done`
overlaps a spawn or another `done` (`TreeUnlessRaced`); the root always survives.
Sessions fail in one direction only: a handle may say open when KSeF has closed the
session, and never the reverse (`ClosedMeansClosed`). That direction comes from a
rollback that files an older handle, or from a call that raised after KSeF had acted
(`Agreement` names both; an acknowledged close is undone by the first only,
`CloseStays`). In the second case a retry closes again, since nothing
looks at `is_open`; if KSeF refuses it, the handle stays open for good.
Calls to KSeF survive overlapping: a factory is built twice and a file read twice,
but once a call of a service that met no other has logged in, the service keeps
those credentials (`StableLogin`), and the one way to pair a certificate with a
foreign key is to replace the files between the two reads
(`MatchedCredentials` exempts that pair: it says that overlap, failure and retry mix
none) — after which the pair stays until the process ends.
`list_token_page` is the one method that hands an SDK exception on. A link serves
the whole file or nothing. Its invoice may lack an acknowledged change, but only one
that a rollback, a deletion or a restart had taken from the draft when the invoice was
built, or had kept out of it by replacing the object its `update_draft` was working on
(`FreshUnlessUndone`); and a server error needs a deletion in the gap between
the check and the answer.
The four violation runs are findings: each contradicts what a tool's description
promises, and `PROJECT.json` quotes it.

Every property of a passing run has a mutant: a plausible bug, kept beside the
definition it replaces and marked *Mutant*, under which TLC finds the property
violated.

## Proofs

Every safety property of a passing run but the three about schemas is a theorem: it holds
for any sets of sessions, drafts, contexts, calls, links and requests, and not only
on the instances above.

**The store, whatever overlaps** (`UnitOfWork_proofs`)

* `UnitOfWorkTypeOK` — the type invariant.
* `KeysUnique` — two creates never share a key: a create names a key no call has
  named (`uuid4`).
* `LossIsExplained` — `ExplainedLoss`. It says of the store at rest what has to be
  known of it, and of every backup, all along: `ConcurrentInv`. Call a call *hit*
  when one that rolled back overlapped it, and say that two rollbacks *clash* when
  they overlapped each other. As long as there is no clash,
  - the store shows the effect of every call that is not hit (`Shows`), except in the
    gap of a rollback that is about to refill the table;
  - the backup of a call shows the effect of every call that is not hit and did not
    overlap it (`ShowsIn`), so that restoring it loses nothing. It was copied after
    that effect, and a copy is complete unless a rollback moved the table under it;
  - a call that failed has left nothing in the store (`Leaves`), nor in the backup of
    a call that did not overlap it.

  Three things hold with clashes as well: an entry is there, copied or walked only
  after its create (`KeyInv`); a call is in a content only once it wrote, and never in
  its own backup (`TraceInv`); what a call that is not hit found is what is filed
  still, or it was deleted (`ViewInv`). One lemma says what a step does to one key
  (`KeyEffect`), one what it does to the backups (`BackupEffect`), and one lemma per
  conjunct follows the steps from there.
* `ListingIsExplained` — `ListingExplained`, from the same invariant, which is needed here
  while calls are under way: the listing is one of them, and if no rollback overlapped
  it, none is in its gap.
* `AtomicUntilShared` — `AtomicUnlessShared`, step by step. The abstract store is the
  real one without the changes of calls whose body is under way, and a call has its
  effect when it reaches `exit`: then its whole batch appears, and nothing is missing
  from it (`BatchShown`), because the object it changed is still the one filed. A read
  that ends has seen no such change, as whoever made it would share the draft
  (`ReadsWhole`). A call that works on
  what it found earlier needs `FoundInv`: what it found was created, and while nothing has
  rolled back, whoever deleted it overlaps the call.
* `NothingIsRetried` — `StepsAdvance`, the safety half of `CallsEnd`: a step takes
  something from what its call has left to do (its place, the entries still to
  copy, the changes still to make), which is never negative and which no step of another call changes.

**The store, calls made one at a time** (`Serial`)

* `SerialInvariant` — the inductive invariant `SerialInv`. `Durable` and the
  refinement are not inductive: that a rollback restores the right store needs to
  know that the backup equals the store the call found, all through the copying
  (`CopiedSoFar`), the body (`Performed`) and a half-done rollback (`RestoredSoFar`).
  Exclusion comes first (at most one call is under way), then what the one call knows
  (`CallInv`).
* `SerialImplementsAtomic` — `Spec => AtomicSpec`. The abstract store is the real one
  at rest, and the call's backup from the moment the copy is complete until the call
  ends: so the abstract step is the last step of a call, its commit or the end of its
  rollback, and every other step stutters.
* `AtomicExactEffects` (`AtomicStore_proofs`) — an entry of the atomic store is present
  exactly when its create returned and no delete did, and holds exactly the
  changes of the writes that returned.
* `SerialDurable`, `SerialListIsComplete` — by the refinement the previous invariant
  holds of the concrete store, where it excludes each of the four ways to contradict
  a call, at rest and when a listing is about to read.
* `SerialCreatedStaysFiled` — `CreatedStaysFiled`, a part of `Durable`. With
  `SerialListIsComplete` it is the counterpart of the findings `create_lost` and
  `list_incomplete`: what the runs refute for overlapping calls is proved without overlap.

**The contexts of a draft, whatever races** (`DraftContexts_proofs`)

* `TypeCorrect` — the type invariant, the stack of `remove_context_tree` included.
* `RootAlwaysStays` — `RootStays`, with `RootSpared`: no call is about to file, close
  or remove the root, wherever it stands.
* `TreeUntilRaced` — `TreeUnlessRaced`. Until a done raced with a spawn or another
  done (`raced`), `TreeInv` holds: a done is alone (`Exclusive`), every context and
  every spawn under way hangs from a live context (`Linked`), the edges in the tree
  and those about to be filed close no cycle (`Forest`), and a removal has collected
  every child of the contexts on its stack (`Covered`). `Forest` counts the edges to
  come, since two spawns that overlap are both checked before either files. It is
  stated without paths: every set of contexts has a member whose parent is outside.
* `ParentsListedUntilRaced` — the finding `orphan_listed` needs that race: until then every
  context listed has its parent listed, by `Linked`.
* `UpdatesNeverReturn` — `UpdatesAdvance`, the safety half of `UpdatesEnd`. What a call has
  left to do is a row of numbers: what is left of its batch, then of each frame of
  `remove_context_tree`, outermost first. Each step of the call makes the row smaller in
  the lexicographic order: a frame that is scanned may find any number of children, but
  is never scanned again; one that removes a child adds a frame, and has a child less
  itself. The row is at most `MaxDepth + 2` long (`DepthInv`), so it cannot shrink for
  ever, and no step of another call touches it: a frame keeps the children it collected.

**The contexts of a draft, one `update_draft` at a time** (`DraftContexts_serial_proofs`)

* `SerialInvariant` — adds what a removal under way has done: the draft is what it was
  when the done began, less some contexts (`AsBefore`); the stack is a path down from
  the context to close (`Chain`); and what is gone lies below it (`WithinSubtree`).
* `SerialImplementsTree` — `Spec => TreeSpec`: spawn and done are the atomic steps of
  `ContextTree`. The done maps to the last pop; the pops before it stutter, as the
  abstract tree is that of `before` until then.
* `SerialLiveUnderOpen`, `SerialFailedLeavesOpen` — from `BuilderInv`: every context in
  use has a builder of its own, and the only closed one is that of the done under way.
* `SerialParentsListed` — the counterpart of the finding: calls made one at a time never
  race.
* `TreeAlways` (`ContextTree_proofs`) — spawning leaves and removing subtrees keeps one
  acyclic tree under a permanent root.

`SerialImplementsTree`, `SerialLiveUnderOpen` and `SerialFailedLeavesOpen` need
`MaxDepth >= Cardinality(Ids)`: on a chain of contexts as long as the interpreter's
stack a done fails half way, having closed its builder. The others hold without it.

**Sessions** (`InteractiveSessions_proofs`)

* `SessionsTypeOK` — the type invariant.
* `ClosedHandles` — `ClosedMeansClosed`, under every interleaving. It is not
  inductive: a rollback may file any snapshot, and `MarkClosed` relies on the
  request before it. `ClosedInv` adds that no snapshot holds a handle as closed
  whose session is not, and that a call about to mark a handle has closed its
  session. It rests on sessions never reopening at KSeF.
* `NoClientLeaks` — `ClientsReleased`, from `ClientInv`: the client is open from
  before the unit of work until `CloseClient`, which every path reaches.
* `StoreAgreesWithKSeF` — `Agreement`, from `AgreementInv`: where handle and session
  differ, a call about that session is between the two steps, or has failed
  (`Explained`), and so in every snapshot that a call with nothing beside it would
  file (`SnapshotInv`).
* `ClosesStay` — `CloseStays`, which holds at rest and in between: `Exact` says that a call
  that none overlapped would file exactly the handles that are filed, `Stays` that a close
  past its `MarkClosed` has left its handle closed. It needs the previous invariant for the
  object that `MarkClosed` marks.
* `ListedAreOpenUntilRaced` — hence the finding `closed_listed` needs such a rollback.

**Calls to KSeF** (`AuthenticatedCalls_proofs`)

* `CallsTypeOK`, `CredentialsMatch` — the types of the calls, and `MatchedCredentials`.
  The types need a count: each factory was built by a call that is past the build
  (`Past`), so `1..Cardinality(Calls)` names them all. Matching rests on `Whole`: what
  a factory that was not torn has cached, and what its calls hold, is of one
  generation, which is the one on disk as long as the private key is missing.
  `FactoryOf` (the certificate is there before the key) and `CallOf` (which files a
  call holds, by where it is) make it inductive.
* `LoginsAreStable` — `StableLogin`, from `StableInv`: a call that met no other works on
  the factory its service keeps (`Solo`), and once it has logged in, the factory of
  that service has both files, for ever the same (`Serves`).
* `RefusedCallsDoNothing`, `OnlyPagesLetErrorsOut` — `RefusedWithoutEffect` and
  `ErrorsTranslated`, an action property, from one lemma (`Reported`) on the two
  translations composed.

**Downloads** (`InvoiceDownloads_proofs`)

* `DownloadsTypeOK`, `DownloadsComplete`, `DownloadsFresh`, `DownloadsLinkServed`,
  `DownloadsErrors` — all five properties of `InvoiceDownloads`, for any number of
  changes, rollbacks and restarts too, from one inductive invariant: every change made is
  in the stored draft or was undone (`Accounted`), so that what a link owes is built
  into it (`BuiltDue`); what a creation's state says of its file, what an artifact implies, and what a request that found its
  artifact may still expect.
* `NamesAreFileNames`, `FitNamesAreKept` — `NameIsFileName` and `FitNameIsKept` for
  requests of any length: one lemma for each line of `_normalize_file_name`. `Ranked`
  is the one that would want an induction (the positions a run of unsafe characters
  leaves are counted without a gap); it takes the least position that counts enough,
  by the well-foundedness of `<` on `Nat`.

The assumptions are those named in the modules: finite sets of keys and of context
ids, sessions and drafts apart, a sentinel that is none of the values. TLC evaluates
them in the runs. A theorem that assumes more says so: `Serial`, which is a client
that waits for each answer, and `MaxDepth` as above. TLC checked each inductive
invariant before it was proved, on instances as large as the runs' or larger:
`ConcurrentInv` on three calls with three keys and the batches of the runs.

**Only model-checked.** Liveness (`CallsEnd`, `UpdatesEnd`): fairness and `ENABLED` are
beyond the prover. That every step brings a call nearer to its end is proved; that a
call under way can always take one is left to TLC. The normalisation of schemas
(`NeverWidens`, `KeepsValues`, `OffersEveryLiteral`): `PayloadSchemas` is recursive over
schemas, and the prover has no theory of recursive operators.

## Not modelled

* The SQL adapters: nothing constructs them. `services/*` import the `fresh_uow` of
  `adapters/uow.py`, which returns the in-memory unit of work; the second
  `SqlAlchemyUnitOfWork` (`adapters/database/uow.py`) leaves a `with` block
  uncommitted where the first commits, and neither has a caller, so there is no
  behaviour of the program to be faithful to.
* The demo: a script that calls the draft runtime in one thread.
* Signatures and pydantic models (`get_method_payload_model`), parsing of arguments
  and of the environment: no shared state, and pydantic's work. A batch of
  operations is converted as a whole before any is applied, so a malformed one
  never begins.
* What builder methods do to an invoice, and the KSeF service: external. Hence no
  property covers a `call` whose result is refused after the method ran, or
  children of a closed context whose own `done` was never called: this code keeps
  no state that tells.
* A deep copy torn inside one draft, with a later change and without an earlier one (see
  `UnitOfWork`).
* The expiry of a session at KSeF, which the code does not ask about: a session is closed
  there by a request of a call only. `Agreement`, `ListedAreOpen` and `ClosedMeansClosed`
  are about closes that were asked for; a handle of a session that has expired stays open.
* Schemas beyond the instance of `functions`: `NeverWidens` and `KeepsValues` hold for
  fields of up to three options of the listed shapes that fit their field (`Fitting`). An
  entry of `$defs` with an option that normalisation drops is outside of it, and would not
  keep its values.
* `FailedLeavesOpen` with overlapping calls: a removal that another call disturbs does fail
  half way, after its builder was closed (`PopMissing`, `IterationFails` in
  `contexts_racing`). The property is checked and proved one call at a time, where the
  removal never comes to that.
* Exported files that no link names: nothing bounds or cleans them.

## Plan

Done: `ToolCalls`, `AtomicStore`, `UnitOfWork`, `ContextTree`, `DraftContexts`,
`InteractiveSessions`, because every stateful tool runs inside the unit of work;
then `AuthenticatedCalls`, `InvoiceDownloads`, `DownloadNames`, `PayloadSchemas`.

Every safety property of a passing run has its theorem, those of the schemas excepted;
what a finding refutes is proved for calls that do not race; and the safety half of both
liveness properties is proved. What the prover cannot reach is named under "Only
model-checked". To add next: the SQL unit of work, once the program constructs one.
