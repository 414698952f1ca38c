# The YP phonebook service in TLA+

YP is a Mochi component: a *provider* hosts phonebooks and answers RPCs, an
*admin* library creates, opens, closes, destroys and lists phonebooks, a
*client* library says hello to one and asks it for a sum. This directory holds
the specification of the service, the configurations that check it with TLC,
and the theorems proved about it with TLAPS. Paths below are relative to the
root of the repository.

## 1. Inventory

| component | state | operations | what makes it correct |
|---|---|---|---|
| provider (`src/provider.c`, `src/provider.h`) | hash of phonebooks, `num_phonebooks`, array of backends, token, RPC ids | register, register a backend, get the configuration, seven RPC handlers, finalize | memory and contexts are never used after their release, nor lost; counter and hash agree; requests are atomic to their callers; every request is answered; shutdown releases everything |
| backends (`src/dummy/dummy-backend.c`, `YP-backend.h`) | one context per phonebook | create, open, close, destroy, get_config, hello, sum | a context is released once, and not used afterwards |
| uthash (`src/uthash.h`, vendored) | per element two doubly linked lists; per table buckets with counts | add, find, delete, iterate, expand | an ordered table, whatever collides and whenever the buckets double |
| client (`src/client.c`) | RPC ids, count of handles; per handle an address and a reference count | init, finalize, create, ref_incr and release a handle, say_hello, compute_sum | a handle lives as long as it is referenced |
| admin (`src/admin.c`) | RPC ids | init, finalize, the five admin calls | what a call reports agrees with what happened at the provider, and with what other calls reported before |
| wire types (`src/types.h`) | none | encode and decode requests and responses | what is decoded is what was encoded |
| bedrock module (`src/bedrock-module.c`) | a provider handle | forwards to the provider and the client | none of its own |
| examples, tests, build | none | callers of the libraries | none of their own |

The components interact by RPC. Margo creates one user-level thread (ULT) per
request and runs it in the pool given to `YP_provider_register`. The handlers,
the application thread that registers and finalizes, and the backends share the
provider structure; nothing in the repository takes a lock. The hard behaviour
follows from that: where a thread can lose the processor decides which
interleavings exist, and the code is correct for some schedules only.

`margo_finalize` waits for the requests in progress before it calls
`YP_finalize_provider`; `YP_provider_destroy`, which bedrock uses, does not.

## 2. Modules

| module | what it is |
|---|---|
| `YPTypes` | return codes, requests and responses, `check_token` |
| `YPProvider` | the provider, in detail |
| `PhonebookRegistry` | the abstract specification a provider implements |
| `YPSystem` | admin and client calls over an unreliable Mercury, on top of `PhonebookRegistry` |
| `UtHash` | the macros of `uthash.h` that the provider uses |
| `OrderedTable` | the abstract specification `UtHash` implements, and `YPProvider` takes the hash for |
| `YPConfig` | `YP_provider_get_config` beside the provider |
| `YPBackends` | the array of backend implementations and its reallocation |
| `YPHandle` | the client's handles and their counters |
| `YPProviderInv`, `YPSystemInv`, `YPHandleInv`, `UtHashInv` | the inductive invariants |
| `SequenceLemmas` | induction over numbers and finite sets, and facts about sequences that the library lacks |
| `YPProviderProofs` | types of the provider, in every regime |
| `YPCoopProofs` | its safety under cooperative scheduling |
| `YPRegistryProofs` | what draining gives with one execution stream whose backends may block, and that the provider implements `PhonebookRegistry` there |
| `YPCounterProofs` | its counter and its lists when backends block or nobody drains |
| `YPSystemProofs` | what callers can rely on |
| `YPHandleProofs` | safety of handles |
| `UtHashProofs` | that the hash is sound and implements `OrderedTable` |
| `MCProvider`, `MCSystem`, `MCUtHash`, `MCHandle` | assumptions and symmetry for TLC |

The modules fit together by refinement: `UtHash` implements the ordered table
that `YPProvider` uses, `YPProvider` implements the registry that `YPSystem`
uses, and `YPSystem` states what is observed by the callers.

### YPProvider

State. `phonebooks` is the hash, as the sequence its iterators follow
(`HASH_ADD` appends, `HASH_DEL` removes in place); `num_phonebooks` is the field
of that name, a `size_t` that wraps at `SizeMax`. `struct` and `ctx` say of each
phonebook whether its `YP_phonebook` and its backend context are allocated or
released. Each handler has a label `pc`, its input `req`, the phonebook it holds
a pointer to (`pb`), the value of `num_phonebooks` it last loaded (`cnt`) and its
response `out`. The application thread has the label `app`, the entries of the
JSON configuration left (`todo`), and the variables `r` and `tmp` of
`remove_all_phonebooks` (`cur`, `nxt`).

Actions. Each handler is split at the calls where its thread may be suspended and,
so that unprotected access can be seen, between the load and the store of
`num_phonebooks += 1`. A handler starts by one of `CreateBegin`, `CloseBegin`,
`DestroyBegin`, `UseBegin`, `ListBegin` (or `Undecodable`, `NullCompared`,
`BadToken`, `Orphaned`), which do everything up to the first backend call; the
table in `PROJECT.json` gives the lines of each action. `Respond` stands for
`margo_respond` and the clean-up after it, which touches the handler's own data
only.

Undefined behaviour. A step that would use freed memory or a released context,
or give NULL to `strcmp`, sets `fault`, and the model stops there: nothing is
claimed about what follows. `OnlyNullStrings` states that the last of these is
the only one, and that it takes a request which carries a NULL string where the
provider compares one (`NullString`): a NULL token when the provider has one
(`provider.c:762`), or a NULL type that passes the token check (`provider.c:740`).
Such requests are part of the model: Mercury sends a NULL string as what it is,
and `examples/admin.c:50` passes NULL to any provider it is pointed at.

Scheduling. `YieldLabels` is the set of labels at which a thread may be
suspended while another runs; a thread takes a step only if all others are at
such labels. The three regimes are

- `BaseYields`: one execution stream and backends that never block (the dummy
  backend is one). A ULT is switched out when it is created, when it responds
  and when it ends.
- `BlockingYields`: one execution stream; a backend function may also block,
  before or after its effect.
- `AllLabels`: a switch anywhere between two steps, as with a pool served by
  several execution streams. This is less than those can do: `HASH_ADD`,
  `HASH_DEL` with the `free` after it, `HASH_FIND` and the `HASH_ITER` of list are
  single steps here, and the races inside these macros, which lock nothing, are
  left out. A violation found under `AllLabels` is one of the code (the lost
  update of `parallel_count` is between two steps); no property is claimed to
  hold there.

`DrainFirst` says whether the provider goes by `margo_finalize` (TRUE) or by
`YP_provider_destroy` while requests are in progress (FALSE).

Environment, each part used but not implemented in the repository:
`uuid_generate` gives an id that was never given before (`Fresh`), hence the
branch of `add_phonebook` for an existing id is not reachable; requests arrive
while the RPCs are registered; a deregistered RPC has no data, so that a handler
started late gets a NULL provider; allocation succeeds, and no memory holds
`SizeMax` phonebooks (`AddPhonebook`, `RegisterEntry`).

Of a backend (any that is registered, not the dummy alone) it is assumed that a
create or open that fails leaves no context behind, and nothing of a close or
destroy that fails: the context may be released all the same, or not (`Release`,
`"kept"`). The provider frees the phonebook in either case (`provider.c:716`,
`727`), and `destroy` does not even look at the result (`provider.c:529`), so that
a context kept is lost. `LossesExplained` says when that happens while in service,
`ContextsOwned` that no context is left open without a phonebook. Finalization
ignores the result of close too, and may lose the context of any phonebook it
removes.

Abstracted: configuration strings (their effect is the outcome the backend
chooses), the arguments and result of sum, the encoding of messages, logging
(except that a handler of create whose backend failed reads the Margo instance for
it from the provider, `BackendNewFails`). A backend's create or open fails with
one representative error, its close with another.

Registration and finalization. The errors of `YP_provider_register` that return
before any RPC is registered change no state and are not steps. An entry of the
configuration is one step: within registration the thread loses the processor
between entries only. That is exact under `BaseYields`, and coarser than the
code under the two other regimes, which no run here uses to claim that
registration is safe against concurrent requests.

### PhonebookRegistry

A table of ids in order of registration; requests are asked, take effect in one
step and are answered. Ids are never given twice; list answers with a prefix of
the table; the token error is given exactly to requests with another token; a
request with a NULL string where one is compared is never understood, and may get
no answer at all; a close or destroy removes the phonebook even if its backend
reports an error; shutdown begins when nobody waits, and empties the table from
the front. The refinement mapping (`Registry` in `YPProvider`) takes the hash for
the table and hands out an answer at the label where the request took effect: when
the phonebook enters the hash for create and open, when it leaves it for close and
destroy.

### YPSystem

One call of each caller: the functions of `admin.c` and the two calls of
`client.c`, each with its error paths. `call` is the input sent, `ret` the code
returned and `out` what was written to `*id` or `ids`; the registry's `asked` and
`answer` are what the provider received and decided. `Deliver` is separate from
sending, so that a call may fail (`ForwardFails`) before, while or after its
request is carried out, and a request may be delivered after its caller gave up.
`GetOutputFails` loses an answer. Nothing is sent twice: the libraries do not
retry. Nothing persists and nothing recovers either, so there is no restart to
model.

`reliable` is chosen at the start. If it is TRUE, Mercury only fails calls that
find no provider, and does not deliver what it failed; if FALSE, it fails any call
at any time, and may deliver its request later. `Down` says that the provider
was brought down by a request with a NULL string: what becomes of the calls then
waiting is left open. `past` is a history variable:
what had been returned to all callers when a call was made, so that answers can
be compared with what was known before.

A list that fails is special (`Undecodable`): the handler leaves `out.count`
uninitialised and the decoder copies that many ids, so that the caller gets
either an error of Mercury or, if the garbage is small, the code.

Assumed: callers pass a valid `id` pointer. The constant
`YP_PHONEBOOK_ID_IGNORE` of the documentation is NULL, and `admin.c:100` copies
to it; any successful call shows that, and no run is needed.

### UtHash and OrderedTable

`HASH_ADD`, `HASH_DEL` and `HASH_FIND` on explicit pointers: `head`, the table
with its buckets, and the `UT_hash_handle` of each element, with the prev/next
list of the application and the chain of its bucket. `HASH_EXPAND_BUCKETS` is
part of `HASH_ADD`, with the multiplier of crowded buckets and the inhibition
after two ineffective doublings (`noexpand`). The hash function is any function:
`HASH_ADD` is given any hash value. The model starts with one bucket and expands
above one element per bucket where the code has 32 and 10; both are parameters
of the same formulas. `Elem`, the phonebooks there ever are, is a finite set;
nothing else bounds it. Left out: sorting, selection, replacement and bloom
filters, which the provider does not compile in.

### YPConfig and YPBackends

`YPConfig` adds the report of `YP_provider_get_config`. `provider->phonebooks` is
the head of a linked hash, and the loop indexes it as an array: element 0 is the
oldest phonebook, what the other indexes yield is a nondeterministic choice
between any value and the end of the program. `YPBackends` tracks how many bytes
`add_backend_impl` requests and how many it writes; `MinChunk` and `ChunkStep`
are the usable sizes of glibc's allocator on a 64-bit machine. `YPProvider` takes
`backend_types` for the set of names registered so far, which is right for up to
three backends.

### YPHandle

The client library, as far as the life of its objects goes. `memory` and
`refcount` describe each handle, `num_phonebook_handles` the client's counter;
`target` holds the references the application has, each to a handle or to
nothing, and says nothing of which thread keeps it: threads may hand references
over. Each `+= 1` and `-= 1` is a load and a store. As in `YPProvider`,
`YieldLabels` decides the interleavings, and a use of freed memory sets `fault`.
With one execution stream (`OneStream`) only waiting for a response switches
threads, so a handle may be released while a call through it is in progress
(`CallStart`, `CallEnd`). A call needs a reference when it starts only.

`YP_client_finalize` warns of handles left, then frees the client, and the
application may call it at any time. A handle released afterwards uses the freed
client: `NoUseAfterFree` allows this use only after the warning, and no use of a
freed handle at all. What is assumed of the application: it passes valid
references, does not release one twice, and does not create a handle from a
client it finalized. `Ref` bounds the references at one time and `Handle` those
ever created; neither is a limit of the code, and both are any finite set in the
proofs, smaller than what a `uint64_t` counts.

Left out: addresses (a handle's is freed with it). The results of calls are in
`YPSystem`. On failure `YP_compute_sum` releases an output that it did not get
(`client.c:158`); what Mercury does with it is not modelled.

## 3. Runs

| run | regime | instance | shows |
|---|---|---|---|
| `coop` | base, drained, fair | 2 requests, 1 configured phonebook, 2 tokens and NULL, 1 backend type and NULL, lists of 0 to 2 ids | types; no undefined behaviour but `strcmp` of a NULL string; counter exact; the inductive invariant; implements `PhonebookRegistry`; every request is answered; registration and shutdown complete |
| `blocking_drained` | blocking, drained | 2 requests, 1 configured, 2 tokens and NULL, 2 backends and NULL | until a fault: counter exact; contexts and structures owned by registered phonebooks, and those lost explained; implements `PhonebookRegistry`; the inductive invariant of the drained provider |
| `blocking_undrained` | blocking, not drained | 2 requests, 1 configured, 1 token and NULL | the counter is never below the size of the hash; list stays in its array; their inductive invariant |
| `system` | any Mercury, fair | 2 callers, 2 ids, a provider without a token, a type and NULL, lists of 0 to 2 ids | `IdsUnique`, `RemovedOnce`, `GoneStaysGone`, `MadeIsThere`, `OrphansExplained`, their inductive invariant; over a reliable Mercury every call returns, unless the provider is down |
| `hash_sound` | sequential | 5 elements, hash values 0, 1 and 4, up to 32 buckets | both lists and the counts sound; find exact; the inductive invariant; implements `OrderedTable` |
| `handle_safety` | one stream, client finalized at any time | 3 threads, 3 handles, 4 references | no use after free but the one that was warned of; both counters exact; the inductive invariant |
| `handle_parallel` | parallel | 2 threads, 2 handles, 3 references | violation: a lost update of `refcount` |
| `parallel_count` | parallel | 2 requests | violation: a lost update of `num_phonebooks` |
| `blocking_close` | blocking | 2 requests, 1 configured | violation: close called on a destroyed context |
| `config_faithful` | base | 2 configured | violation: the configuration reported is not the provider's |
| `backends_fit` | sequential | 6 backends | violation: the fourth backend is stored out of bounds |
| `list_token` | reliable Mercury | 1 caller, right and wrong token | violation: a refused list is reported as an error of Mercury |

Deadlock is checked everywhere but in `backends_fit`, where the application
stops registering; a finished or halted model stutters by `Ended` and `Halted`.

Bounds. Two requests beside a configured phonebook and the application thread
suffice for each race found, and give `coop` every pair of operations; what three
and more requests do is covered by the proofs. There is an id for every request
and configured phonebook, as `EnoughIds` demands, since otherwise a create would
wait. Two phonebooks and lists of 0, 1 and 2 ids distinguish truncation from
padding; `SizeMax = 4` is above every count reached, so that a wrap shows. In
`system` two callers are one that removes or makes and one that is told later; the
proofs take any number. Its provider has no token, so that a refusal is one of
backend, configuration or Mercury: the tokens are in `coop` and in the proofs. In
`hash_sound` five elements and the three hash values, of which 0 and 4 collide
until there are eight buckets, reach five doublings and `noexpand`. The safety
runs use symmetry where the instance has any; runs with a liveness property do
not. For the handles, three threads are one that calls, one that releases and one
that creates; four references let two handles be shared at once; `CountMax = 7`
shows a wrap.

Fairness. `FairSpec` of `YPProvider` asks for weak fairness of each handler and of
the application once it registers or finalizes: Argobots pools are first in first
out, and a ULT that responded or yielded is put back. A request need not arrive,
and nothing obliges the application to shut down. `EveryRequestEnds` asks for
`margo_respond`, not merely for the end of the handler, and excepts hello, which
has no response, and a provider halted by a NULL string. `FairSpec` of `YPSystem`
asks for weak fairness of the delivery of a request, of its handling (what
`EveryRequestEnds` shows of the provider, hence not while it is `Down`) and of the
return of a call that can return. The calls have no timeout, so this justifies
`AllReturn` for a reliable Mercury only, one that reports a call it cannot
deliver; of an unreliable one nothing is claimed but safety.

Each property of a passing run has a seeded defect, the operator `...Mutant`
before the action it replaces, under which the run fails: a counter not
updated, a way out that does not answer, an error returned too early, an
iteration that uses what it freed, a failure taken for a success, a chain left
half linked.

### Disagreements found

1. `num_phonebooks` (`provider.h:31`, "number of phonebooks") is not that with
   several execution streams (`provider.c:698`, `717`).
2. A phonebook being destroyed can be closed (`provider.c:529-533`), if the
   backend's destroy function blocks.
3. `YP_provider_get_config` (`provider.c:277`) reports memory that is not a
   phonebook as soon as there are two.
4. `add_backend_impl` (`provider.c:751`) allocates bytes for pointers.
5. `YP_phonebook_handle_ref_incr` (`client.c:82`) loses increments when threads of
   several execution streams share a handle; `num_phonebook_handles`
   (`client.c:71`) is shared even by threads that share no handle.
6. A list refused for its token is not reported as such: `out.count` is
   uninitialised when the handler answers (`provider.c:577`), the decoder reads as
   many ids (`types.h:70`), and the caller may get `YP_ERR_FROM_MERCURY`. The run
   shows it for a wrong token, over a Mercury that loses nothing.

Seen while reading, and not the subject of a run: a NULL token given to a
provider that has one, or a NULL type, reaches `strcmp` (`provider.c:762`, `740`;
`coop` reaches both, and `OnlyNullStrings` says that nothing else is reached);
destroy answers `YP_SUCCESS` even if the backend's destroy failed
(`provider.c:529`), and its context is then lost; the id copied through NULL
(`admin.c:100`, above); the sum of two `int32_t` that is none
(`dummy-backend.c:118`); the provider handle of the bedrock module destroyed
through a field never set (`bedrock-module.c:80`); the output that
`YP_compute_sum` frees without having got it (`client.c:158`).

## 4. Proofs

`TypeCorrect` holds of `Spec` in every regime. `TypeOK` alone is not inductive: what
`add_phonebook` appends must be an id, and what list truncates must be a list
request. `Bound` adds both, and `TInv == TypeOK /\ Bound` is inductive.

`CoopInvariant`, `CoopOnlyNullStrings` and `CoopCountExact` assume
`Cooperative` (the base regime, drained) and hold for any number of requests,
phonebooks, backends and tokens. `IInv` has these parts:

- `Alone`: at most one thread is away from a `BaseYields` label;
- `Drained`: handlers are at work only while the provider is in service;
- `Table`: the hash is no larger than its counter can say, and `Stored`: ids in
  it are distinct, and a structure is allocated exactly while it is there, except
  the one the finalizer holds;
- `Contexts`: a context is open exactly while its phonebook is in the hash,
  except the one a handler is adding or removing, or the finalizer is closing;
- `Holding`: what each label says of the phonebook held;
- `Counted`: the counter is off by one between the change of the hash and the
  store, and what was loaded is still current;
- `Cursor`: `AtFront`, the finalizer stands on the first phonebook, and its
  successor is the second; and the context it is about to close is open;
- `OnlyNullStrings` itself: each step's use of memory and contexts is justified by
  the other parts, `NullCompared` being the one step that can set `fault`.

Without `Alone` the others are not preserved, which is what the violations of
the other regimes show. The step of a handler `u` is proved on `Local(u)`, the
invariant read with all other handlers at rest (`Localize`, `Globalize`); the step
of the application on `Calm`, with all of them at rest. `FindAppended` and
`FindUnlinked` say how the two updates of the hash change what is found in it.

These proofs rest on `VocabularyAssumption` and `ProviderAssumption` only.

`CoopNeverClosesDestroyed` completes the picture of `blocking_close`: the action
property that this run shows to fail holds when no backend blocks. No passing run
checks it, since in the cooperative regime it adds nothing to `OnlyNullStrings`.

`DrainedInvariant`, `DrainedContextsOwned` and `DrainedLossesExplained` ask for
less: they assume `DrainFirst` and `OneStream`, so that backends may block. `DInv`
says that no handler meets a NULL or a freed provider, since none outlives it
(`Drained`); that memory and hash agree (`Stored`), and contexts and hash
(`Contexts`), but for what a handler or the finalizer has in hand; that the
finalizer stays at the front (`AtFront`); that no two handlers are about to add
the same phonebook (`Unborn`); that a handler which adds a phonebook holds its
open context, and one past the backend's close or destroy a context that is no
longer open (`Held`); that a context kept has its close or destroy to blame
(`Losses`); and, in `LInv`, which request each handler is in the middle of and
what its response is. `Held` is what makes `Contexts` inductive: whoever unlinks a
phonebook finds its context released or kept, never open. The counter needs more,
below. The derivation does not use `OneStream`: the steps of the model preserve
`DInv` under any `YieldLabels`. But with several execution streams the macros of
the hash are not the single steps of the model, and the theorem would say nothing
of the code; the assumption keeps it to the schedulers for which the model is
faithful.

`CoopImplementsRegistry` and `BlockingImplementsRegistry` are the refinement,
`Spec => ImplementsRegistry`, for the two drained regimes of one execution
stream. The steps are proved on `DInv`. Every step of a handler that changes
nothing the registry sees is a stutter (`Hidden`), the steps that end in a fault
among them, and each of the others is one action of the registry: the lookup that
fails is `NotFound`, the append is `Admit`, the unlink is `Drop`, the copy of the
list is `Enumerate`. The application's `FinUnlink` is `Expire`, because `AtFront`
keeps the finalizer at the front. The counter matters to list alone: it has to be
the size of the hash when the ids are copied (`Sized`). `SizedImplements` is the
refinement for any scheduler under which that holds; `IInv` supplies it under
`Cooperative`, and `CInv` (below) under `OneStream` and `Countable`. With
several execution streams it fails, as `parallel_count` shows of the counter. In
the blocking regime the claim ends with the first fault, where the model stops.
These proofs and those of `YPSystem` use `NullAssumption` as well: NULL is none of
the values it is compared with.

`CounterInvariant`, `CountNeverShortThm`, `ListExactThm` and `BlockingCountExact`
do without `Cooperative`. They assume `Uninterrupted`, that the load and the store
of the counter are not separated by a switch of threads, which both regimes of
one execution stream satisfy, drained or not; and `Countable`, that there are no
more ids than a `size_t` counts. `CInv` bounds the counter from both sides
(`Tally`): from below by the hash, from above by the ids ever registered, since
an increment must not wrap. In service the lower bound is an equality; during
finalization, which does not count what it removes, only the inequality remains.
`Steady` says that what was loaded is current, `Newborn` that a phonebook about to
be added was never registered. Other undefined behaviour may have been met: the
theorems say that the counter is not its cause.

`SystemTypes`, `SystemInvariant`, `SystemIdsUnique`, `SystemRemovedOnce`,
`SystemGoneStaysGone`, `SystemMadeIsThere` and `SystemOrphansExplained` hold for
any number of callers (the last for finitely many, as it counts them), of ids and
of tokens, and for any Mercury. In `SInv`, `Sent` says that the provider is asked
what was sent, `Told` that a call returns the provider's answer or an error of
Mercury, `Admissions` and `Drops` that each phonebook was added and removed by one
request at most. `Lasting` is the fact that needs the history: a phonebook leaves
the table only on request or when the provider closes. `KnowsGone` and `KnowsMade`
state the two properties at the moment the provider answers rather than when the
call returns, which is what makes them inductive: answers arrive late, and in any
order.

`HandleInvariant`, `HandleSafe`, `HandleCounts` and `ClientCounts` assume
`SingleStream` and `HandleAssumption`, and hold for any number of threads,
handles and references, and for a client finalized at any time. `HInv` adds to the
properties what each label says of the handle in hand and of the counter loaded
(`Working`), that one thread at most is inside an operation (`Alone`), and that a
client freed without a warning leaves no reference (`Finalized`). The argument is
the same: `Localize` to the thread that moves, one lemma for each operation,
`Globalize`; `ReferenceTaken`, `ReferenceDropped`, `HandleBorn` and `HandleFreed` say
how the sets that the counters count change.

`HashInvariant`, `HashTypes`, `HashListSound`, `HashChainsSound`, `HashFinds` and
`HashIsTable` are all that `hash_sound` checks. They assume `HashAssumption` only:
any finite set of elements, any hash values, any thresholds, and an initial number
of buckets that is a power of two. The invariants of the run follow links; the
inductive one, `HashInv`, says which sequences the links spell:

- `ListLinked`: the list of the application, from `head` to its end, in both
  directions;
- `ChainLinked`: the chain of each bucket likewise, as long as the bucket's count;
- `Placed`: an element is in the chain of the bucket its hash value selects
  exactly while it is in the list, and in no other;
- `Woven`, which puts these together with `num_items` and `tail`.

`FollowPath` turns links into a sequence: following them returns the list they
spell. `LinkFirst`, `LinkLast` and `Unlink` say what the pointer assignments do to
such a list, `LinksKept` that the others are not touched; `Made`, `Added` and
`Removed` are the operations. `HASH_EXPAND_BUCKETS` visits the elements of every
chain: `Relinks` is one of these moves, `NewChainsHold` the whole of them, `Doubled`
the result. `SumOfSizes` gives the counts their sum. Induction is available here
because `SetInduction` takes a set of numbers and not an operator, which the
provers can instantiate; `Follow`, the folds and the multiplier are recursive
functions, and what they compute is proved with it. The code masks a hash value
with `num_buckets - 1` where the model takes the remainder; the number of buckets
starts as a power of two and is only ever doubled, so that these are the same.

Model-checked and not proved: liveness (`EveryRequestEnds`, `ThreadsComplete`,
`AllReturn`), which rests on fairness and so on ENABLED, out of the prover's reach.
Every other property of a passing run is a theorem. `YPConfig` and `YPBackends`
have none, since what their runs ask is false.

## 5. Not modelled, and what is left

- Registration at the grain of the backend calls. Under the base regime an
  entry of the configuration is one step of the code; with blocking backends a
  request could arrive in the middle of one.
- Two backends' contexts in one table, each with its own failures, beyond the
  one representative error each.
- The dummy backend's parsing and printing of JSON, and its 32-bit sum: pure
  functions of one call, without state.
- The bedrock module, which forwards its calls and keeps one provider handle.
- The hash function `HASH_JEN`, and the macros of `uthash.h` that are not used.
- Failed allocations: the provider does not test for them, and uthash exits.
- Mercury and Argobots themselves, which are the environment; examples, tests and
  build files, which are callers and descriptions.
