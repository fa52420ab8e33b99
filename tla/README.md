# PyroFlow: models and proofs

PyroFlow adds to Pyrogram what a conversational bot needs: waiting for a
particular update (`listen`, `ask`), processing each update once when several
sessions run one bot, a history of the handlers that ran, and publishing the
bot's commands. All of it is asyncio code, in several processes that share a
Redis server, and what makes it correct is the order of things across awaits,
tasks, threads, processes and timers. That is what these modules model.

- [The system](#the-system)
- [The modules](#the-modules)
- [How the code is modelled](#how-the-code-is-modelled)
- [The runs](#the-runs)
- [Fairness](#fairness)
- [What is proved](#what-is-proved)
- [Where the code does something else](#where-the-code-does-something-else)
- [What is not modelled](#what-is-not-modelled)
- [Plan](#plan)

A run is repeated with `tlc -config <run>.cfg <module>.tla`, a proof with
`tlapm <module>.tla`. `PROJECT.json` lists the runs, the source lines of every
definition, the hazards, and for each property a mutant of the code that
breaks it.

## The system

One update takes this way through a session:

    Telegram -> queue -> handler_worker -> handle_update       lock, ask the registry
                                             -> handle_listen   a listener takes it, or
                                             -> _handle_update  the handlers run
                                                  -> record_many
                                             <- settle          register, unlock

A handler that asks waits inside `_handle_update` for an update that has to take
the same way.

| Component | State | Operations | Hard |
|---|---|---|---|
| `UpdateListener` | `listeners`: key to listener with a future | `listen`, `resolve`, `cancel`, `stop`, done-callback | timeouts, aborted tasks and takeovers between any two awaits |
| listener coordinators | key to ownership token, tokens owned, chat locks | `register`, `registered`, `unregister`, `cancel`, `lock` | several sessions; signals late or lost; locks expire; sessions die |
| `ListenerKey` | none | `sub_keys` | order and lower bound of the candidates |
| update coordination (`handle_update`, `_CoordinatedRelease`) | settled or not, early claim | `settle`, `mark_handled`, `claim_early` | duplicates in two sessions; settlement early, from threads |
| update coordinators | lock per scope, registry of handled ids | `lock`, `is_handled`, `mark_handled` | blocking timeout, expiry, forgetting |
| handler pipeline | groups of handlers | `handle_listen`, `_handle_update` | the six ways a handler can end |
| update history and its memory store | a heap of records per key, TTL and LRU | `record_many`, `get`, `pop`, `clear` | two clocks, eviction, concurrent batches |
| message and callback listeners | the cached list of bot commands | `_is_bypass`, `_get_bot_commands`, `on_unresolved`, `stop` | Telegram is asked under one chat's lock while the others go on; a button cancels by key |
| dispatcher | its parts, queue and workers; `is_started` | `start`, `stop`, `register_*`, `unregister_*`, `handler_worker` | workers wait in handlers for updates that need a worker and a lock |
| `Client.ask` | error handlers | `ask`, `register_ask_error_handler` | the message is out before the listener is there |
| `BotCommandsMixin` | `bot_command_groups` and its lock | `add_handler`, `remove_handler`, `push_bot_commands`, `start`, `stop` | bookkeeping tasks and workers share locks |

Components call each other, except that a session tells the others of a
cancelled listener with a Redis message, and that the sessions meet in the
locks, tokens and ids they keep in Redis.

What makes each of them correct, in a sentence:

- *Listeners.* An update goes to the one listener that owns its key, the most
  specific one; who lost its key is told; nothing stays registered.
- *Coordination.* An update is handled by one session; its scope is locked
  exactly while it is; a settlement, once claimed, sticks; every delivery ends.
- *History.* A key holds the newest records that are still valid, and only of
  handlers that returned; a record is popped once.
- *Commands.* What is collected is what the registered handlers declare, and
  what a push sends; nobody waits for ever.
- *Message listener.* The preferred match gets a message; Telegram is asked for
  the commands a bounded number of times; a button ends the ask it belongs to.
- *Dispatcher.* An answer reaches the handler that waits for it; `stop()` ends
  and leaves nothing that keeps its peers from a scope or a key.
- *ask.* A call that is over has given its key back, the right error handler
  has run, and the listeners were used as their contract allows.

## The modules

| Module | Models |
|---|---|
| `ListenerKeys` | `ListenerKey.sub_keys()` (`models.py`): the plan of combinations, as pure operators |
| `ListenerSlots` | the contract of `listen()`: slots with one owner, no sessions, locks or signals |
| `UpdateListener` | `UpdateListener` with the Redis or memory coordinator, in several sessions |
| `UpdateListenerSlots` | the refinement mapping from `UpdateListener` to `ListenerSlots` |
| `MessageListener` | `MessageListener` and `CallbackQueryListener` of one session: commands that bypass, buttons that cancel |
| `ProcessOnce` | the contract of coordination: scopes with one holder, ids registered once |
| `UpdateCoordination` | `handle_update()`, `_CoordinatedRelease`, the coordinators, `handler_worker` |
| `UpdateCoordinationOnce` | the refinement mapping from `UpdateCoordination` to `ProcessOnce` |
| `UpdateHistory` | `handle_listen()`, `_handle_update()`, `UpdateHistory` and `MemoryUpdateHistoryStore` |
| `Dispatcher` | start, stop, registration and the worker pool, on top of both contracts |
| `BotCommands` | `BotCommandsMixin` with Pyrogram's registration tasks and the workers' locks |
| `Ask` | `Client.ask()` on top of `ListenerSlots` |
| `UpdateListener_proofs` | types, ownership, delivery by the owner; what is returned and left behind; signals; the refinement; the search; `stop()` |
| `ProcessOnce_proofs` | what the contract of coordination gives |
| `UpdateCoordination_proofs` | types, exclusion, settlement; one delivery of an update is handled; the refinement |
| `UpdateHistory_proofs` | what a batch holds; what the store keeps, answers and gives away |
| `MessageListener_proofs` | what `sub_keys()` lists; the search; how often Telegram is asked |
| `BotCommands_proofs` | who holds the locks; what the collection is; what a push sends and has sent |
| `Dispatcher_proofs` | the worker pool; one delivery is taken; what a stop leaves; the contracts |
| `Ask_proofs` | types, keys given back, error handlers, the contract kept |
| `MC...` | the constants of the runs |

The modules compose through contracts. `UpdateListener` is shown to implement
`ListenerSlots` and `UpdateCoordination` to implement `ProcessOnce`; the actions
of `Ask` take steps of the first, those of `Dispatcher` steps of both.

The correspondence of state and code:

| Model | Code |
|---|---|
| `local[s][k]` | `UpdateListener.listeners` of a session |
| `registry[k]`, `owned[s][k]`, `issued` | the token stored in Redis, `_owned_registrations`, the counter |
| `lock[ch]` | `coordinator.lock(chat_id)` |
| `signals`, `unsent` | messages on the cancel channel, published and not applied; cancellations whose registration is deleted and whose message is not published yet |
| `phase[s]` | how far `stop()` is: cancelling, inside `coordinator.stop()` before and after the bulk unregister, down |
| `token[c]`, `fut[c]` | `listener.coordinator_id`, `listener.future` |
| `rung[u]`, `cand[u]`, `saw[u]` | position in `sub_keys()`, the listener found, what `registered()` returned |
| `Policy[s]` | `duplicate_policy` of a session's listener |
| `early[d]`, `settled[d]`, `known[d]` | `_early`, `_released`, `update_id` of `_CoordinatedRelease` |
| `kept` | the deliveries whose lock the backend failed to release |
| `handled` | the registry of update ids |
| `IdOf[u]` | what `extract_update_id()` returns: an edit can carry the id of its message |
| `holder`, `registered`, `stage[d]` | lock, registry and progress of a delivery in `ProcessOnce` |
| `owner[k]`, `slot[c]`, `result[c]` | whose key it is, what a call waits for and what it got in `ListenerSlots` |
| `life[s]`, `parts[s]`, `sweep[s]` | `is_started` and how far `stop()` is; what is registered; what the listener's `stop()` has still to cancel |
| `Dispatcher!queue[s]`, `ended[s]` | `updates_queue` with its sentinels, the workers that took one |
| `cache`, `fetches` | `_bot_commands_cache`, and how often Telegram was asked since it was empty |
| `store` | `histories`: order of use, time of expiry and heap of each key |
| `records[u]` | the batch of `_handle_update()` |
| `BotCommands!queue[l]` | holder and waiters of an `asyncio.Lock`, in order |
| `groups`, `collected` | `dispatcher.groups`, `bot_command_groups` |
| `published` | what Telegram shows |

Each definition is mapped to its lines in `PROJECT.json`.

## How the code is modelled

**Granularity.** Between two awaits a coroutine runs alone in its event loop,
so an action is one stretch of code from an await to the next. What a call to
Redis or Telegram returns is acted on in a later action. The coordinator's
`cancel()` is two calls, one that deletes the registration and one that publishes
the signal, and so two actions, whoever makes them: `listen()` that replaces,
`resolve()` that bypasses, `cancel()`, `stop()`. Between them the chat lock is
held, by a member of `Proc` or by the cancellation itself. `stop()` is taken apart
likewise: a cancel for each listener it found, the end of the subscription, the
bulk unregister, and the `finally` that forgets what was owned. Two short critical
sections with a single coordinator call in them (the `finally` of `listen()`, the
application of a signal) are one action each, enabled when the lock is free. A
thread that calls `mark_handled()` has its check and its assignment in two actions.

**Environment.** `Env` names what may happen beyond the code's own steps:
timeouts, aborted tasks, crashes, lost signals, expiring locks, busy workers,
failing calls. A run allows what its properties are meant to survive. A lock
whose holder is dead, or failed to release it, may always expire.

**Data.** Keys, updates, handlers, commands and scopes are model values; the
predicates the user supplies (`is_listenable`, filters, `is_bypass`,
`is_recordable`, `extract_key`) are choices of the environment or constants. A
token is the number of its registration.

**Locks.** In `BotCommands` an `asyncio.Lock` is the sequence of the tasks that
asked for it, first in first out, because the code relies on that order. In
the other modules any waiter may get a free lock, which allows more.

**Simplifications, per module.**

- `UpdateListener`: each call of `listen()` and each update is used once. The
  Redis scripts are atomic, as Redis runs them. `on_unresolved()` is the
  default. The memory coordinator is the one-session case of the same actions,
  but for a `stop()` of its own. The keys and ids that `stop()` reads before the
  bulk unregister are read in the step in which Redis runs it: what is registered
  in between is left alone either way, and what was withdrawn is not there.
- `UpdateCoordination`: one process per delivery. `settle()` is taken apart as
  far as a thread can come between its steps, and no further. With `"error"` every
  call of the backend may fail, the release of the lock included, which the code
  swallows: the lock then stays until its TTL.
- `MessageListener`: one session, so a local listener owns its key, and no
  `listen()` begins while the listener stops. Which command a message is by its
  form, which key an update has and what Telegram lists are constants.
- `UpdateHistory`: a record is made and stored in one stretch, so a heap
  ordered by creation is a sequence and its least element the head: what has
  expired is what comes before the first record that has not. The TTL
  cache and the records read one clock. When `is_recordable` is false, `get()`,
  `pop()` and `clear()` do nothing, so no action stands for it. A handler that
  calls `record()` itself does so once, with `RecordOwn`.
- `BotCommands`: the handlers of a group are a set, and no handler is in two
  groups. The two tasks of a registration get their first turns together, as
  they are created together. One start and one stop.
- `Dispatcher`: coordination and listeners do at once what their contracts
  allow, without the errors and expiries those leave out. `stop()` of a
  coordinated clears a memory registry (`StopRegistry`); the other `start()` and
  `stop()` of coordinateds and histories do nothing the model tells apart. A memory
  registry is of one session. An answer that nobody waits for may find a handler or
  none.
- `Ask`: several workers handle the updates of a conversation, so a later one
  may overtake. A call is one listener of `ListenerSlots`. That the chat of the
  message has to be looked up, and may not be found, is `FindChat`, `FindChatFails`.

**Mutants.** A definition introduced by `\* Mutant:` is not part of a
specification. It is the definition after it with a plausible bug in it (a
check dropped, a step forgotten, an order reversed), and stands there to show
what a property catches.

## The runs

| Run | Instance | States | What it shows |
|---|---|---|---|
| `listener_takeover` | 2 sessions, Redis, REPLACE; 2 calls, 1 update, one key; cancel, bypass, abort, stop and restart, signals lost, a bulk unregister that fails | 960,000 | who resolves owns the key; the locks and dicts agree with the registry; who is cancelled had lost its key; a call that ended is not registered; the sweep of `stop()` withdraws every listener that waits in its session |
| `listener_slots` | 2 sessions, one with REPLACE, one with REJECT; crashes, late timers, tasks aborted at any await, locks given up | 103,000 | the refinement of `ListenerSlots`; a superseded listener is told, has a signal on its way, or one that is yet to be published; two wait for a key only if one replaced the other; an update that was delivered is returned, unless a timer or a cancellation of the task that comes late overrides it |
| `listener_ladder` | 1 session, memory; 2 calls, keys (chat) and (chat, user), 1 update; timeout, stop | 43,000 | the most specific listener gets the update, UnresolvedUpdate means that nobody waits, `listen()` and `resolve()` end |
| `messages` | 2 chats, 3 asks for different keys, a command, an answer, a button; 2 lifetimes; refused lists | 170,000 | the search ends at the preferred match, by a definition without plans and masks; Telegram is asked once per chat at most; the ask a button was found to belong to ends |
| `swallowed_update` | 1 session | violation | see [below](#where-the-code-does-something-else) |
| `coordinated` | 2 sessions with 2 workers, 2 updates of one scope; handlers that raise or claim, waiters that give up | 660,000 | the refinement of `ProcessOnce`; one delivery of an update is handled; every end has settled as it was claimed early or else as it demands, and has given its lock back |
| `coordinated_faults` | 2 sessions, 1 update; crashes, a backend that fails at any call, listeners, forgetting, threads that claim | 400,000 | the lock is held exactly in the critical part, or after a release that failed; every delivery ends |
| `dispatch` | 2 sessions with 2 workers, Redis, a conversation of 2 updates in one scope; one session starts, stops and loses its listener, the other its coordinated | 99,000 | a coordinated update is taken in one session; the answer gets through; `stop()` and every queued update end; a dispatcher that is down holds nothing |
| `commands` | 2 handlers with a command in common, 2 workers, 4 registrations, a push | 22,000 | the collection is what the handlers declare; it is stable while a push sends it; a push publishes all of it |
| `commands_busy` | 1 worker that gets busy, 2 registrations, cancelled bookkeeping, refused calls, stop | 36,000 | handlers change only while nobody runs one; no command of a handler that is gone is sent; publishers and bookkeeping end |
| `history` | 2 updates, 2 keys and room for 1, 2 groups, list length 2, one handler that records, a clock | 450,000 | a key holds the newest records; answers are not expired; a record is popped once; a batch is what returned |
| `ask` | 2 calls on one key, 2 updates; timeout, abort, cancel, refused messages, chats not found, handlers changed | 112,000 | the key is given back; whose error handler runs; the steps are those of `ListenerSlots` |

**Bounds.** Two sessions, two calls and one update make every pair of actors
meet: one that registers, one that takes over, one that resolves, with either
policy on either side. Two deliveries of one update make a duplicate, two
updates of one scope make a waiter. Three asks whose keys match one message in
different components, and a second chat, make every rule of the search and two
chats that fetch at once. An opening and an answer in two sessions make a
conversation a peer also sees; with two workers one of them can wait. Two
handlers with a common command make a count that must be more than a set. In
`history` room for one key and lists of two make eviction and trimming happen,
and a clock with a ttl of one tick makes records expire between any two steps.
`MaxToken` only bounds the signals fairness quantifies over; no guard mentions it,
and with the memory coordinator, which has no signals, it is 0.
`MaxCalls`, `MaxTime`, `Starts` and `Lives` bound the registrations, the clock
and the starts, `Groups` the handlers of one delivery. Sessions, calls and
updates are symmetric where a run has no liveness property.

What the proofs show for every value of the constants is checked here only to
find out cheaply whether it holds; the theorems are
[below](#what-is-proved).

**Deadlock** is not checked: each call, update and delivery is used at most
once, so an instance stops when all of them are over. That nobody is stuck
before is what the liveness properties say.

## Fairness

- A coroutine, task or callback that is ready is run by its event loop: weak
  fairness of its step.
- `asyncio.Lock` is first in first out. Where a lock is not modelled as a queue,
  a waiter has strong fairness: a lock that is free again and again is got. A
  Redis lock polls, so there it is an assumption that the waiter is not
  unlucky for ever.
- A timer fires, in runs where `listen()` has a timeout.
- A published signal that is not lost is applied. In `Dispatcher` that is
  `Superseded`, and a timer of a handler that has one is `Timeout`.
- The workers take what is queued, and each step of a stop that has begun is
  made (`Take`, `Work`, `SettleStep`, `StopStep`). A handler that listens without
  a timeout may wait for ever; `StopEnds` and `UpdateEnds` say so.
- The lock of a dead session expires, and so does one whose release failed: it has
  a TTL. A cancellation that was begun is published, unless its session dies or its
  task is aborted.
- A handler ends, and Telegram answers or refuses (`UpdateCoordination`,
  `BotCommands`, `MessageListener`). Without that a user's handler can of course block a scope.

Registrations, pushes, messages, starts, crashes, aborts and stops are never
fair: they may not happen.

## What is proved

TLAPS checks these for every value of the constants that satisfies the module's
`ConstantsAssumption`; nothing is assumed besides what the second column says.

| Theorem | Assuming | Says |
|---|---|---|
| `UpdateListener_proofs!TypeCorrect` | | `Spec => []TypeOK` |
| `UpdateListener_proofs!Ownership` | no `"expire"` | `Spec => []OwnershipInv` |
| `UpdateListener_proofs!DeliveryByOwner` | no `"expire"` | `Spec => ResolvedByOwner` |
| `UpdateListener_proofs!Returned` | | `Spec => []DeliveredIsReturned` |
| `UpdateListener_proofs!NothingLeaks` | `CleansUp`, `TokensAreFresh` | `Spec => []NoLeakedRegistration` |
| `UpdateListener_proofs!CancelledByRight` | no `"expire"`, `TokensAreFresh` | `Spec => CancelledOnlyIfInvalidated` |
| `UpdateListener_proofs!Told` | `Undisturbed`, no `"lose"`, Redis | `Spec => []SupersededIsTold` |
| `UpdateListener_proofs!OnePerKey` | `Undisturbed`, no `"cancel"` | `Spec => []OneListenerPerKey` |
| `UpdateListener_proofs!SlotsImplemented` | `Undisturbed` | `Spec => ImplementsSlots` |
| `UpdateListener_proofs!MostSpecific` | no `"expire"` | `Spec => DeliveredToMostSpecific` |
| `UpdateListener_proofs!Unresolved` | no `"expire"`, no `"bypass"`, `TokensAreFresh` | `Spec => UnresolvedMeansNobodyWaits` |
| `UpdateListener_proofs!StoppedIsWithdrawn` | no `"expire"`, Redis | `Spec => StopLeavesNothing` |
| `UpdateCoordination_proofs!TypeCorrect` | | `Spec => []TypeOK` |
| `UpdateCoordination_proofs!Exclusion` | no `"expire"` | `Spec => []LockIffCritical` |
| `UpdateCoordination_proofs!Settlement` | no `"thread"` | `Spec => []EndsSettled` |
| `UpdateCoordination_proofs!HandledByOne` | `Reliable`, `IdsKeepScope` | `Spec => []HandledOnce` |
| `UpdateCoordination_proofs!Implementation` | `Reliable`, `IdsKeepScope` | `Spec => ImplementsOnce` |
| `ProcessOnce_proofs!Exclusion` | `SomeDeliveries` | `Spec => []OneInside` |
| `ProcessOnce_proofs!ProcessedIsNew` | `SomeDeliveries`, `IdsShareScope` | `Spec => []ProcessingIsNew` |
| `Ask_proofs!TypeCorrect` | | `Spec => []TypeOK` |
| `Ask_proofs!Released` | | `Spec => []OverIsReleased` |
| `Ask_proofs!HandlersInOrder` | | `Spec => []CallHandlersFirst` |
| `Ask_proofs!Contract` | | `Spec => KeepsContract` |
| `UpdateHistory_proofs!WholeBatch` | | `Spec => []BatchIsWhatReturned` |
| `UpdateHistory_proofs!NewestKept` | | `Spec => []HeldIsNewest` |
| `UpdateHistory_proofs!FreshAnswers` | | `Spec => AnswersAreFresh` |
| `UpdateHistory_proofs!PoppedForGood` | | `Spec => PoppedOnce` |
| `MessageListener_proofs!SubKeys` | | the sequence `sub_keys()` gives is the keys that match, each of them, the preferred first |
| `MessageListener_proofs!SoundSearch` | | `Spec => SearchIsSound` |
| `MessageListener_proofs!FewFetches` | | `Spec => []FetchesAreFew` |
| `BotCommands_proofs!Stable` | | `Spec => HandlersAreStable` |
| `BotCommands_proofs!SentDeclared` | | `Spec => SentIsDeclared` |
| `BotCommands_proofs!KeptToItself` | no `"stop"` | `Spec => CollectionIsStable` |
| `BotCommands_proofs!Collected` | `Plain` | `Spec => []CollectedIsDeclared` |
| `BotCommands_proofs!Published` | `Plain`, no `"stop"` | `Spec => PushPublishesAll` |
| `Dispatcher_proofs!TakenByOne` | `SameScope`, `RegistryLasts` | `Spec => []TakenOnce` |
| `Dispatcher_proofs!LeftNothing` | | `Spec => []DownLeavesNothing` |
| `Dispatcher_proofs!Contracts` | `RegistryLasts` | `Spec => Once!Spec /\ Slots!Spec` |

The assumptions, each of which a configuration or the code shows to be needed:

- `"expire"` in `Env` means that a lock outlives its TTL while a live holder
  works. Then the locks exclude nobody; the code says so too: `lock_ttl` has to
  be longer than the slowest handler.
- `CleansUp`: a `listen()` that waited gets to its cleanup and through it (no
  `"expire"`, `"abort_any"`, `"block"`). `lock_error_leak` shows the last.
- `TokensAreFresh`: Redis, or no `stop()`, after which the memory coordinator
  counts its tokens from the start (`tokens_reused`).
- `Undisturbed`: no `"expire"` and no session stops. `stop()` takes no lock and
  tells nobody. A `cancel()` ends a registration without a new one, so the next
  listener of the key replaces nobody.
- `"thread"`: a thread may call `mark_handled()` between a test and an assignment
  (`early_race`).
- `Reliable`: no lock expires, no id is forgotten, no backend fails and no
  session dies in the middle. `IdsKeepScope`: updates with one id have one scope.
  The default extractors see to that, as the scope is the id.
- `SomeDeliveries`, `IdsShareScope`: the same of the constants of `ProcessOnce`.
- `"bypass"`: an update that bypasses leaves the search at once, whoever waits.
- `Plain`: no worker is inside a handler while a registration is made (`"busy"`),
  no bookkeeping is cancelled (`"cancel"`), and the program removes only what it
  added (`"any"`). `uncollected` shows the first and, with a change, the last.
- `"stop"`: a client that is never stopped. `stop()` prunes the collection
  without its lock (`client.py:796`), though `_prune_bot_commands` asks its caller
  to hold it; `ghost_command`, with a change, shows what comes of it.
- `SameScope`: deliveries of one update have one scope, as it is computed from
  the update.
- `RegistryLasts`: Redis, or a memory coordinator that nothing stops. Its `stop()`
  clears the registry (`memory_update_coordinator.py:85`), and an update that comes
  again after it is taken again.

**Ownership.** `ResolvedByOwner` is an action property: a future gets an update
only while its token is the one registered. `ResolveDeliver` does not ask; it
relies on what `registered()` returned one step before. So the invariant has
to carry that answer over an await. `OwnershipInv` is the conjunction of

- `LockedInside`: who is in a critical section holds the lock of its chat;
- `DictsHoldStored`: a listener in a dict is a call that stored itself there,
  under its own key;
- `CandidateFound`: a resolver that asked has a candidate at its position;
- `CandidateStillOwns`: if it was told yes, the candidate's token is still
  registered, or `stop()`, which takes no lock, has withdrawn it.

The last needs a lemma of its own (`RegistryStep`): a step that changes the token
of a key is made by the holder of the lock, or with the lock free, or by
`coordinator.stop()`. With `StopIsAllowed` (no session is stopping unless `Env` lets it)
and `TypeOK` this is inductive: `IInv`. `TypeOK` alone is not: the type of
`cand` and `rung` needs `CandidateFound`.

**The slots.** In the refinement the owner of a key is the call whose token is
registered (`OwnerInv`: a registered token is one call's, and a call has none
before it registers). `SlotInv`, of the [signals](#what-is-proved) below, says
where a listener is, `IInv` that who is resolved is the owner: with `OwnerInv`
they are `RInv`, under which each step of the sessions is one step of a slot or
none. This is the theorem that lets `Ask` and `Dispatcher` be written on
`ListenerSlots`.

**The search.** `resolve()` walks the candidates under the lock of the chat, and
`SearchInv` says that the places it has passed by stay empty: a listener is put
in a dict only under that lock. `MostSpecific` follows, and `Unresolved`, if a
candidate that had lost its key cannot own it again (`GenerationInv`). That the
order of the candidates is the right one is the part of `MessageListener`.
`StoppedIsWithdrawn` needs each registration to be in the set the coordinator
sweeps (`OwnedIsRegistered`), and a listener that waits to have a token
(`PlacedHasToken`). It speaks of the step in which Redis runs the bulk unregister:
a listener that stores itself after that is not promised anything, see
[below](#where-the-code-does-something-else).

**What is returned and left behind.** `DeliveredIsReturned` relates a future to
the outcome of a call that reads it steps later. Three things may override it, and
the property names the events of `Env` they need: a timer that wins over a future
that is done, a task that is cancelled on the way, a lock that cannot be had. `PendingWaits` says that whoever
can still be given an update, through a dict or as a candidate, waits; so a
future changes only while its call waits, and what a call reads in its cleanup is
what it returns. `NoLeakedRegistration` follows from tokens that nobody else was
given (`TokensAreIssued`): the cleanup finds its own token or a newer one.

**Signals.** A signal, a candidate and a cleanup may all be late. `GenerationInv`
says what makes that harmless: a token names one registration of a key, no
signal names one that stands, and a candidate that had lost its key does not own
it later. `CancelledOnlyIfInvalidated` is then a property of each step that fails
a future. For `SupersededIsTold` and `OneListenerPerKey` the invariant also has
to say where a listener is (`SlotInv`): in the dict of its own session while it
waits (`Home`, `WaitsInDict`), with its place empty and its token registered when
it is about to store itself (`ReadyToStore`), and with a token of its own
(`OneTokenEach`). Then a registration that ends under a waiting listener was
taken by a step that puts its token in `unsent`, and what leaves `unsent` was
published (`Told`), or was
replaced by a call that may (`LostToReplacement`), and tokens that grow tell the
older from the newer (`OnePerKey`).

**Exclusion.** `LockIffCritical` is an equivalence: a delivery that has not
crashed holds the lock of its scope if and only if it is between acquiring it
and the end of its settlement, or its release failed (`kept`). It is not inductive, because what `settle()` does
depends on `_early` and `_released`, which a handler or a thread may have set.
`ReleaseInv` says how these agree with the place of the delivery: nobody claims
before a handler has started, a settlement that is taken is being carried out
or done, and a delivery without a release has neither. `StepEffect` states once
what any step of a delivery may do to the lock and to the others; the lemmas
show that each action has this effect, and that the effect keeps the invariant.

**Settlement and handling once.** `EndInv` says of each delivery that settling
early, once it has begun, has settled it as handled, that the automatic settlement
is made only where no early one is scheduled, and that an end is settled as handled
if and only if it was claimed, or its handlers ran or stopped it (`Demanded`). `ReleaseInv`
adds that its lock was given back or the release failed. Across sessions, `OnceInv` ties the registry to that: an
update that was settled as handled is registered, but for the delivery that is
just writing it, and what is being processed is not. As a scope holds one
delivery (`Exclusion`) and an id has one scope, two deliveries of one id are never
both between the question and the answer. Each step of a worker or a thread is
then one step of the contract or none (`StageStep`), which is `Implementation`.

**The contracts.** `ProcessOnce` has an invariant of two lines. In `Ask`,
`OwnerListens` (a key belongs to a call that is inside `listen()`, for that key)
gives `OverIsReleased`; `ReportedIsOver` says when an error handler ran. Under
them each action is a step of `ListenerSlots`.

**Dispatcher.** `PoolInv` counts: in a session that drains, the workers that ended
and the sentinels still queued are all the workers, and no more are busy than have
not ended. So when the wait of `stop()` is over no worker is in a handler, and as
a key is owned by a call that waits in its handler (`OwnerWaits`) and a scope is
held by a delivery that is inside it (`Holders`), nothing is left (`LeftNothing`).
`OnceInv` says of each place of a delivery how far its coordination is
(`Pipeline`), and that what has settled is registered and what is being processed
is not (`Registration`). The sentinels of a queue are counted with two lemmas, of
one that is added and one that is taken (`SentinelsAdded`, `SentinelTaken`).

**Commands.** A lock is a queue, and who is at its head holds it. `LockInv`: a
worker inside a handler holds its lock, a publisher that sends holds that of the
collection, and requests are on their way only then. `AskedKeeps`, `ReleasedKeeps`
and `HolderStays` say once what asking and releasing do to any queue;
`HandlersAreStable` and `CollectionIsStable` follow step by step.

`CollectedIsDeclared` has the longest proof of the commands. The tasks of the
calls get their turns in order (`Turned`, `Queued`), so at any time the handlers
are those of the first `L` calls (`Landing`) and the bookkeeping has come to the
first `m` of them, `m <= L` (`CountedTo`). Were it not for publishers, a count would
be what the first `m` calls make it. A publisher prunes what the handlers of now
do not declare, which the bookkeeping has yet to count down: so a count may
also be lower, if at some call since nobody declared the command (`Owed`). It is
right again when `m` has come to `L`. `SendingInv` adds that what a push has not
sent of the collection is still in its hands.

**History.** `BatchAgrees` says what `records` and `returned` have in common at
each place of an update. For the store, `HeapInv` says that a heap is the newest
part of what its key was given (a suffix of `log`), sorted by age, with records
of that key that were not popped, each of a batch that was recorded. Trimming
and expiry take from the head, so a suffix stays one; because the heap is
sorted, what is left after the expired ones are gone is fresh (`CleanIsFresh`).
`UpdatedHeaps`, `ReadHeaps` and `TakenHeaps` say what the operations do to the
heaps, whatever the order of use is: eviction is allowed to take any key.

**Message listener.** The plan of `sub_keys()` lists the subsets of what an update
carries, larger ones first; of the four components there are finitely many, so a
plan exists, and its truncations are the keys that match (`SubKeys`). `Counted`
ties the calls to Telegram to the chats: while the cache is empty, each call
made is that of a chat that is still fetching under its lock (`Holders`).

**Model-checked only:** the liveness properties, as fairness and `ENABLED` are
beyond the prover: `EveryCallEnds`, `PressEndsAsk`, `EveryDeliveryEnds`, `StopEnds`,
`UpdateEnds`, `AnswerReachesAsker`, `EverybodyEnds`. Every other property of a
passing run is a theorem above. That a refinement holds with the fairness of its
contract is not claimed: the contracts have none.

## Where the code does something else

Writing the models showed places where the code and what it says of itself
differ. `swallowed_update` is the run for the one that matters most:
`resolve()` calls `on_unresolved()` inside `if listeners:`, so a session that
has no listener at all returns from `resolve()` as if it had delivered, and
`handle_listen()` stops the propagation. No handler sees the update
(`update_listener.py:370`, `dispatcher.py:475`).

For the others there is a configuration each, with which TLC finds the property
violated. The module is `MC` and the name of the one in the table. The texts are the
repository's own, under `src/pyroflow`.

| Configuration, property | Module | The code | The text |
|---|---|---|---|
| `out_of_sync`, `NeverOutOfSync` | `UpdateListener` | a superseded listener stays in `listeners` until the signal comes; once the registration it lost to has ended, the next `listen()` of its session raises RuntimeError (`update_listener.py:292`) | "Correctness therefore does not depend on pub/sub delivery" (`redis_listener_coordinator.py:243`) |
| `lock_error_leak`, `NoLeakedRegistration` | `UpdateListener` | when the lock of the cleanup times out, `unregister()` is never called, and the registration has no expiry (`update_listener.py:333`) | "failing loudly is recoverable" (`redis_listener_coordinator.py:97`) |
| `late_timeout`, `DeliveredIsAlwaysReturned` | `UpdateListener` | from Python 3.12, `wait_for()` raises when the timeout fires in the turn in which the future gets its result; the update is consumed (`update_listener.py:314`) | "ListenerTimeout: If the timeout expires before the update arrives" (`update_listener.py:269`) |
| `early_race`, `EarlySticks` | `UpdateCoordination` | `claim_early()` of a thread tests and assigns in two steps, between which the loop may settle (`dispatcher.py:80`) | "is what makes the claim race-free" (`dispatcher.py:69`) |
| `ran_unregistered`, `RanIsRegistered` | `UpdateCoordination` | a handler that raises ContinuePropagation or UnhandledUpdate is not counted (`dispatcher.py:672`) | "at least one handler *ran* - whether it returned normally or raised" (`dispatcher.py:225`) |
| `error_loses_update`, `NoneLost` | `UpdateCoordination` | an error of `extract_update_id()` or `is_handled()` after the lock was taken ends the update (`dispatcher.py:654`) | "falls through to _handle_update uncoordinated rather than being lost" (`dispatcher.py:614`) |
| `overtaken`, `InArrivalOrder` | `UpdateCoordination` | two workers await between taking an update and asking for the lock (`dispatcher.py:634`) | "one at a time, in order" (`update_coordinator.py:30`) |
| `uncollected`, `CollectedIsDeclared` | `BotCommands` | `apply()` tests `groups` before it takes a lock; while a worker is inside a handler Pyrogram's task has not landed, and the commands are never collected (`client.py:606`) | "let it read the real state" (`client.py:598`) |
| `ghost_command`, `PushLeavesNoGhost` | `BotCommands` | for a group that became empty no call is made (`client.py:734`) | "cannot leave a command published for a handler that is gone" (`client.py:674`) |
| `push_deadlock`, `PublisherEnds` | `BotCommands` | `apply()` holds the bookkeeping lock while it waits for the workers' locks; a handler that pushes waits the other way round (`client.py:609`) | "Send every collected command group to Telegram" (`client.py:714`) |
| `record_expires_early`, `FreshIsHeld` | `UpdateHistory` | the TTL cache sets the expiry of a key once, when it is inserted (`memory_update_history_store.py:68`) | "Seconds a record (and an idle key) stays valid" (`memory_update_history_store.py:28`) |
| `stale_answer`, `AnswerFollowsPrompt` | `Ask` | an update sent before the message and still queued answers the call (`client.py:515`) | "After sending or editing, the method waits for the next update" (`client.py:379`) |
| `tokens_reused`, `CleanupTakesItsOwn` | `UpdateListener` | `stop()` of the memory coordinator counts tokens from the start, so the cleanup of a listener from before takes the registration of one from after (`memory_listener_coordinator.py:61`) | "the generation token: it is later used to safely unregister without removing a newer registration" (`update_listener.py:301`) |
| `edit_dropped`, `DuplicateIsSame` | `UpdateCoordination` | the default identity of a message is its chat and id, which an edit of it has too; the edit is dropped (`message_coordinated.py:40`) | "Must stay unique per update" (`update_coordinated.py:166`) |
| `stale_commands`, `CachedSinceStop` | `MessageListener` | a fetch that began before `stop()` fills the cache after it (`message_listener.py:129`) | "cleared in `stop`" (`message_listener.py:114`) |
| `press_too_late`, `PressEndsItsAsk` | `MessageListener` | the listener is read without the lock and then cancelled by its key, when another ask may have taken it (`callback_query_listener.py:59`) | "without this check a stale signal would cancel a newer, perfectly valid listener that merely reuses the same key" (`update_listener.py:163`) |
| `workers_wait`, `AskerIsAnswered` | `Dispatcher` | with all workers inside handlers that wait, nobody takes the answer from the queue (`dispatcher.py:707`) | "suspends until a matching reply arrives" (`client.py:85`) |
| `scope_deadlock`, `AskerIsAnswered` | `Dispatcher` | coordination comes before the listeners, and a handler that asks in a chat-wide scope holds the lock of its answer (`dispatcher.py:656`) | "it is given first priority" (`dispatcher.py:209`) |
| `answer_elsewhere`, `AskerIsAnswered` | `Dispatcher` | a peer without a listener may take the answer and register it, and the session that waits drops it as a duplicate (`dispatcher.py:656`) | the same as `workers_wait` |

Some of them have a second side, which the same configuration shows with a
change: `uncollected` with `Env = {"any"}` and `MaxCalls = 3` (removing a handler
that is not registered discards its commands, also those another declares,
`client.py:606`); `ghost_command` with `Env = {"stop"}` and `CollectionIsStable`
(`stop()` prunes without the lock, also while a push holds it, `client.py:796`);
`stale_commands` with `Lives = 1` and `FetchedOnce` (two chats find the cache
empty, `message_listener.py:113`); `press_too_late` with `Ask <- ShieldedAsks` and
`PressFindsItsAsk` (the first candidate of another message ends the search,
`callback_query_listener.py:60`); `workers_wait` with `Workers = 2` and
`StopAlwaysEnds` (a handler that begins to listen after the listener was stopped
keeps `stop()`, `dispatcher.py:312`).

Four more follow from awaits and calls that fail, and the models have them:
`stop()` of a session is over while a `listen()` that was on its way stores itself
behind its back, and its registration, which has no expiry, stays
(`update_listener.py:124`, `redis_listener_coordinator.py:332`), as does
everything when the bulk unregister fails, which is logged
(`redis_listener_coordinator.py:337`); a session that dies, or a task that is
cancelled, between the deletion and the signal leaves a waiter that nobody tells
(`redis_listener_coordinator.py:259`); a release that fails is logged and the scope
is blocked until `lock_ttl` (`dispatcher.py:120`); and `stop()` of the dispatcher
empties a memory registry, so that what is delivered again after a restart is
processed again (`memory_update_coordinator.py:85`). `SupersededIsTold`,
`StopLeavesNothing`, `LockIffCritical` and `RegistryLasts` say what holds in spite
of them.

Read and not given a configuration: the dispatcher's docstring numbers the
listener before the coordinator, which runs first; the workers run before the
listeners are started; updates queued behind the sentinels of a `stop()` wait
for the next start; `asyncio.CancelledError` from a handler is not an
`Exception` and ends its worker (`dispatcher.py:714`); `stop()` of the commands
deletes what is collected then and not what was published (`client.py:770`);
StopPropagation and UnhandledUpdate leave before `record_many()`
(`dispatcher.py:556`); `pop()` returns and removes all records of a key, "the
newest" by its text (`update_history_store.py:63`).

The passing runs are about what does hold, and leave out by `Env` or by their
constants what leads to a difference: no run of `CollectedIsDeclared` has busy
workers; in `dispatch` the handler whose answer comes settles before it asks, the
answer comes to its own session only, and two workers serve one conversation.

## What is not modelled

- *What is listenable, recordable or coordinatable, the extractors and the
  filters*: functions of Pyrogram objects. Their results are choices of the
  environment or constants.
- *`CancelledError` from a handler*, which ends its worker, and a dispatcher whose
  workers are fewer than when it started.
- *An overridden `on_unresolved()`* other than the callback listener's, which
  runs outside the lock of the chat.
- *A Redis that fails in the middle of a session* other than in a lock, the
  registry of ids, the bulk unregister, and the lost signal.
- *Encoding*: packed keys, serialized ids, Lua, the weak dictionary of locks.
- *Client plumbing, class patching, enumerations, type aliases*: overloads and
  methods that pass their arguments on; no behaviour over time.
- *Pyrogram, Redis and Telegram*: modelled from how the code uses them, and
  marked external in `PROJECT.json`.

## Plan

The order of the project, the behaviour that matters most first. All of these
exist.

1. Listeners: `UpdateListener`, its contract, its keys; ownership proved.
2. Coordination: `UpdateCoordination`; exclusion proved.
3. Commands: `BotCommands`.
4. History and pipeline: `UpdateHistory`.
5. `Ask` on the contract of the listeners.
6. The contract of coordination, `ProcessOnce`, and the refinement, proved.
7. `Dispatcher`: both contracts composed under a worker pool, with its lifecycle.
8. `MessageListener`: the commands that bypass and the buttons that cancel.
9. Proofs: what is returned and left behind, signals, settlement, handling once,
   the keys of `Ask`, the batch of a history.
10. Proofs: the slots of the listeners, the search, the commands, the dispatcher,
    the store of a history, the keys of a message.

What is left, in the order of its worth: what of `OnePerKey` holds where `cancel()`
is used, and of `Collected` where bookkeeping is cancelled, which need a weaker
property each; the type invariants that are now parts of larger ones, as theorems
of their own; and the safety part of the liveness properties, such as that no
task of `BotCommands` waits for a lock whose holder waits for one of its own, as
long as no handler pushes.
