# simpl_actor: models, checks and proofs

`simpl_actor` is an actor library on top of tokio. A user writes a struct, marks
methods of it with `#[message]`, and the `#[actor]` macro generates a message
type, a handler for it, and an `ActorRef` with one sending method per message
(and per variant: `msg`, `msg_after`, `msg_async`, `msg_async_after`). The
runtime spawns one tokio task per actor, which receives the messages.

This directory holds TLA+ models of that code, TLC configurations that check
them on small instances, and TLAPS proofs about them. Source paths below are
relative to `src/crates/`.

## 1. Inventory

| part | source | state | operations |
|---|---|---|---|
| actor lifecycle | `simpl_actor/src/internal.rs` 45-137 | the value (`A`, then `Arc<RwLock<A>>`), `Abortable` flag, stop reason | `on_start`, the loop under `catch_unwind` and `Abortable`, `on_panic`, draining of links, `on_stop` |
| receive loop | `internal.rs` 139-212 | mailbox receiver, semaphore, `JoinSet` of reads | receive, dispatch by `is_read_only`, join reads, return a reason |
| concurrent reads | `internal.rs` 183-189 | one tokio task per `&self` message, its permit, its clone of the `Arc` | run the handler, finish, panic, be cancelled |
| message handlers | `simpl_actor_macros/src/actor.rs` 694-770 | `RwLock` guards, reply channel | `try_read`/`try_write` with `expect`, reply, or `on_panic` for an `Err` |
| message methods | `simpl_actor_macros/src/actor.rs` 399-602 | mailbox sender, oneshot receiver | send with or without reply, now or after a delay |
| actor references | `simpl_actor/src/actor_ref.rs`, macro 604-681 | mailbox sender, abort handle, links | `is_alive`, `stop_gracefully`, `kill`, `wait_for_stop` |
| links | `actor_ref.rs` 179-223, `internal.rs` 84-88 | a `Mutex<HashMap>` per actor | link and unlink, one way or together; drain and notify on death; `on_link_died` |
| spawning | macro 782-850, `spawn.rs` | actor ids, task-local scopes | `spawn`, `spawn_link`, `spawn_child` |
| current actor | `actor_ref.rs` 13-16, `actor.rs` 20-50, macro 773-776 | two task locals | `actor_ref()`, `current()`, the assertion against self calls |
| macro front end | `simpl_actor_macros/src/actor.rs` 44-271, 879-940 | none: pure functions on syntax | field lifetimes, generics, `read_only`, `infallible`, which variants exist |
| errors and reasons | `err.rs`, `reason.rs` | none | conversions and formatting |

**Interactions.** Senders, on any thread, push signals into an unbounded mailbox
(`Message`, `Stop`, `LinkDied`) and set the abort flag. The actor's task receives
one signal at a time. A `&mut self` message runs inside the actor's task after
every read task has been joined; a `&self` message runs in a task of its own under
a semaphore permit. Handlers share the value through a `RwLock`, which they take
with `try_read`/`try_write` because the loop is supposed to make waiting
unnecessary. A dying actor sends `LinkDied` to its links' mailboxes.

**What is hard.** Reads overlap with each other and with the loop; `kill()` cancels
the loop at any await; a panic can occur in a handler, a hook or a read task and
takes a different way out of each; the loop restarts after a caught panic with
a new semaphore; callers wait on a reply channel owned by whichever part holds the
message; linking runs on any thread while actors die, and takes two mutexes for
one operation; handlers call each other and wait, under an assertion that sees
only some of the circles this can make; the macro invents names out of a buffer
it never restores. `PROJECT.json` lists the hazards line by line, with the
properties aimed at each.

**What makes each part correct.** Lifecycle and reads: exclusive access, reads
that see exactly the messages accepted before them, bounded concurrency,
no leftover reference at `on_stop`, no caller forgotten, stops that stop. Links:
mutual links stay mutual until a death, a death is told once, truthfully and to
everybody, only abnormal deaths spread, and every linking operation is atomic.
Calls: a caller hangs only if actors wait for each other. Macro: distinct field
lifetimes, the right arguments in the mailbox type, one message per marked method.

## 2. Modules

### `Lifecycle.tla` - one actor

Three kinds of process interleave: the actor's task, the read tasks and the rest of
the program. A step runs from one await point to the next; the read tasks' lock
attempts, which other threads interleave with, are steps of their own.

| variable | code |
|---|---|
| `pc`, `cur` | the await point of the actor's task and the signal it has taken |
| `reason` | the `ActorStopReason` on its way out; `None` when the loop panicked |
| `mailbox`, `head` | the unbounded channel as a log with a read index, so that properties can speak of the order of sending |
| `killed` | the `AbortHandle`'s flag |
| `task`, `joinSet`, `permits` | read tasks, `concurrent_reads`, permits of the current semaphore |
| `state` | the value, as the set of `&mut self` messages whose handler has begun |
| `outcome` | what each sender has seen: sent, pending, replied, stopped (`ActorStopped`), not running (`ActorNotRunning`), or that it gave up waiting |
| `dropping` | calls whose message is being dropped whole: the reply sender is gone, the fields are not yet |
| `notified` | the links were drained |

| action | code |
|---|---|
| `Send`, `GiveUp`, `SendSignal`, `Kill` | the generated methods, a caller that drops its future, `stop_gracefully`, `notify_link_died`, `kill` |
| `OnStart`, `OnStartFails`, `StartFailedStop` | `internal.rs` 61-80 |
| `Recv`, `SpawnRead`, `JoinNext` | the `select!` and the dispatch, 155-189 |
| `BeginWrite`, `EndWrite` | the exclusive branch and the generated handler |
| `BeginLinkDied`, `HookReturns`, `TakeStop` | 197-208, and `on_panic` for a write's `Err` |
| `Shutdown`, `OnPanic`, `Abort` | `run_abortable_future` after the loop, and `Abortable` around all of it |
| `FinalShutdown`, `NotifyLinks`, `OnStop` | 82-95 |
| `BeginRead`, `EndRead`, `UpgradeRead`, `ReadHookReturns`, `CancelRead` | a read task's way through the generated handler |
| `DropFields` | the rest of a message dropped whole (macro 293-298) |

What the user writes is arbitrary: a handler returns, fails or panics; a hook
returns `Ok(None)`, `Ok(Some(reason))`, `Err` or panics (`HookResult`). `Infallible`
names the messages whose method cannot return `Err`. A read panic, a lock
assertion and a cancelled task differ in `task`, because the loop treats them
differently.

Messages are dropped in two ways. A handler takes the message apart, so its fields go
before the reply sender. A message that no handler has begun (unread, taken and
waiting, or with a read task that is cancelled before its first poll, `"discarded"`)
is dropped as the variant it is, whose first field is `__reply`: its caller is woken, and
may run, before `DropFields`. The task that drops it goes on only afterwards
(`DropsDone`, `ReadsDrained`).

### `Links.tla` - many actors

Each actor's life is cut down to the phases links can tell apart: unborn, starting,
running, closed (receiver dropped), draining (its links mutex held), `on_stop`, dead;
plus a failed start and an unwinding `on_panic`, which skip the draining. `links` are
the maps' keys, `inbox` the `Stop` and `LinkDied` signals each mailbox accepted,
`told` whom a dying actor has sent `LinkDied` to. `LinkChild`, `UnlinkChild`,
`LinkTogether` and `UnlinkTogether` take all their locks in one step. The draining is
one step per entry, in any order, and others move in between. `SpawnFrom` and
`LinkSpawned` are the two halves of `spawn_link` and `spawn_child`: the spawned task
may run, and stop, between them. Where there is no current actor they only spawn
(`Spawn`) before they panic (`NeedActor` in `Calls`), and the spawned actor runs on,
linked to nobody. `Custom` actors have hooks of their own, whose `on_link_died` and
`on_panic` may return anything (`LinkDiedResults`, `PanicResults`); the others have
the default ones. A report comes from a dying actor only: a program that calls the
public `notify_link_died` by itself can say what is not true, and is not in `Links`.
The start, the loop and the end of an actor in `Links` stand for the corresponding
stretches of `Lifecycle`, and its one-step linking for the locking in `LinkLocks`.
Both are shown, through `ActorLife` and `LinkTable`.

### `Service.tla`, `ActorLife.tla`, `LifecycleRefinement.tla` - what an actor promises

`Service` is the actor as its senders see it: a log of accepted signals, the index
of the next one to begin, the read-only messages in progress, the one thing
handled alone, and the outcome of each message. Signals begin in order, each once;
exclusive ones and hooks alone; nothing begins after the decision to stop, and
whoever then waits is told. There is no lock, semaphore, `JoinSet` or abort flag.

What follows from these promises alone is proved of `Service` by itself, in
`ServiceProofs`, and holds of every actor that keeps them.

`ActorLife` is the actor as its links see it: seven phases, the reason that it gives
from the closing of its mailbox on, and whether it was killed.

`LifecycleRefinement` maps `Lifecycle` onto both. A signal that the loop has taken
and not begun (a read waiting for a permit, a write waiting for reads) is still
next in `Service`; live read tasks are the reads in progress; `on_panic`, and the
shutdown of the reads before it, are the `Recovery` that is handled alone. `Links`
maps each of its actors onto `ActorLife` too (`Life(a)`), so the two models
agree on it.

### `LinkTable.tla`, `LinkLocks.tla` - the mutexes around the links

`LinkLocks` has a program counter for each thread of the program and for each dying
actor's task. A two-sided operation takes the lock of `self`, then of the other
actor, writes the first map, then the second, and drops the guards in reverse; a
dying actor holds its own lock from the first entry it drains to the last.
`LinkTable` is the table of all links with operations that take effect at one
instant between call and return. The mapping places that instant at the write of
the first map: until the second one is written, its holder alone can look.

### `Calls.tla` - actors that call actors

Where a call comes from decides what the task locals say there: an exclusive handler
runs in its actor's task, inside both scopes; a read handler and a delayed send
run in tasks of their own, outside of them (`CurrentActor`). `Call` is `msg` with its
debug assertion (`Refused`), `CallAfter` and `Wake` are `msg_after`, `Send` is a call
from outside or an async method, for whose answer no handler waits. `NeedActor` stands for
`actor_ref()`, `spawn_link` and `spawn_child` where there is no current actor. The
life of an actor is one step here (`Failing`), as `Lifecycle` shows that whoever
waits for it is told.

### `ExtractMessages.tla`, `MessageMacro.tla` - the `#[actor]` macro

`ExtractMessages` is `extract_messages` as a machine: for each method in turn its
closure begins (`Begin`), `retain` looks at one attribute after the other (`Retain`), and
the closure returns (`End`). `has_message` and `infallible` are the closure's
locals, `kept` what `retain` leaves, `messages` what is given to `Message::from`.

`MessageMacro` is the rest, as functions of what was extracted. Types are trees; the
name of a lifetime is the sequence of its words. `Inject` threads the shared name
buffer through a type as `inject_lifetimes` does, `MessageFrom` does so for each
parameter, `Params`, `ActorArgs` and `MailboxArgs` are the generic parameters and
arguments; `WellFormed` is what rustc asks of the generated enum. This module uses
recursive operators, so nothing is proved about it.

### `MCLifecycle.tla`, `MCLinks.tla`, `MCLinkLocks.tla`, `MCCalls.tla`, `MCMessageMacro.tla`

Name the sets of hook results, the symmetry sets, the types of actors, and the impl
blocks of the configurations.

### The proof modules

| module | about |
|---|---|
| `LifecycleProofs` | access, ownership, bounds and callers of one actor |
| `LifecycleOrderProofs` | the order of its mailbox: what reads see, graceful stops, causes, answers |
| `ServiceProofs` | what follows from the promises of `Service` alone |
| `LifecycleRefinementProofs` | the actor implements `ActorLife` and `Service`, and has what was proved of `Service` |
| `LinksProofs` | links, deaths, reports and causes; linked actors implement `ActorLife` |
| `LinkLocksProofs` | who holds which lock; `LinkLocks` implements `LinkTable`; deadlocks |
| `CallsProofs` | calls between actors, and what can be left unanswered |
| `ExtractMessagesProofs` | which methods become messages |

Section 5 says what they prove and how.

Definitions named `X_Something` next to an `X` are faulty variants of it. No
specification uses them; they exist to show that the properties notice such a fault.

## 3. Runs

| run | result | question |
|---|---|---|
| `Lifecycle_safety` | holds | exclusion, ownership, bound on reads, order of reads and writes, graceful stop, callers, causes of a stop; does the loop wait for what can come only, and what is over when `wait_for_stop` returns; does the actor implement `Service` and `ActorLife` |
| `Lifecycle_liveness` | holds | is every call answered, and in which order, do `stop_gracefully` and `kill` stop the actor; exclusion when peers die |
| `Lifecycle_lock_assertion` | violated | do the lock assertions of the handlers hold |
| `Lifecycle_read_panic` | violated | do the hooks decide when the actor stops |
| `Links_safety` | holds | do links made together stay mutual, are deaths told once and truthfully, do normal stops stay local, where does an abnormal death come from |
| `Links_spread` | holds | next to an actor whose hooks may decide anything: does an abnormal death take down all that is linked, do normal stops stay local, where does an abnormal death come from; do the actors implement `ActorLife` |
| `Links_spawn_link` | violated | does `spawn_link` guarantee that the parent learns of the death |
| `Links_spawn_child` | violated | does `spawn_child` keep the child's death from the parent |
| `LinkLocks` | holds | is every linking operation atomic, what can make a circle of waiting, and does every operation return |
| `Calls` | holds | which calls hang, and what is left where nothing moves |
| `Calls_own_ref` | violated | can every handler get at its own actor |
| `MessageMacro` | holds | are the generated types well-formed, the mailbox's arguments in their places, the attributes read right |

**Bounds of `Lifecycle`.** Messages are distinct and sent at most once each, so the
mailbox is bounded by their number plus one stop and one death per peer.
`Lifecycle_safety` has three reads and one write with two permits: two reads
overlap, the third waits for a permit, and the write meets zero, one or two of
them; the restart after a caught panic happens with messages of each kind left. One
of the reads has a caller, who may give up. `Lifecycle_liveness` has one permit, so
that a lost one blocks, and a peer whose death is handled by a hook; it is small
because its properties are checked on the whole behaviour graph. Symmetry is used
only in safety runs, over reads that differ in nothing.

**Bounds of `Links`.** Three actors are enough for a link to a third party and for a
chain. `MaxOps` linking operations and `MaxEnds` stops, kills and failures happen at
most: three and two in `Links_safety`, so that two actors can die at different times
around a link, an unlink and a relink; three actors may all die because deaths spread.
Its operations are the two-way ones, the only ones that promise mutual links.
`Links_spread` has two operations and one cause of death, which is the shortest chain,
and an actor with hooks of its own, at either end of the chain or in the middle of it;
the chain is followed from the moment a dead actor holds the lock on its links, since
an unlink before it rightly breaks the chain.

**Bounds of `LinkLocks`.** Two threads, two actors, two operations of any kind per
thread (`MaxCalls`): opposite operations meet, also while either actor dies, and a
thread comes back to a map that has changed since. With two actors a circle of
locks has length two; longer ones differ in nothing the code looks at.

**Bounds of `Calls`.** Two actors of one type and one of another, two read-only and two
exclusive messages, one permit, one kill: circles of up to three actors, through
shared and exclusive handlers, with a panic or a kill somewhere in the chain.

**Bounds of `MessageMacro`.** Types of up to three levels, with pairs and triples,
which is where the buffer's leftovers meet; two parameters; three messages that
borrow, are generic, both or neither; two attributes of any kind, or none, on each of
two methods, so that a second message attribute meets one already taken.

**Deadlock** is checked except in `LinkLocks` and `Calls`, where the code
really can wait for ever (that is what `StuckOnlyIfOpposed` and
`HangsOnlyInCycle` delimit) and where a run of bounded calls may be over.
In `Lifecycle` only a dead actor stutters (`Ended`), in `Links` only actors that
are dead or wait for a signal (`AllQuiet`), in `MessageMacro` only a macro that is done.

**Fairness.** tokio polls a woken task and handlers and hooks are assumed to
return: weak fairness of the actor's task as a whole, of each read task, and of
`Abort` by itself, since `Abortable` looks at its flag at every poll and `kill()`
wakes the task. Nothing is assumed of senders. Which of the ready branches
`select!` takes is left open. In `Links` every actor's `Progress` is weakly
fair; failing, and everything the program does, is not. In `LinkLocks` a thread in an
operation and a dying actor go on; weak fairness is enough for a lock, as the calls
are bounded and nobody can take it again and again. In `Calls` every loop goes on, a
delay ends, and a handler that awaits nothing returns; calls, panics, kills
and sends are not fair.

## 4. Disagreements between code and documentation

Each of these is a run that TLC ends with a counterexample; `PROJECT.json` quotes
the texts.

1. A failing `&self` message sent asynchronously asserts a write lock other reads may
   hold (`simpl_actor_macros/src/actor.rs` 728); its own message calls that a bug.
2. A panic in a `&self` handler stops the actor without asking `on_panic`
   (`internal.rs` 176-178, 161-163).
3. `spawn_link` links after spawning; an actor that stops first is never reported
   to its parent (macro 826-829). Any link made to an actor that has drained its
   links is dead from the start in the same way.
4. `spawn_child` links the wrong way round (macro 843).
5. A `&self` handler that asks for its own `actor_ref()` panics: it runs in a task
   that does not inherit the task locals (`internal.rs` 186). The counter
   example's `inc_myself` is such a handler.

Others show in the models and have no run of their own:

* `wait_for_stop` returns when the mailbox closes (`actor_ref.rs` 234), before the
  links are told and `on_stop` runs, and after a kill before the read tasks are
  joined; lines 73-74 promise that "any ongoing processing is completed" and the
  actor has "fully terminated". In `ActorLife` this is phase `closed`;
  `WaitForStopWaits` says what does hold.
* An actor whose `on_start` fails (`internal.rs` 67-70; `on_stop` is given the error),
  or whose `on_panic` panics (129), tells none of its links, though `actor_ref.rs` 51
  says that this happens "automatically when an actor dies": `StartFailedStop` and
  `Unwind` in `ActorLife`.
* The default `on_link_died` hands the dead actor's reason on, so an actor that
  nobody killed can stop for `Killed`, and nothing in the library constructs
  `ActorStopReason::LinkDied`: only a program's own hook gives it
  (`simpl_actor/src/actor.rs` 151-155).
* The self-call assertion (macro 575) looks at the type: its text says "on self", but
  it refuses a call to another actor of the same type as well. In a read handler and in
  `msg_after`'s task (516) it never fires, so those self calls are not refused;
  where they close a circle (a delayed call awaited by an exclusive handler of
  the actor it goes to), the actor hangs in debug builds too. `Refused` in
  `Calls` is that assertion; what it turns away is all that it prevents, and no
  property restates it.
* `README.md` 81 of the repository allows `&'static` parameters in async variants; any
  reference gets an injected lifetime (macro 67-71), which suppresses them.
* Two borrows of one parameter can get the same lifetime name, as in
  `((&a, &b), &c)`: the inner tuple's index is what the outer one replaces. rustc then
  rejects the message type. `PlainCompiles` says for which types this cannot happen.
* If a message with type parameters precedes one that borrows, the arguments of the
  mailbox (macro 415-434) are not in the order of the parameters, and rustc rejects
  the result. The documentation says that generics are not supported
  (`simpl_actor_macros/src/lib.rs` 29). `ArgumentsFit` covers all other orders.
* The generated variant declares `__reply` before the borrowed fields (macro 293-298),
  whose lifetimes the sending method has erased by then (439). A message dropped
  before its handler began therefore tells its caller `ActorStopped` first and drops
  the fields afterwards, possibly after the caller has ended the borrow.
  `AnsweredIsOver` excepts these messages and says that there are no others.
* A caller that drops the future of a message with borrowed parameters leaves the
  message in the mailbox. `AnsweredIsOver` covers those who wait.
* The async variants are left out where a lifetime was injected (macro 510). A type
  parameter that the program instantiates with a borrow has no such lifetime and is sent
  without waiting. This is not modelled.

## 5. Proofs

Every safety property and action property that a passing run checks, and every
refinement, is proved for all values of the constants, except the two of
`MessageMacro`. TLC checked each formula first, and each inductive invariant as an
invariant of a run.

| module | theorem | states, always |
|---|---|---|
| `LifecycleProofs` | `TypeCorrect` | `TypeOK` |
| | `Exclusion` | `ExclusiveAlone`: no read task exists while the actor's task holds the value, so `try_write` in an exclusive handler succeeds |
| | `SoleOwner` | `SoleOwnerAtStop`: none exists from the draining of the links on, so `Arc::into_inner` succeeds, after a kill as well |
| | `BoundedReads` | `ReadsBounded` |
| | `AssertionHolds` | `LockNeverAsserted`, if every read-only message sent without a reply channel is infallible (disagreement 1 shows why) |
| | `NoCallerForgotten` | `CallersOwned`: whatever ends the actor answers whoever waits |
| | `WaitsAreMet` | `NeverWaitsInVain`: no permit is lost and nothing is joined that was never spawned |
| | `StopAwaited` | `WaitForStopWaits`: no handler is in progress and no caller waits when `wait_for_stop` returns, unless the actor was killed |
| | `DeadOwesNothing` | no caller waits for an actor whose task is over |
| `LifecycleOrderProofs` | `ReadsPrefix` | `ReadsSeePrefix`: a read sees the writes accepted before it and no others |
| | `GracefulStops` | `GracefulStop`: all before the stop signal handled, nothing after it touched |
| | `CausedStops` | `StopsForCause`: which events a stop reason, or an end without one, goes back to |
| | `AnswersFree` | `AnsweredIsOver`: what an answered message borrowed is free again, if its handler had begun |
| `ServiceProofs` | `InOrder` | any actor that keeps the promises of `Service` answers in the order of its log, but for reads side by side |
| | `OverOwesNothing` | and owes no answer when it is over |
| `LifecycleRefinementProofs` | `LifeImplemented` | `ImplementsLife` |
| | `ServiceImplemented` | `ImplementsService` |
| | `AnswersOrdered` | `AnswersInOrder`: the code's actor answers in that order |
| `LinksProofs` | `TypeCorrect` | `TypeOK` |
| | `LinksMutual` | `MutualLinks`, if the operations in use link and unlink both ways |
| | `DeathsToldOnce` | `ToldOnce` |
| | `ReportsHonest` | `HonestReport` |
| | `NormalStaysLocal` | `NormalDoesNotSpread`: with the default hooks, whatever those of the others decide |
| | `DeathsHaveCause` | `DeathHasCause`: an abnormal stop is one's own, or follows that of an actor which has told of it |
| | `KillsOriginate` | `KillsHaveOrigin`: no circle of links takes itself down |
| | `LifeImplemented` | `ImplementsLife`, so `Links` is built of actors that live as the code's do |
| `LinkLocksProofs` | `TypeCorrect` | `TypeOK` |
| | `TableImplemented` | `ImplementsTable`: linking operations and the telling of a death are atomic |
| | `DeadlockHasOneCause` | `CircleOnlyIfOpposed`: a circle of waiting needs two-sided operations in opposite directions |
| `CallsProofs` | `TypeCorrect` | `TypeOK` |
| | `StuckInCircle` | `StuckOnlyInCircle`: what nobody will answer is owed around a circle of actors |
| `ExtractMessagesProofs` | `MarkedAttributes` | `MarkedOnce`: each marked method is one message, and loses one attribute |

**Assumptions.** Only those the modules make of their constants, which TLC
evaluates in every run: kinds of messages are subsets of `Msg`; signals, actors,
threads and `None` differ from each other where the code's types make them differ
(`ReasonAssumption`: `None` is no stop reason; `NoneAssumption`: nor an operation);
limits are natural numbers, `MaxConcurrentReads` = 0 included; an impl block is a
sequence of methods with sequences of attributes. The theorems of `ServiceProofs` take
as premise (`Distinct`) what `Service` does not assume of its constants, and the one
place that uses them proves it. Two theorems have a
premise of their own, stated in them: `AssertionHolds`, without which the run
`Lifecycle_lock_assertion` shows what happens, and `LinksMutual`, as `link_child` and
`spawn_child` are one-sided by design.

**One actor: the account of its reads.** Whether a step into `handle` is safe
depends on how the loop accounts for its reads. `IInv` states that accounting: live
tasks are in the `JoinSet` (`LiveJoined`), which is empty wherever the actor's task
holds the value or is past its last shutdown (`AloneJoined`); live tasks hold a
permit of the current semaphore (`LivePermitted`), of which at most the allowed
number is out (`PermitsBounded`) - a restart creates a new semaphore when no task
is alive; and `CurKind` ties the taken signal to the program counter. `CInv`,
inductive relative to `IInv`, adds where a caller's message can be: the loop has no
signal except between receiving and disposing of one, and none with a reply channel
inside a hook (`CurKept`), and the read index stays within the mailbox
(`HeadInBounds`), so an accepted message is unread.

**One actor: the order.** The mailbox of the model keeps all it ever accepted, so what
the actor has done is a matter of how far into it the loop has come (`Begun`). `QInv`:
a signal is in it once, and what the loop has taken is the last it received. `RInv`: a
reason ends the loop for good, `on_panic` decides only when there is none and no read
is left, reads are cancelled only on the way out. `OInv`: only what has begun has left
a trace; as long as no reason ended the loop, every write that has begun is applied
and every read that has is in the `JoinSet` or completed; while a read is live the
value is that of its place in the mailbox (`LivePrefix`); a `Normal` end has received
`Stop` last and completed all before it (`StopLast`). The interesting steps are the
spawning of a read (`SpawnReadOrder`), which must find all earlier writes applied, the
beginning of a write (`BeginWriteOrder`), which must find no live read, and the stop
signal (`TakeStopOrder`), which must find both. `CausedStops` needs that a task that
has ended stays as it ended (`EndedStays`), that a hook that was called stays so
(`CalledStays`), and that the loop panics only after it has called something that can
(`PanicStep`). `AnswersFree` needs that a message is in one place only (`OnePlace`)
and that what is dropped whole was begun by no handler (`DroppedStep`). All follow
from `OInv`.

**One actor: what it promises.** `ServiceImplemented` maps every step to one of
`Service` or to none: a read begins when it is spawned, a write when no read is left
(`BeginService`), both against the conditions of the abstract actor, which knows
neither permits nor `JoinSet`; the shutdown of the reads and `on_panic` are one
`Recovery` (`CaughtService`, `ReturnService`); an actor that leaves the loop, by itself or
aborted at any await, answers exactly whom `Service` says (`LeaveService`, `DieService`).
`LifeImplemented` needs where a reason can be (`ReasonPlace`).

**One actor: what follows from the promises.** That answers come in order needs
nothing of how the promises are kept, so it is proved of `Service` (`SInv`): a message
is in the log once, what has begun is before `next`, who has begun and has no answer
is being handled, and two that are handled at once are reads. `AnswersOrdered` reads
this through the refinement: `Spec` implies `Service`'s specification under the
mapping, that implies its order, and its order is the one of the mailbox.

**One actor: what it waits for.** `WInv`: a permit that is out belongs to a live read,
and what is in the `JoinSet` was spawned. With the account above, all permits out
means as many reads in progress as allowed. It is an invariant because a task gives
its permit back in the very step that ends it, also by a panic or a cancellation.
`ClosedDrained`: an actor that leaves its loop by itself leaves no read behind, so only
`Abort` lets `wait_for_stop` return while reads are still to be shut down; with no
read live and nothing taken, `CInv` leaves no place for a pending caller's message.

**Links.** `IInv`: an actor past its loop has a reason, and one that is about to link
what it spawned does nothing else, in particular does not drain. A death is told
once because a dying actor that has not told b has no report in b's mailbox, one
that still has b in its map has told it nothing, and nothing can enter its map
meanwhile (`ToldInv`). `LinksMutual` needs no more: what makes a link
one-sided, the draining, tells the other side in the same step.

What the hooks of others decide does not matter to an actor with the default ones
(`NormalStaysLocal`): a report of a normal death is nothing to stop for, and the default
`on_panic` gives `Panicked` (`ReceiveOutcome`, `CrashOutcome`).

**Causes of death.** `CauseInv`: an actor whose mailbox is open has no reason yet,
nobody is linked to itself, and a report of a's death in b's mailbox means that a told
b. So the step that gives a reason for a report finds its cause in place
(`CausedStep`), which is `DeathHasCause`. `KillsHaveOrigin` says the same of whole
chains, without numbering their members: a set that holds everybody who was killed, and
everybody told by a member, holds all that stopped as `Killed`. It is kept because the
teller has its reason before the told one (`KillsStep`).

**Locks.** `IInv`: a thread holds the lock of the first map from `lock_other` or
`write_this` on, and that of the second one until it releases it; whoever drains
holds its own. So at most one thread has half written a given map, and none while
it is drained (`View`), which makes the mapping to `LinkTable` a function of the
state. An operation takes effect when it writes the first map (`WriteApplies`),
a death when its task gets the lock (`DrainTable`); all other steps show nothing
(`OperateHidden`). For deadlocks the converse is needed too, a lock is held only by
somebody that uses it (`InUse`): then a member of a circle, whose lock another one
waits for, can only be waiting for its own second lock (`CircleIsOpposed`).

**Calls.** `IInv`: a message is in the place that its stage says, once (`QueuedIn`,
`OnceIn`, `Received`), and was sent to the actor that has it, so none is handled twice.
For `StuckOnlyInCircle` the converse is needed (`Placed`): a message
that is queued is in its receiver's mailbox, and one that was taken is with a loop
that is up. So where nothing moves, an actor with something to do is waiting
for a handler of its own (`OwedByRunning`), that handler awaits a message to
another such actor, and these actors are the circle. `HangsOnlyInCycle` says of
whole behaviours, under fairness, what this says of each state at rest.

**The macro.** `IInv`: half way through a method, what is kept is its attributes up to
here without the one taken, if one was (`Halfway`); the counts are those of the
methods passed, and of this one's bad attribute (`Counted`); and of the methods
passed all holds that `MarkedOnce` says (`Passed`). The interesting steps are the
`retain` of an attribute after one was taken, and the place of a message, which is
the number of marked methods before its own (`Placed`).

**Only model-checked.** Liveness under fairness, which is out of the prover's
reach: `CallsAnswered`, `StopStops`, `KillStops`, `DeathSpreads`,
`StuckOnlyIfOpposed`, `HangsOnlyInCycle`. `MessageMacro` (`PlainCompiles`,
`ArgumentsFit`): it computes by recursion over types and concatenates
over messages, and its properties would need induction over these data.
The five runs that end in a counterexample state what does not hold.

## 6. Not modelled

* Of the macro: token layout, paths with generic arguments on several segments,
  const and associated-type arguments, patterns instead of names, and names with
  underscores in them, which the buffer cannot tell from its own separators
  (parameters `x` of type `[&T; N]` and `x_array` of type `&T` collide).
* `#[derive(Actor)]`; formatting, logging and `PanicErr`'s payload; the examples and
  the benchmark.
* Which of the message methods exist (macro 505-569), and type parameters that are
  instantiated with borrows.
* Memory use of the unbounded mailbox; the wrap-around of the 64-bit actor counter.
* Mutex poisoning: nothing panics while a lock on links is held.

## 7. Plan

Done: all modules of section 2, and the proofs of section 5. What is left:

1. Carry what `LinkTable` promises by itself (a dying actor's entry stays empty until
   it has told everybody) to a theorem of the abstract module, as was done for
   `Service`.
2. `PlainCompiles` and `ArgumentsFit` for all types need induction over
   trees and sequences, for which the provers here have no rule; a larger instance is
   what is left to do.
3. The macro's paths of several generic segments and names with underscores.
