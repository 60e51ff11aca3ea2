# Watson, specified

TLA+ specifications of Watson (`@watsonjs`), a TypeScript framework for Discord
bots: `packages/di` (dependency injection and modules), `packages/core`
(application, event dispatch, command parsing), `packages/common` (decorators
and built-ins), `packages/platform-discordjs` (the adapter) and
`packages/ts-transformer`.  All source paths below are under `src/packages/`.

Thirteen modules model how providers are bound, resolved and cached, how modules,
components and factories are loaded and made, how routes are explored, what
becomes of a message from its first character to the handler of its command, and
what a handler may ask of its event.  All are model-checked; ten of them are also
proved about, for every value of their constants.

- [Parts of the system](#parts-of-the-system)
- [Modules](#modules)
- [Runs](#runs)
- [Proofs](#proofs)
- [Where the code differs from what it says](#where-the-code-differs-from-what-it-says)
- [Not modelled](#not-modelled)
- [Plan](#plan)

## Parts of the system

JavaScript runs one piece of code at a time, from one `await` to the next.  All
concurrency below is interleaving at awaits: of events that are handled at the
same time, of the calls of one handler, and of the branches of one
`Promise.all`.  There is no persisted state and no distribution of Watson's own;
crashes only lose memory.  Discord is a remote service: a request to it may
fail, and what it tells the client comes later.

| part | state it keeps | operations | talks to |
|---|---|---|---|
| Instance cache (`di/src/lib/core/injector-capability.ts`, `binding.ts`) | `_instances` of every `Binding`: instances by injector or event | `ɵcreateBindingInstance` | resolution (awaited), factories and `afterResolution` hooks (awaited) |
| Provider resolution (`injector-capability.ts`, `dynamic-injector.ts`, `inquirer-context.ts`, `dependency-graph.ts`, `core/src/lib/di/context-injector.ts`) | a `DependencyGraph` per request, shared through `InquirerContext.clone` | `Injector.get`, `ɵresolveBindingDependencies` | cache, parent injectors, contexts of events |
| Bindings and records (`binding.ts`, `injector-capability.ts`, the constructors of the injectors) | `W_BINDING_DEF` on every token (process-wide), `_records` of every injector | `createBinding`, `ɵbindProviders`, `bind`, constructors | resolution reads the records |
| Module loader (`module-loader.ts`, `module-container.ts`, `module-ref.ts`, `component-ref.ts`) | map of definitions, `W_MODULE_PROV` on module classes, container of `ModuleRef`s and their `ComponentRef`s | `_scanModuleRecursively`, `_recursivelyResolveModuleProviders`, `_bindModuleProvidersAndCreateModuleRef` | promises of dynamic modules, injectors |
| Components and factories (`component-factory*.ts`, `provider-factory*.ts`, `lazy.ts`) | the records of the resolvers, the binding of a factory, the instance in a lazy wrapper | `resolve`, `create`, `ɵLazy.get` | component refs, injectors |
| Routes explorer (`core/src/lib/router/routes-explorer.ts`, `router/*/`) | the routes of every router, the proxies of the events and their handlers | `explore`, `_mapRoutesOfRouter`, `_bind*Route` | component refs, adapter |
| Matching and dispatch (`core/src/lib/command/matcher/`, `lifecycle/proxies/`, `router/route-handler-factory.ts`, `router/interceptors/`, `lifecycle/exception-handling/`) | a cache of prefixes per guild and matcher; arrays of interceptors per route; a context injector per event | `match`, `resyncFor`, `proxy`, filters, guards, pipes, handler, exception handler | prefix resolvers, interceptors and pipelines (awaited) |
| Tokenizer and parser (`core/src/lib/command/parser/`) | position in the text; the tokens that are left; the arguments | `tokenize`, `parseInput` | command container, parameter types |
| Event context and pipelines (`core/src/lib/di/context-provider-factory.ts`, `core/src/lib/command/pipe/`) | what a pipeline holds of its event, `isReplied`, `isDeferred` | `reply`, `followUp`, `deferReply`, `send`, `prompt`, `find`, the voice channel | Discord (awaited) |
| Reactive components (`common/src/lib/builtin/components/`) | `isSent`, message, index of the page | `send`, `paginate` | Discord (awaited), collectors of reactions |
| Application life cycle (`watson-factory.ts`, `watson-application.ts`, `application-proxy.ts`, `lifecycle/hooks/`) | started or not, listeners for signals | `create`, `start`, `stop` | loader, explorer, adapter |
| Adapters (`adapters/adapter-ref.ts`, `platform-discordjs/`) | subscriptions of events | `initialize`, `start`, `stop`, listeners | Discord |
| Common library, decorators, reflection, `ts-transformer` | metadata, written when a class is loaded | | everything reads it |

### What is hard, and what makes each part correct

*Instance cache.*  `ɵcreateBindingInstance` looks for an instance (line 288 of
`injector-capability.ts`), awaits dependencies, factory and hook, and only then
stores what it made (line 333).  Two calls in between both create one, and the
slower store replaces an instance already in use.  The key depends on the
lifetime (`Scoped`: the injector, all others: the event).  Correct means: calls
that do not overlap share an instance whenever lifetime and dependencies allow
it, never otherwise; nothing leaves its scope; nothing is handed out before its
hook has returned; and once the calls for a scope are over its instance stays.

*Resolution.*  A resolution recurses through dependencies and awaits each.  The
graph that detects cycles is a multiset of tokens shared by clones of the
inquirer context, so lazy dependencies that are got later meet entries of
resolutions they have nothing to do with.  Entries are removed on success only.
Correct means: no call awaits itself, directly or through others; a circular
dependency is reported only if there is one; the graph holds nothing but what is
being resolved or has failed; what is injected belongs to the event of the
request, or to no event where a `useExisting` provider has dropped it; and every
request ends.

*Bindings.*  A binding is kept on the token itself and inherited by subclasses,
and an array of providers may be refused in the middle.  Correct means: all
injectors that record a singleton have one binding for it, no other token shares
one, elements of multi providers keep their order, and nothing recorded is lost
by a later or failing bind.

*Module loader.*  Imports are scanned concurrently, the check whether a module
is known precedes the awaits of its scan, and scans go on when another one has
thrown.  Then the providers of exports are appended to arrays that other modules
copy.  Correct means: when the root is scanned the map is complete and nobody
writes to it any more; cycles neither block nor run for ever; no error is lost
and none is invented; every module, and every component of it, gets exactly its
own providers and what its imports export; each module has one `ModuleRef` for
good.

*Components and factories.*  `ComponentFactoryResolverImpl.resolve` looks for a
factory, awaits the component and then records one; `create` does the same with
instances, one level below, and `ɵLazy.get` with a dependency.  Records are by
component alone, whatever module was named.  Correct means: callers that do not
overlap, at either level, share; and neither factories nor instances are handed
to a module, injector or event they were not made for.

*Routes explorer.*  Exploring awaits the handler of every route, may fail at any
of them and may be begun again.  Sub-commands whose parent is unknown go to the
end of a queue, in a loop without an await.  Correct means: an exploration that
completes has bound everything, nothing bound is taken back, what a router knows
is handled, and it ends, unless there is a sub-command without a parent.

*Matching and dispatch.*  The prefix of a guild is resolved across an await by
every message that finds none, in any order.  The instances of class interceptors
are appended to an array that all messages of a route share.  Correct means: a
message is matched with a prefix of its own guild and passes each of its filters
and guards before anything that comes after; a cached prefix is never lost and is
replaced for a known reason only; and every message ends, whoever throws.

*Tokenizer and parser.*  The position in the text is moved by hand at every
character, and the end of the text is an equality; the parser takes tokens from a
list in loops that depend on what the token was.  Correct means: tokens are in
order, no letter of the text is lost, a quote that is closed makes a string; the
deepest command that is named is found, what is written becomes its arguments;
and both come to an end.  Two of these the code does not keep: the first letter
behind the prefix is lost, and no value ever becomes an argument.

*Event context and components.*  A handler's calls overlap at Discord: `isReplied`
is read before the reply is awaited and set after, the collector of answers is
made once the question was sent, `paginate` reads the index on one side of an
await and writes it on the other, requests may fail, the channel may go.  Correct
means: the flag says what Discord knows, a prompt is answered by the one who was
asked, the page shown is that of the index, and every call ends.

`PROJECT.json` lists every hazard at its line with the properties that cover it.

## Modules

```
InstanceCache  <---- implemented by ----  Resolution
     ^                                        :  takes the records of
     | one await of it                        :
     :                                   BindingRegistry
Factories

ModuleScan ---- its final map is the input of ----> ModuleProviders

Routes         the routes a message may find
CommandDispatch      CommandTokenizer ---- tokens ----> CommandParser

EventContext  \
               >--- composed by ---- Conversation
WatsonPaginator /
```

`InstanceCacheProofs`, `ResolutionProofs`, `FactoriesProofs`, `RoutesProofs`,
`CommandDispatchProofs`, `CommandParserProofs` and `ConversationProofs` hold the
theorems about the modules of their name, the last one those about the two modules it
composes as well and `CommandParserProofs` those about CommandTokenizer; `LoaderProofs`
holds those about ModuleScan, BindingRegistry and ModuleProviders.  Each model `M` that is run has an `MCM` that gives its constants values for TLC.  Definitions that follow a comment starting
with *Variant:* are not part of any specification: they are plausible mistakes,
kept next to the definition they would replace, and each breaks a property.

**InstanceCache** (`ɵcreateBindingInstance`, `Binding.getInstance`/`setInstance`,
`isDependencyTreeStatic`, `isTransientByDependency`).  `instances` is
`_instances` of all bindings; `pc` is the await a call is at.  `Hit` and `Miss`
are the code up to the first await, `DependenciesResolved`, `Construct` and
`HookReturned` what follows each await, `Return` the store.  `earlier` is a
history variable: the calls that were over when a call began.  An instance is
named after the call that made it.  How dependencies are found is one await.
Dependency lifetimes are a constant: the code computes them from metadata.

**Resolution** opens that await.  Every invocation of `ɵcreateBindingInstance`
is a call with its own `task` (provider, owner of the binding, injector,
event, graph).  `running` is the call that is between two awaits; nobody else
steps until it is at an await, so code without an await between two steps is
atomic here as it is there.  Actions follow `ɵresolveBindingDependencies` in
order: `AwaitHost` for `@Host` (or `HostMissing`, if the injector has no
`ModuleRef`), `InjectLazy`, the check of the graph
(`CheckAndThrow`), `RequestDep` or `RequestAbsentDep` (which throws or injects
null), `Inject` or `Propagate` when the awaited call has ended, then
`DependenciesResolved`.  `FollowAlias` and `AliasResolved` are `useExisting`,
whose request to the injector names neither the event nor the graph; its result is
known by the call that made it, so whose event it is of can be told (`Existing`).
`Located` is `DynamicInjector.get` and `ContextInjector.get`, including the two
handing a token back and forth.  The records of the injectors are constants.
`Cache == INSTANCE InstanceCache WITH ...` is the refinement: a call at its
dependencies, in whatever way, is at `"deps"` there.

**BindingRegistry**: `createBinding` (`BindingFor`, `Created`),
`createResolvedBinding` (`ResolvedAs`), `ɵbindProviders` (`BindOne` is a turn of its
loop, with the state a throw leaves behind), the constructors of
`DynamicInjector` and `ContextInjector`, and `bind`.  Each of these is an array of
jobs, which `AllDone` does one after the other.  None of it awaits, so each
call is one step; what interleaves are the calls.  `saved` is the property
`W_BINDING_DEF`, which `SavedOn` looks for up the prototype chain.

**ModuleScan**: `_scanModuleRecursively`.  A scan is named by the positions in
`imports` that led to it, so several scans of one module are told apart.
`Reflected`, `ImportsFailed` and `ImportsAwaited` are what happens after each
await; `ImportsAwaited` writes the map and starts the scans of the imports in
one step, as the code does; `ChildrenDone` and `ChildFailed` are `Promise.all`.
The imports of every metatype are chosen in `Init`, so a run covers a set of
applications.

**ModuleProviders**: `_recursivelyResolveModuleProviders` with
`resolveModuleExports` and `checkNestedImportExports`, then
`_bindModuleProvidersAndCreateModuleRef` with `ModuleRef._bindProviders`, the
`ComponentRef`s of the module and the container.  It is one synchronous call of
functions that call themselves, so there is a step per turn of one of their loops
and the calls are kept with what is left of these: `calls` merge a module
(`ExportImport`, `MergeImport`, `MergeReturns`) or add what one exports to an array
(`ExportAll`, `ReExport`, `ExportToken`, `ExportsReturn`), `nested` search the
imports for a token (`Search`, `SearchFinds`, `SearchBelow`, `SearchReturns`), and
`stack` creates the refs (`CreateRoot`, `CreateChild`, `SkipChild`, `LoopEnds`).
`providers` are the arrays of the definitions, which all of them change in place;
`processed` are the modules that have their `W_MODULE_PROV`.

**Factories**: the records of the resolvers of every module, the instance map of
every factory's binding and the `instance` of every lazy wrapper.  A call is
asked to `resolve`, to create (`createComponent`, or `resolve` and then `create`)
or to get a lazy dependency; it waits for the component ref (`"component"`), for
the instance (`"instance"`) or for the dependency (`"lazy"`).  A call makes at
most one factory and one instance, which are named after it.  The awaits of
`ɵcreateBindingInstance` are one here; `InstanceCache` gives them in full.

**Routes**: `RouteExplorer.explore`, for several calls that share the explorer.
`at`, `todo` and `subs` are where a call is in its loops, `binding` the route whose
handler is awaited.  `NewCommandRoute` and `NewEventRoute` fail as the code does:
a command configuration reads the host of its route before it is set, and
`EventProxy.bind` is not implemented.  `SpinOnOrphans` is the while loop of the
sub-commands when no parent is known; a spinning call stops everybody else.

**CommandDispatch**: `Match` is `match` of the static, scoped, dynamic and
user-made matchers, `ResyncFrom` the loop of `resyncFor` up to its next await,
`ResolverReturns` and `ResolverThrows` what follows.  `MatchResynced` is a step of its
own: `match` reads the cache again after the await, when another message may have made
or replaced the entry.  Resolvers read the setting of
the guild when they are called and answer later.  `Found` leads to a rejection,
since `CommandProxy` looks the match result up in a map of routes; only a matcher
that returns the route gets on, to `InterceptorMade` (`makeInterceptorCbs`),
`InterceptorPasses`, `InterceptorRefuses`, `InterceptorThrows`, `NextStage` and
`TransformPipes`, which always throws.  `PipelineFails` is an error outside the try of
the lifecycle function, which the try of the proxy catches.  `HandleException` is the
exception handler, `ExceptionHandlerFails` the rejection of the proxy when it cannot be
resolved.

**CommandTokenizer**: one step per character.  A scanner is a loop around
`getChar`, so `frame` is the scanner that runs with its local variables; a scanner
called by another one has the caller's in `outer`.  Characters are members of a
small set, classes of characters the scanners tell apart, under a name where their
own sign is none of TLA+'s identifiers ("space", "quote").  **CommandParser**: one
step per turn of a loop of `parseInput`, from the tokens to the route, its
parameters and its arguments.

**EventContext**: the functions that `ContextProviderFactory` binds, on the calls of
one handler.  A call goes from `"requested"` through `"accepted"` (Discord has done
it) to `"done"` (the client has heard), so its effect and its answer are apart;
`Lose` rejects it.  `pipeline` is what each of the three pipelines gives the
functions: a pipeline of an event has neither channel nor user, that of a command
never knows its guild.  `said` is the channel, `ChannelEnds` its deletion.  A
rejection that nobody awaits sets `alive` to `FALSE`, as Node ends the process.
**WatsonPaginator**: `WatsonComponent.send`, `WatsonPaginator.paginate` and the
reactions between them; `turns` are the edits under way in the order they were
requested.  Each request may fail at any time, for whatever reason: a message or a
reaction is refused, or is there and its answer is lost (`NotSent`, `AddEmote`), and
an edit that fails ends the process (`HandleTurn`), since nobody hears of its
rejection.  **Conversation** composes the two: they share the process, the channel
and what is said in it.  Discord and discord.js are modelled from how the code uses
them and marked external in `PROJECT.json`.

## Runs

Passing runs; every property of them fails for a variant of the code.  A property
in parentheses is a conjunct of the one before.

| run | states | what it checks |
|---|---|---|
| `instance_cache` | 381,435 | `SharingIsSound` (`OneInstanceUnlessOverlapping`, `Confinement`, `FreshUnlessShareable`, `OnlyResolvedInstances`), `SettledForever` |
| `resolution` | 206,963 | `GraphIsSound` (`NoStaleEntries`, `NoReentry`, `CircularErrorIsReal`, `InjectedFromSameEvent`), `EveryCallEnds`, `ImplementsInstanceCache` |
| `binding_registry` | 370,017 | `BindingsAreShared` (`SingletonsAgree`, `OthersAreSeparate`, `MultiInOrder`), `RecordsGrow` |
| `module_scan` | 240,378 | `ScanIsSound` (`ScanIsComplete`, `NothingLeftBehind`, `NoScanBelowItself`, `NoFaultIsSwallowed`, `RefusedForAFault`), `ScanEnds` |
| `module_providers` | 213,886 | `ProvidedAsExported` (what modules and components are provided with, when the loader refuses, one `ModuleRef` each), `RefsStay` |
| `factories` | 1,635,395 | `OneUnlessOverlapping` (`OneFactoryUnlessOverlapping`, `OneInstanceUnlessOverlapping`), `ScopesAreKept` (`FactoryHasAHome`, `InstancesStayInScope`) |
| `routes` | 60,001 | `EndsAsBound` (`CompletedIsWhole`, `KnownRoutesAreHandled`, `OnlyOrphansSpin`), `NothingIsUndone`, `ExplorationEnds` |
| `command_dispatch` | 188,232 | `MessagesStayApart` (`OwnPrefix`, `NobodyBypasses`), `PrefixIsKept`, `EveryMessageEnds` |
| `command_tokenizer` | 6,674 | `LettersAreKept` (`TokensInOrder`, `WordsAreTokens`), `ClosedQuotesAreStrings`, `TokenizingEnds` |
| `command_parser` | 16,628 | `DeepestCommand`, `ArgumentsMatchTokens` (`TakenTokensAreUsed`, `NothingIsMadeUp`, `BareCommandsParse`), `ParsingEnds` |
| `conversation` | 699,901 | `RepliedIsTrue`, `AnswersAreTheAskers`, `IndexIsThePage`, `EveryCallEnds` |

Each also checks the `TypeOK` of its module.  `arguments_refused` shows a
disagreement between code and documentation, see below.

### Why the bounds are enough

*instance_cache*: 3 calls, 2 injectors, 1 event, 7 kinds of binding.  One call
makes an instance, a second overlaps it or follows it, a third sees what they
left; properties relate at most two calls and the makers of their instances.  The
bindings are one of each kind the code tells apart (lifetime, dependency lifetime,
hook, null).  The safety properties are also proved for any number of calls.

*resolution*: two requests, of which one may wait at each of its awaits while
the other runs from start to end, and one lazy get; the 20 providers contain a
cycle of two, a cycle through a lazy and through an optional dependency, an
alias, an alias of a missing provider and of a cyclic one, a context-bound
provider that is bound and one that is not, every flag, a `@Host` dependency in an
injector without a `ModuleRef`, and a factory and a hook that throw.  Ten calls are what the longest chains of two requests and a
lazy get need; `NextCall` is only a name for a fresh call.

*binding_registry*: sharing needs two holders and a second bind of each; arrays
are refused in the middle, hold a class before and after its superclass, and
multi elements in both orders.

*module_scan*: two scans of one module need two importers; a cycle needs two
modules and a root; promises, dynamic modules, duplicates, self-imports, unknown
classes and rejected promises occur in every combination of `MCImports` (240
applications).

*module_providers*: a chain root, a, b, c lets an export pass through two
modules, and a diamond lets it arrive twice; imports in both orders decide which
module is processed first, which is what the aliased arrays depend on.  Imports that
lead back to a module are among them.  One component has a provider of its own, the
other has none.

*factories*: 3 calls, which are interchangeable (nothing else mentions one, so the
symmetry is sound), 2 modules with a component each and one provider outside of
both; one of each lifetime.  Two calls race, a third sees what is left; the safety
properties are proved for any number.

*routes*: 2 routers with up to three of six methods (one command, two application
commands, an event, a sub-command with a parent and one without), in all
assignments; 2 explorations, overlapping or one after the other.  Failures depend
on the first method of a kind, so three are enough for something before and
something after.

*command_dispatch*: 2 messages, 2 guilds (one without a prefix set), 5 matchers,
two of them scoped, with a literal after a resolver and with two resolvers.  A
third message adds nothing to two that race and one that finds the cache filled;
the safety properties and `PrefixIsKept` are proved for any number.

*command_tokenizer*: all texts of up to `MaxText` = 3 characters of nine classes
behind the prefix, and 17 longer ones, up to eleven characters, for code blocks,
mentions, emotes, numbers and parameters.  Every scanner looks ahead by at most two
characters.  A list longer than `MaxTokens` is not told apart; only the endless
loop of `TokenizingEnds` reaches it.

*command_parser*: all lists of up to 4 tokens of every kind that is treated in its
own way behind the prefix; commands three levels deep, parameters of every type,
optional, with default and hungry.

*conversation*: 2 calls of any function, or 2 senders of a paginator of 3 pages;
`MaxSaid` = 3 messages in the channel (the question, one of somebody else, the
answer), `MaxPresses` = 2 reactions, `MaxTurns` = 2 requests under way, `MaxEffort`
= 4 for presses and sends together: two sends, or one and two presses.  A behaviour
has calls or a paginator, not both: the two share nothing but process, channel and
messages, and the deletion of the channel and the end of the process reach both.

### Fairness

The event loop goes on while a promise has settled, and what the application's
author or Discord is asked for answers or throws in the end: a factory that never
settles blocks its requests in the code as well.  So *resolution* assumes weak
fairness of some call that can proceed, *module_scan*, *command_tokenizer* and
*command_parser* (one call each, which nothing can hold up) of the next-state
relation, *routes* of every exploration, *command_dispatch* of every message and
*conversation* of every call, sender and turn.  Nothing is assumed about which
answer comes first.  No fairness is assumed for new requests, explorations and
messages, for a change of a setting, for what users say or press, nor for the
deletion of a channel: `EveryCallEnds` of *conversation* leaves a prompt waiting
that nobody answers, since the code has no timeout.

`CHECK_DEADLOCK FALSE` is set where the system stops: calls may all have ended,
an application is loaded or refused, a text is parsed, binds are bounded, the
process has ended.  That nothing stops *earlier* is what the liveness properties
say.

## Proofs

Proved with TLAPS, for every value of the constants that satisfies the assumptions
of the modules; the assumptions say what the code makes sure of and TLC evaluates
them in the runs:

- null and undefined (`Nil`, `Null`) are no binding, route, token, call or the like,
  as in the code, where they are compared with `===` or by truth;
- injectors and contexts are different objects, and an injector is made after its
  parent, which its constructor is given, so that chains of parents end
  (`ParentAssumption`);
- chains of superclasses end (`TokensFit`), and what the constructors of injectors bind
  themselves are custom providers of tokens that are not `multi`, whatever their lifetime
  (`ProvidersFit`: INJECTOR is a Singleton, Injector and ModuleRef are Scoped);
- the map of definitions holds the root module and exactly what it leads to, as the scan
  leaves it (`Completeness`; `AppAssumption`), and a class is its own token
  (`ResolvableAssumption`);
- prefixes are normalized once; a method is decorated as one kind of route;
- the application is a speaker of its own in the channel, those who send a paginator
  are finitely many, and it has a page to show.

Each proof has an inductive invariant with its initial case and, one per action, its
steps as lemmas.  In *InstanceCache*, *ModuleScan*, *Factories*, *CommandDispatch* and
the event context it is called `IInv`.

**InstanceCache** (`TypeOK`, `SharingIsSound` and each of its parts,
`SettledForever`).  `IInv` adds to the types

- `EntriesInv`: what an entry of the cache holds was made by a call that is over,
  for this binding and key, and its binding is not transient;
- `ResultsInv`: what a call returned was made for the entry it asked for, by
  itself or, if the binding allows it, by a call that is over;
- `FilledInv`: an entry whose instance was once returned is never empty again;
- `HistoryInv`: a call that makes, or may still make, a shared instance began
  when no finished call had been given an instance of that entry;
- `IdleInv`, `RequestsInv`, `NullishInv`: calls that have not begun know nothing,
  those that have, know their request; null is not an instance.

Why it is needed: `OneInstanceUnlessOverlapping` is about two calls that are over
and the makers of their instances, and says nothing about a call in flight that
is about to store.  `HistoryInv` carries the fact that it had found the entry
empty across its awaits, and `FilledInv` makes "found it empty" mean that nobody
had been served.  `LEMMA SameScopeIsSameEntry` links the scope a lifetime
promises to the key the code uses, and `ShareableIsReusable` the promise of
sharing to the condition of the code; both use that injectors and contexts
differ.  `SettledForever` is an action property, proved from `IInv` and
`SettledStep`.

**ModuleScan** (`TypeOK`, `ScanIsSound` and its parts).  `IInv` consists of

- `TreeInv`: scans form a tree, those above a scan have started it, or the one
  through which they await it, themselves;
- `DoneInv`: nothing is on its way below a scan that is done;
- `MapInv`: every definition in the map is that of a scan past its imports, and
  whatever a waiting or done scan imports is in the map or is being scanned by a
  child of it;
- `NoScanBelowItself`, which the fact that everything above a scan is in the map
  keeps true;
- `FaultInv`: a scan gets past a step only if there is nothing wrong with it.

Why it is needed: `ScanIsComplete` is about the end only, and a scan that skips an
import relies on another scan, elsewhere in the tree and still on its way.  The
root is above every scan, so with `DoneInv` all of them are done when the root
is, and `MapInv` then leaves only the map.  The step that starts scans is split
from its effect: `ImportsAwaitedStarts` gives the step as `Starts(s, new)`,
`StartsPreserve` and `MovesPreserve` show that the two kinds of steps keep
`IInv`.

**BindingRegistry** (`RegistryTypeOK`, `BindingsAreShared`, `RecordsGrow`, for any tokens,
lifetimes, superclasses and arrays).  `RegistryInv` says that bindings of other tokens than singletons are all
different and older than the next (`Distinct`), that a steady singleton is recorded with
what is now saved on it (`Latest`), that other tokens are recorded with bindings made for
the injector (`Own`), that an injector records as many bindings of a multi token as it was
given providers, in order unless the token is a singleton (`InOrder`; a singleton needs
`SavedMulti`, for its later bindings are the one on the token), and that who is not there has nothing (`Untouched`, for a
constructor that throws).  `SingletonsAgree`, which leaves out INJECTOR and the multi
tokens, compares two injectors, and a step sees one:
only `Latest` ties each of them to the token.  It is kept because a binding is saved anew
on a token only if neither the token nor a class above it has one (`SavedStays`), and for
that the classes above must be singletons as well, which is where `MixedLineage.cfg`
fails.  One step is the work on a whole array, a recursion over it: `AllDoneIn` shows once
that what every job keeps the array keeps, and `SavedIs` that the search up the
superclasses ends, both by a least counterexample.  `BindLeads` reduces a turn of the loop
to what it may do to the records, add at the end or nothing, from which `RecordsGrow`
follows as well.

**ModuleProviders** (`ProvidersTypeOK`, `ProvidedAsExported`, `RefsStay`, for any modules
and any imports and exports).  `ProvidersInv` consists of

- `CallsInv`: a call that merges `m` has given `m` what the imports behind it in its loop
  export (`Given`), and each of these is processed or is what the next call merges; a
  call that exports has added what the exports behind it declare, or the next call does;
- `ProcessedInv`: a processed module was given what its imports export, and these are
  processed;
- `NestedInv`: the imports that a search has passed offer no provider of the token, nor
  does anything below them, unless the next search is there;
- `ArraysInv`: every custom provider in an array is that of the module, or one that is
  exported below it; if modules that export themselves import nothing, an array holds
  nothing that is not meant for its module;
- `PhaseInv`: a loader that threw because of an export met a bad one, and past merging
  the root module is processed;
- `RefsInv`: what a module with a `ModuleRef` imports has one or is left in a loop of the
  stack, the parent of a module imports it, and the injectors hold what the arrays say.

Why it is needed: `ProvidedAsExported` is about the loaded application, while an array is
filled by a call for every module above, in the middle of loops of others.  When the root
module is processed all modules are, since only they are reached by imports, so
`ProcessedInv` gives `ExportsArrive` and that no export is bad.  Only what is imported is
asked for its exports, and without cycles that is never the root module
(`RootIsNotBelow`), which `HasBadExport` leaves out.  Arrays only grow, so what was given stays (`GivenStays`), although
the array that a call reads may be one that another call has yet to fill.  A token that a
module exports is found either in its array or by the search, and the two say the same of
a bad export because of `ArraysInv`: a token that arrived from below is exported below.
The closures `IsBelow` and `ExportedFrom` are intersections of closed sets, which makes
the lemmas on them first-order.

**Factories** (`TypeOK`, `OneUnlessOverlapping`, `ScopesAreKept`).  The argument of
the instance cache on two levels.  Of factories: what is recorded, or was handed
out, was made for the same record (`RecordsInv`, `HandedInv`, `MakersInv`), a record
is never empty again (`FilledInv`), and a call that found none began when nobody who
was done had been handed one (`HistoryInv`).  Of instances the same, in the scope of
a factory (`KeptInv`, `LazyInv`, `KeepsInv`, `InstanceHistoryInv`).  The levels meet
in `SamePlace`: two creations look at one place only if they
were handed one factory, which is why a race for the factory splits instances.

**CommandDispatch** (`TypeOK`, `MessagesStayApart`, `PrefixIsKept`).  `IInv` says of
every message its `StateOf` (a message that resolves is unmatched, scoped, had
found no entry, and its answer is of its guild; before the pipeline nobody was asked), `StageOf` (the
interceptors made so far are in the array of the route; those collected are exactly
the requested ones, though others' are among them; those before the index let it
pass) and the two properties; of the cache that an entry is a prefix of its guild or
a literal of its matcher (`CacheInv`).  `OneMessage` shows once that a step of one
message keeps what is known of the others, because the shared arrays only grow.
`MatchOutcome` and `ResyncOutcome` reduce the cases of matching to the four things
they may lead to (`Outcome`).  `PrefixIsKept` is an action property, proved from `IInv`
step by step (`KeptNext`): only `Receive` and `ResolverReturns` write the cache, the one
where there was nothing, the other for a message that had missed.

**Resolution** (`TypeOK`, `ImplementsInstanceCache`, `GraphIsSound` and each of its
parts, for any providers, flags, injectors and number of requests).

- `ShapeInv`: a call is at a dependency only if it has one there; a call that waits
  has begun the younger call it waits for, in its own event, on its own graph or on a
  new one; calls are numbered in the order in which they begin.
- `ArgsInv`: what a factory is handed was returned by calls for the same event, or is
  Scoped.
- `AliasInv`: a call that a `useExisting` provider waits for is asked for in no event,
  and so what it returns is of no event, or Scoped.
- `CountInv`: a token is in a graph at most as often as resolutions on the graph are at
  it, or failed at it, and exactly as often unless a lazy dependency has taken it out.
- `NoReentry` itself, which needs `CountInv`: a call looks into the graph before it
  awaits, and the graph has the token of everyone who awaits that call on it.

Why they are needed: `NoStaleEntries`, `NoReentry` and `CircularErrorIsReal` each
compare the graph with the calls that await each other, while a step sees one call and
one graph; only the number of entries tells that somebody else is still at the token
that a call takes out.  Two recursions are met on the way, up the parents of an injector
and down the chain of waiting calls; both end, by `ParentAssumption` and because who
waits is older, so the lemmas about them take a least counterexample.

The refinement (`Refinement`) needs `ShapeInv` only.  `StepIsStutter` is for steps that
leave a call at its dependencies in InstanceCache's terms, `StepOfCall` for those that
move it.  A factory of this model returns no null, so `Nullish` is empty.  Since
`CacheProofs` instantiates the proofs of InstanceCache, its theorems hold of resolution:
`ResolvedSharing`, `ResolvedSettlement` and, through `ResultsInv`, what `ArgsInv` needs
to know of an awaited instance.

**Routes** (`TypeOK`, `EndsAsBound`, `NothingIsUndone`).  `CompletedIsWhole` and
`OnlyOrphansSpin` speak of the end of an exploration.  `ProgressInv` says during it where
each method is that the call has come to: bound, awaited or still in `todo` or `subs`.
`KnownRoutesAreHandled` needs `OpeningInv`: a proxy for events, which handles nothing,
is made only by an event that opens the application, and then every exploration comes to
that event first and fails at it, so no other route is ever bound to that proxy.  Until
an application command was bound no call has passed anything but empty routers.  What
two explorations do to each other is in these two, as the proxy and the routes are
shared.

**CommandParser** (`TypeOK`, `DeepestCommand`, `ArgumentsMatchTokens`, for any commands,
parameters and lists of tokens).  Tokens are only taken from the head, so `PlaceInv` is
about the number taken: none before the prefix, one before the command, as many as
`path` has names and one more at the sub-commands, and parameters only from there on.
`IsNamed` has the routes that the names led to as a function, which grows by one at
every sub-command; that it agrees with the recursion of `CommandAt` is `CommandIsLed`.
`NoFlagIsSet` is what the defect of `isFlagSet` comes to in general: no kind of token is
ever accepted, so no value is ever parsed, whence every argument of a parsed command is
null, a default or the true of a switch.  `UsedInv` ties the names that were taken to the
arguments: each has one, although the argument is set under the name of whichever
parameter was pushed last, because that is the one the token named.  It also says that no
value is next once something was parsed, so what `cleanUpTokenOverflow` drops is a name.

**CommandTokenizer** (`TokenizerTypeOK`, `ClosedQuotesAreStrings`, `LettersAreKept`,
for any message).  `ScanInv` has the places: a scanner has read a character at least,
and what it goes back to is not before that (`CursorInv`), so that the cursor never
passes the end, which is found by equality.  `QuoteInv` says of a string that its quote
was not met between the opening one and the cursor.  Order is harder, as two tokens of
one place are saved when a mention closes inside of a generic token, and what is saved
behind the two would be out of order.  Nothing else is: the cursor goes back to before
the bracket, and a mention is a function of the characters from its bracket on
(`PathInv`), so the same one is met, closed and saved again.  `InLoop` says where the
tokenizer is meanwhile, `LoopStep` that it stays, and `TrailInv` that the last token ends
before the one that is scanned or is of that loop.  So `ClosedInsideNeverEnds` is a
theorem too, a safety property: from such a mention on, the tokenizer is never done,
which is the case `TokenizingEnds` leaves out.  `PlainInv` has the words: in a text of
letters and blanks the words up to the start of the token, the first one without the letter
that the code passes over, are exactly the tokens with a
text, and no word goes on over that start (`Boundary`).  `OneWordEnds` and `NoWordEnds`
say what a scan from one boundary to the next adds to the words.

**Conversation**.  Of the event context: `ContextTypeOK`, `RepliedIsTrue` and
`AnswersAreTheAskers`, for any number of calls and speakers and whatever the paginator
does.  `IInv` adds that a reply Discord has accepted is the acknowledgement
(`AcceptedInv`), so no deferral and no second reply is accepted after it, and that who
listens was asked by a message of the application (`AskedInv`).  Of the paginator:
`IndexIsThePage`, for any number of pages, senders and reactions.  `PInv` adds that
requests are answered in order (`OrderInv`); that the only message shows the page of the
last answered request whose index is yet to be stored, or of the index if there is none
(`ShownInv`); and that as long as no turns overlapped there is one request at most, for
the page next to the index, and the index is the sum of the turns modulo the pages
(`ExactInv`).  `IndexIsThePage` is about the time when no request is under way, and only
`ShownInv` relates message and index while one is.  `TypeOK` is proved of both together,
so the index is never outside of the pages.

**Only model-checked**: all liveness, which is out of the prover's reach, and that the
properties under [Where the code differs](#where-the-code-differs-from-what-it-says) are
violated, which is a matter of a counterexample.  Every invariant and every action
property of the passing runs is stated by a theorem.  What a recursion computes for every
input is induction over data, for which the prover has no rule: where a proof met a
recursive function a least counterexample took its place, and ModuleProviders has a step
for every turn of its recursions.

## Where the code differs from what it says

`arguments_refused` is a run of its own: `isFlagSet` compares the masked bits with
1 (`common/src/lib/utils/is-flag-set.utils.ts:37`), so it is true for the lowest
bit only, while its comment (line 27) promises to "return true if input is a flag".
The parser asks it whether a token has a kind its parameter accepts and refuses one
that has: `AcceptedKindsAreAccepted` is violated.

The following are kept as configurations beside the runs; each violates the
property it names.

| configuration, module | property | the code | what is said |
|---|---|---|---|
| `SingletonPerEvent.cfg`, MCInstanceCache | `SingletonIsShared` | `injector-capability.ts:288` keys a singleton by the event | `injection-token.ts:24`: shared among all modules that import the exporting one |
| `CaptiveDependency.cfg`, MCResolution | `NoInstanceOfAnotherEvent` | `binding.ts:176` looks at direct dependencies only | `binding.ts:162`: "any dependencies that might change" |
| `AliasDropsEvent.cfg`, MCResolution | `AliasIsOfItsEvent` | `injector-capability.ts:45` asks the injector without the event of the request | `custom-provider.interface.ts:93-94`: a provider "that is identical to the `useExisting` token in the injector" |
| `LazySharesGraph.cfg`, MCResolution | `NoCycleWithoutDependencies` | `inquirer-context.ts:66` lets the clone share the graph | line 61: changes to the clone do not change the original |
| `FirstPrefix.cfg`, MCBindingRegistry | `EventProvidesItsOwn` | `core/src/lib/command/pipe/command-pipe.ts:108` binds the prefix as a factory, so as a singleton | `prefix.interface.ts:12`: "the prefix that was used by the user to run a command" |
| `MixedLineage.cfg`, MCBindingRegistry | `AllSingletonsAgree` | `binding.ts:288` finds the property of a superclass: a singleton that extends a class bound once per injector takes that class's binding | `binding.ts:280-282`: "the same instance even throughout different injectors" |
| `DefaultMulti.cfg`, MCBindingRegistry | `EveryProviderCounts` | `binding.ts:287`: of a multi token of the default lifetime every provider gets the binding of the first; the test at `injector.spec.ts:79` binds one provider twice, so that it cannot tell | `injector.spec.ts:79`: "Multi providers create instances for each provider" |
| `InjectorOfAnother.cfg`, MCBindingRegistry | `InjectorsProvideThemselves` | `injector-token.ts:5` gives INJECTOR no lifetime, so every injector after the first records the first one | line 6: "The current module injector for a given module." |
| `CircularImports.cfg`, MCModuleScan | `CircularImportsAreRefused` | `module-loader.ts:122` does not hand the path on, so only a module that imports itself is noticed | line 115: `Circular dependency detected` |
| `UnexportedLeak.cfg`, MCModuleProviders | `OnlyExportsAreProvided` | `module-loader.ts:260` appends to an array others hold | `injection-token.ts:68`: restricted to modules that import the module, "given it is exported" |
| `FirstCharacterLost.cfg`, MCCommandTokenizer | `EveryWordIsAToken` | `tokenizer.ts:117` moves the cursor before it reads; behind the prefix (line 421) it is at the first letter already, and a token is begun by reading on (line 895), so that letter is passed over; `string-builder.ts:113` joins the others with commas: `!ban` gives `a,n` | `command-token.interface.ts:75-78`: "`!ban @BeepBoop being too cute 24`" results in "`ban` - Command" |
| `OverflowLost.cfg`, MCCommandParser | `OverflowIsAdded` | `parser.ts:574` takes the next token and returns, since `isFlagSet` holds of none: one name is dropped and all that follows is ignored | `parser.ts:538-542`: generic tokens at the end "we add them to the last argument parsed, given it was a generic token" |
| `RequiredMissing.cfg`, MCCommandParser | `RequiredAreGiven` | `parser.ts:509` pushes a parameter that was pushed before, so that the count of line 300 is reached without the next one | `parser.ts:533`: "Could not find required parameter with name ${name} in the command message" |
| `StalePrefix.cfg`, MCCommandDispatch | `PrefixFollowsSetting` | `scoped-prefix-cache.ts:41`: nothing ever updates an entry | `matching-strategy.enum.ts:41`: "updated periodically, after a command was run" |

The properties of the passing runs are worded so that they do not depend on these:
`SettledForever` and `Confinement` speak of scopes as the code keys them,
`ProvidedAsExported` leaves out modules that export themselves and import others,
`CircularErrorIsReal` leaves out graphs a lazy get has disturbed,
`InjectedFromSameEvent` says of what a `useExisting` provider gives that it is of no event, `BindingsAreShared`
speaks of the singletons that inherit from singletons only (`Steady`), not of INJECTOR and
of multi tokens, of which it says how many bindings there are and, unless they are
singletons, which ones, `PrefixIsKept`
allows a cached prefix to be replaced by the one that is set, which the code never does,
`LettersAreKept` leaves out the letter behind the prefix (`LostWord`) and takes the letters
as the code joins them, and `ArgumentsMatchTokens` speaks of the tokens that were taken, not
of those that are left or refused, leaves out the name that is dropped at the end
(`IsDroppedOverflow`) and says nothing of parameters that are not named.

Some say less than a reader may expect.  `RepliedIsTrue` does not say that only one reply
is sent: two overlapping calls both send one, Discord takes one, and the flag is about
that one.  `AnswersAreTheAskers` counts from the time the collector is there; a message
between the question and the collector is a step of the model, and nobody hears it.
`IndexIsThePage` says nothing of a component that was sent twice: it has two messages and
one index.  For `EveryCallEnds` of *conversation* the end of the process, which a rejection
that nobody awaits brings about, is one of the ends of a call.

Found by reading while the models were written, and built into them:

- `prompt.inquirable.ts:9` says that a prompt resolves to `undefined` after its
  timeout; there is no timeout, and a collector that ends gives null
  (`context-provider-factory.ts:166-171`).
- The pipelines of events do not await the creation of their context, which calls a
  `getVoiceChannel` they do not have (`event-pipeline.ts:19-26`,
  `context-provider-factory.ts:45`): an unhandled rejection.
- `CommandPipelineImpl` never sets `_guildId` (`pipeline-base.ts:16`), so a command in
  a guild looks like one outside of it.
- `createAndBindInjector` drops the injector it creates (`pipeline-base.ts:65-72`), so
  the functions of the context cannot be reached through it.  The factories for
  interactions and events return null (`route-handler-factory.ts:105-113`), and the
  pipes of a command always throw.
- Providers of a component for a context are recorded and never bound
  (`component-ref.ts:47-50`, `99`).
- The paginator hears the reactions it adds itself, and presses that overlap on one
  page move it once.  Two calls of `send` both send.
- The start of an application always fails: the explorer is called without its
  injector and without an adapter, and the handler for that error calls a missing
  `getContext` inside an async executor (`bootstrapping-handler.ts:23`), so the promise
  of the start never settles and the rejection is unhandled.

## Not modelled

Within the parts that are modelled:

- multi providers and dependencies on the `InquirerContext` in *Resolution*: the
  elements of a multi provider are resolved one after the other like dependencies, and
  what an inquirer is told about itself has no effect on others;
- multi providers in *ModuleProviders*, and a second application in one process, which
  would find the providers of the first on the module classes;
- the proxies of other events in *CommandDispatch*: their methods throw that they are not
  implemented;
- the conversion of arguments to users, roles and dates in *CommandParser*: requests to
  Discord and libraries for formats, on one argument at a time;
- the list component, which formats its list once, in its constructor.

Parts without a model:

- *Command container*: a map nothing fills, as no command is ever bound.
- *Handler parameters and responses*: they come after the pipes, which always throw.
- *Interactions from components*: nothing constructs the class.
- *Application life cycle*: the start has one behaviour, given above, and nothing
  follows it.
- *Application references*: an abstract class, and a holder of the root module.
- *Adapters*: they hand calls on to discord.js, and no application gets to start one.
- *Decorators and reflection*: metadata, written once when a class is loaded; the
  models take the result as constants.
- *Common library*: sequential data structures and decorators; the trie serves a cache
  no matcher uses.
- *Type transformer*: source to source, at compile time.

Factories, resolvers and requests that never settle are outside of every liveness
property, see [Fairness](#fairness).

## Plan

Done, in this order: the core, InstanceCache, Resolution as its refinement and
BindingRegistry; the loader, ModuleScan and ModuleProviders; Factories; what happens to
a message, Routes, CommandDispatch, CommandTokenizer and CommandParser; the event
context and the paginator, composed in Conversation.  Proofs of InstanceCache,
ModuleScan, Factories, CommandDispatch and the event context, then of Resolution with
its refinement, Routes, CommandParser and the paginator, BindingRegistry,
CommandTokenizer and at last ModuleProviders.

Left:

1. Multi providers and a second load in ModuleProviders.
2. The handler stage and the life cycle, once the code reaches them.
