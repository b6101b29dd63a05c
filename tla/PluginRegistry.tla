---------------------------- MODULE PluginRegistry ----------------------------
(***************************************************************************)
(* Local plugins from their directories to the page: discovery             *)
(* (internal/plugins/discovery.go), the loader, the registry, the compiler *)
(* worker with its pending requests and timers (plugin.service.ts), and    *)
(* the cache of compiled plugins in IndexedDB, which outlives the page.    *)
(*                                                                         *)
(* A plugin's source files are one value, beside its manifest; compiled    *)
(* code is named by the files and the entrypoint it was compiled from.     *)
(* Manifests here are those the registry's types describe.  The Go struct  *)
(* of discovery.go drops the capability lists, so with the server of this  *)
(* commit `caps' is empty (README, section 3.3).                           *)
(***************************************************************************)
EXTENDS Naturals, Sequences, FiniteSets, SequencesExt, FiniteSetsExt

CONSTANTS
  NumDirs,         \* subdirectories of the plugins directory, read in order
  Contents,        \* what a directory may hold: [id, valid, files, caps]
  None,            \* null
  MaxEdits,        \* bounds changes of the directories
  MaxReloads       \* bounds page loads

Kinds == <<"visualizer", "paramInput", "inspectorTab", "hook", "route">>

ASSUME PluginAssumption ==
  /\ NumDirs \in Nat /\ MaxEdits \in Nat /\ MaxReloads \in Nat
  /\ None \notin Contents
  /\ \A c \in Contents : \A i, j \in DOMAIN c.caps :
       /\ c.caps[i].kind \in ToSet(Kinds)
       /\ i < j => SelectInSeq(Kinds, LAMBDA k : k = c.caps[i].kind)
                     <= SelectInSeq(Kinds, LAMBDA k : k = c.caps[j].kind)

VARIABLES
  disk,      \* directory -> content or None
  cache,     \* set of [key, code, old]; old: compiled for another Svelte runtime
  plugins,   \* plugin id -> [status, manifest]
  offered,   \* [id, kind, name] -> [manifest, code, from]; the five capability maps
  loader,    \* [at, phase, queue, todo, built, code]; the one run of loadLocalPlugins
  workerRequests,  \* messages to the worker, which answers them in order
  pending,   \* the key of pendingCompilations, or <<>>; the loader awaits one at a time
  timers,    \* bag of keys with a 60-second timer running
  writing,   \* cache writes under way
  edits, reloads,
  crowded    \* history: three plugins of one listing shared an id

pageState == <<plugins, offered, loader, workerRequests, pending, timers, writing>>
pluginVars == <<disk, cache, pageState, edits, reloads, crowded>>

(***************************************************************************)
(* Manifests.                                                              *)
(***************************************************************************)
\* componentsToCompile: one entry per file, at its first place, labelled by
\* the last capability that names it.
componentsToCompile(c) ==
  FoldLeft(LAMBDA files, cap : IF cap.component \in ToSet(files) THEN files ELSE Append(files, cap.component),
           <<>>, c.caps)
Label(c, component) ==
  LET i == SelectLastInSeq(c.caps, LAMBDA cap : cap.component = component)
  IN <<c.id, c.caps[i].kind, c.caps[i].name>>
CacheLabel(c) == <<c.id>>

\* The id and the SHA-256 of the files, which do not include the manifest; no
\* two contents have one hash.
generateCacheKeyById(c) == <<c.id>>
generateCacheKey(c) == <<c.id, c.files>>

Compiled(c, component) == [id |-> c.id, files |-> c.files, component |-> component]

CapKey(c, cap) == [id |-> c.id, kind |-> cap.kind, name |-> cap.name]
Offer(c, caps, codeOf(_), from) ==
  LET keys == {CapKey(c, cap) : cap \in caps}
  IN [k \in keys |-> LET cap == CHOOSE x \in caps : CapKey(c, x) = k
                     IN [manifest |-> c, code |-> codeOf(cap.component), from |-> from]]

\* From the cache only the first visualizer is registered.
FirstVisualizer(c) ==
  LET i == SelectInSeq(c.caps, LAMBDA cap : cap.kind = "visualizer")
  IN IF i = 0 THEN {} ELSE {c.caps[i]}

(***************************************************************************)
(* A page starts with empty state.                                         *)
(***************************************************************************)
NoLoader == [at |-> "off", phase |-> "component", queue |-> <<>>, todo |-> <<>>,
             built |-> <<>>, code |-> None]
FreshPage ==
  /\ plugins' = <<>> /\ offered' = <<>> /\ loader' = NoLoader
  /\ workerRequests' = <<>> /\ pending' = <<>> /\ timers' = <<>> /\ writing' = {}

PluginInit ==
  /\ disk \in [1..NumDirs -> Contents \cup {None}]
  /\ cache = {}
  /\ plugins = <<>> /\ offered = <<>> /\ loader = NoLoader
  /\ workerRequests = <<>> /\ pending = <<>> /\ timers = <<>> /\ writing = {}
  /\ edits = 0 /\ reloads = 0 /\ crowded = FALSE

Edit(d, c) ==
  /\ edits < MaxEdits /\ edits' = edits + 1
  /\ disk[d] # c /\ disk' = [disk EXCEPT ![d] = c]
  /\ UNCHANGED <<cache, pageState, reloads, crowded>>

\* A new page, perhaps of a new version of the application: code compiled
\* for the old Svelte runtime may no longer run.
Reload(updated) ==
  /\ reloads < MaxReloads /\ reloads' = reloads + 1
  /\ FreshPage
  /\ cache' = IF updated THEN {[e EXCEPT !.old = TRUE] : e \in cache} ELSE cache
  /\ UNCHANGED <<disk, edits, crowded>>

(***************************************************************************)
(* loadLocalPlugins.                                                       *)
(***************************************************************************)
Current == Head(loader.queue)
WithPlugin(id, value) == [i \in DOMAIN plugins \cup {id} |-> IF i = id THEN value ELSE plugins[i]]
Status(c, status) == WithPlugin(c.id, [status |-> status, manifest |-> c])
WithOffers(f) == [k \in DOMAIN f \cup DOMAIN offered |-> IF k \in DOMAIN f THEN f[k] ELSE offered[k]]

Advance ==
  loader' = [NoLoader EXCEPT !.at = IF Len(loader.queue) = 1 THEN "done" ELSE "next",
                             !.queue = Tail(loader.queue)]
Fail ==
  /\ plugins' = Status(Current, "error")
  /\ Advance

loadLocalPlugins ==
  /\ loader.at = "off"
  /\ loader' = [loader EXCEPT !.at = "listing"]
  /\ UNCHANGED <<disk, cache, plugins, offered, workerRequests, pending, timers, writing, edits, reloads, crowded>>

\* HandleListPlugins answers with the directories that hold a plugin, in order.
DiscoverPlugins ==
  LET dirs == {d \in 1..NumDirs : disk[d] # None}
      nth(k) == CHOOSE d \in dirs : Cardinality({x \in dirs : x <= d}) = k
  IN [k \in 1..Cardinality(dirs) |-> disk[nth(k)]]
Crowded(list) == \E i, j, k \in DOMAIN list :
  i < j /\ j < k /\ list[i].id = list[j].id /\ list[j].id = list[k].id

Listed ==
  /\ loader.at = "listing"
  /\ \/ /\ loader' = [loader EXCEPT !.at = IF DiscoverPlugins = <<>> THEN "done" ELSE "next",
                                    !.queue = DiscoverPlugins]
        /\ crowded' = (crowded \/ Crowded(DiscoverPlugins))
     \/ loader' = [loader EXCEPT !.at = "failed"] /\ UNCHANGED crowded
  /\ UNCHANGED <<disk, cache, plugins, offered, workerRequests, pending, timers, writing, edits, reloads>>

\* registerExternal up to the look-up; a manifest without a version is only
\* logged.
registerExternal ==
  /\ loader.at = "next"
  /\ \/ ~Current.valid /\ Advance /\ UNCHANGED plugins
     \/ /\ Current.valid
        /\ plugins' = Status(Current, "loading")
        /\ loader' = [loader EXCEPT !.at = "lookup"]
  /\ UNCHANGED <<disk, cache, offered, workerRequests, pending, timers, writing, edits, reloads, crowded>>

compileInWorker(label, code) ==
  /\ workerRequests' = Append(workerRequests, [label |-> label, code |-> code])
  /\ pending' = label
  /\ timers' = [l \in DOMAIN timers \cup {label} |->
                  (IF l \in DOMAIN timers THEN timers[l] ELSE 0) + (IF l = label THEN 1 ELSE 0)]

Entry(c) == {e \in cache : e.key = generateCacheKey(c)}

\* The cache may answer that it has an entry or none, or reject.
Lookup ==
  /\ loader.at = "lookup"
  /\ LET c == Current  files == componentsToCompile(c)
     IN \/ /\ Entry(c) # {}
           /\ loader' = [loader EXCEPT !.at = "cached"]
           /\ UNCHANGED <<plugins, workerRequests, pending, timers>>
        \/ /\ Entry(c) = {} /\ files # <<>>
           /\ loader' = [loader EXCEPT !.at = "await", !.phase = "component", !.todo = files, !.built = <<>>]
           /\ compileInWorker(Label(c, files[1]), Compiled(c, files[1]))
           /\ UNCHANGED plugins
        \/ /\ Entry(c) = {} /\ files = <<>>
           /\ plugins' = Status(c, "ready")
           /\ Advance
           /\ UNCHANGED <<workerRequests, pending, timers>>
        \/ Fail /\ UNCHANGED <<workerRequests, pending, timers>>
  /\ UNCHANGED <<disk, cache, offered, writing, edits, reloads, crowded>>

(***************************************************************************)
(* loadFromCache.  Old code may fail to run; then its entry is deleted and *)
(* the plugin is in error until the next page.                             *)
(***************************************************************************)
loadFromCache ==
  /\ loader.at = "cached"
  /\ LET c == Current  e == CHOOSE x \in Entry(c) : TRUE
     IN \/ /\ plugins' = Status(c, "ready")
           /\ offered' = WithOffers(Offer(c, FirstVisualizer(c), LAMBDA component : e.code, "cache"))
           /\ Advance
        \/ /\ e.old
           /\ loader' = [loader EXCEPT !.at = "dropping"]
           /\ UNCHANGED <<plugins, offered>>
  /\ UNCHANGED <<disk, cache, workerRequests, pending, timers, writing, edits, reloads, crowded>>

DropEntry ==
  /\ loader.at = "dropping"
  /\ cache' = cache \ Entry(Current)
  /\ Fail
  /\ UNCHANGED <<disk, offered, workerRequests, pending, timers, writing, edits, reloads, crowded>>

(***************************************************************************)
(* The worker.  It may answer late or, when it fails, never; an answer     *)
(* settles whatever waits under its key, and so does a timer.              *)
(***************************************************************************)
WorkerAnswers(success) ==
  /\ workerRequests # <<>>
  /\ workerRequests' = Tail(workerRequests)
  /\ IF Head(workerRequests).label # pending THEN UNCHANGED <<pending, loader, plugins>>
     ELSE /\ pending' = <<>>
          /\ IF success THEN /\ loader' = [loader EXCEPT !.at = "execute", !.code = Head(workerRequests).code]
                             /\ UNCHANGED plugins
             ELSE Fail
  /\ UNCHANGED <<disk, cache, offered, timers, writing, edits, reloads, crowded>>

WorkerSilent ==
  /\ workerRequests # <<>>
  /\ workerRequests' = Tail(workerRequests)
  /\ UNCHANGED <<disk, cache, plugins, offered, loader, pending, timers, writing, edits, reloads, crowded>>

Running(label) == label \in DOMAIN timers /\ timers[label] > 0
\* A plausible slip: a timer that only forgets the request.
ForgetPending(label) ==
  /\ Running(label)
  /\ timers' = [timers EXCEPT ![label] = @ - 1]
  /\ pending' = IF pending = label THEN <<>> ELSE pending
  /\ UNCHANGED <<loader, plugins, disk, cache, offered, workerRequests, writing, edits, reloads, crowded>>

CompileTimeout(label) ==
  /\ Running(label)
  /\ timers' = [timers EXCEPT ![label] = @ - 1]
  /\ IF pending = label THEN pending' = <<>> /\ Fail ELSE UNCHANGED <<pending, loader, plugins>>
  /\ UNCHANGED <<disk, cache, offered, workerRequests, writing, edits, reloads, crowded>>

(***************************************************************************)
(* executeModules, then on to the next component; after the last one all   *)
(* capabilities are registered at once.  A plugin of one component is then *)
(* compiled once more for the cache, and an error there counts as well.    *)
(***************************************************************************)
ExecuteComponent ==
  /\ loader.at = "execute" /\ loader.phase = "component"
  /\ LET c == Current
         component == Head(loader.todo)
         rest == Tail(loader.todo)
         built == [f \in DOMAIN loader.built \cup {component} |->
                     IF f = component THEN loader.code ELSE loader.built[f]]
     IN \/ Fail /\ UNCHANGED <<offered, workerRequests, pending, timers>>
        \/ /\ rest # <<>>
           /\ loader' = [loader EXCEPT !.at = "await", !.todo = rest, !.built = built]
           /\ compileInWorker(Label(c, rest[1]), Compiled(c, rest[1]))
           /\ UNCHANGED <<plugins, offered>>
        \/ /\ rest = <<>>
           /\ plugins' = Status(c, "ready")
           /\ offered' = WithOffers(Offer(c, ToSet(c.caps), LAMBDA f : built[f], "files"))
           /\ IF Cardinality(DOMAIN built) = 1
              THEN /\ loader' = [loader EXCEPT !.at = "await", !.phase = "caching"]
                   /\ compileInWorker(CacheLabel(c), Compiled(c, component))
              ELSE Advance /\ UNCHANGED <<workerRequests, pending, timers>>
  /\ UNCHANGED <<disk, cache, writing, edits, reloads, crowded>>

cacheCompiledPlugin ==
  /\ loader.at = "execute" /\ loader.phase = "caching"
  /\ \/ Fail /\ UNCHANGED writing
     \/ /\ writing' = writing \cup {[key |-> generateCacheKey(Current), code |-> loader.code, old |-> FALSE]}
        /\ Advance /\ UNCHANGED plugins
  /\ UNCHANGED <<disk, cache, offered, workerRequests, pending, timers, edits, reloads, crowded>>

\* The write is not awaited; it may fail, and then is only logged.
CacheWritten(w) ==
  /\ w \in writing
  /\ writing' = writing \ {w}
  /\ \/ cache' = {e \in cache : e.key # w.key} \cup {w}
     \/ UNCHANGED cache
  /\ UNCHANGED <<disk, plugins, offered, loader, workerRequests, pending, timers, edits, reloads, crowded>>

Load == loadLocalPlugins \/ Listed \/ registerExternal \/ Lookup \/ loadFromCache
          \/ DropEntry \/ ExecuteComponent \/ cacheCompiledPlugin

PluginNext ==
  \/ \E d \in 1..NumDirs, c \in Contents \cup {None} : Edit(d, c)
  \/ \E updated \in BOOLEAN : Reload(updated)
  \/ Load
  \/ \E success \in BOOLEAN : WorkerAnswers(success)
  \/ WorkerSilent
  \/ \E label \in DOMAIN timers : CompileTimeout(label)
  \/ \E w \in writing : CacheWritten(w)

PluginSafety == PluginInit /\ [][PluginNext]_pluginVars

\* The page's own steps and its timers happen; the worker owes nothing.
PluginSpec ==
  /\ PluginSafety
  /\ WF_pluginVars(Load)
  /\ WF_pluginVars(\E label \in DOMAIN timers : CompileTimeout(label))

(***************************************************************************)
(* Properties.                                                             *)
(***************************************************************************)
\* What runs from the cache was compiled from the very files that were
\* listed, over edits, reloads, time-outs and answers that come late
\* (plugin-cache.service.ts:4-6); and so was every entry.  An answer that
\* comes after its time-out may settle the next request of that key, but with
\* two plugins of one id none that is cached: the worker answers in order, and
\* a request for a component lies between two for the cache
\* (plugin-registry.service.svelte.ts:685).  A third one can be cached with
\* the code of the second, and it may be another component of those files
\* than the manifest names by now (README, section 3.3).
CacheServesCurrentFiles ==
  ~crowded =>
    /\ \A k \in DOMAIN offered : offered[k].from = "cache" =>
         offered[k].code.files = offered[k].manifest.files
    /\ \A e \in cache \cup writing : e.key = generateCacheKey(e.code)

\* The loader comes to an end although the worker may never answer: no
\* plugin keeps the ones after it waiting (plugin.service.ts:124-129).
LoaderFinishes == (loader.at = "listing") ~> (loader.at \in {"off", "done", "failed"})
=============================================================================
