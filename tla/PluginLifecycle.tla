---------------------------- MODULE PluginLifecycle ----------------------------
(***************************************************************************)
(* The start of the application, its plug-ins, and its shutdown: app/plugins, *)
(* app/lifecycle, app/bootstrap and the main function of cli.py.             *)
(*                                                                          *)
(* Plug-ins are loaded one by one in the order of their dependencies.  Each *)
(* registers handlers in the registries of the host (commands, tools,       *)
(* routes, jobs: one name space here) and cleanups of what it has started.  *)
(* One that fails is rolled back, and then all before it.  Ctrl+C may come   *)
(* at any moment of the start, and is no Exception: it rolls nothing back,   *)
(* but the application is shut down.  A step is one call, or one undo        *)
(* action; plug-ins are numbered in the order of their names.                *)
(***************************************************************************)
EXTENDS Naturals, SequencesExt

CONSTANT Manifests   \* dependencies, and what register(context) of each plug-in calls

VARIABLES manifest,
          phase,      \* new, load, register, rollback, loaded, serving, failed, stopping, down
          plugin,     \* the plug-in that is being loaded, or rolled back
          at,         \* calls it has made, and that are not undone
          loaded,     \* _transactions: plug-ins in the order of loading
          remaining,  \* of them, how many a rollback has not come to
          resources,  \* lifecycle._resources
          handlers,   \* names in the registries, with their plug-in
          jobs,       \* plug-ins with a job of the scheduler under way
          recorded,   \* cleanups that were registered
          released    \* times each cleanup was called

NoPlugin == 0
ASSUME ManifestAssumption ==
  \A m \in Manifests : /\ DOMAIN m \subseteq Nat \ {NoPlugin}
                       /\ \A p \in DOMAIN m : m[p].calls \in Seq(STRING)

pluginVars == <<manifest, phase, plugin, at, loaded, remaining, resources, handlers, jobs, recorded, released>>

Plugins == DOMAIN manifest
CallsOf(p) == manifest[p].calls
Cleanups == UNION {{<<p, i>> : i \in {i \in DOMAIN CallsOf(p) : CallsOf(p)[i] = "cleanup"}} : p \in Plugins}
(* Resources are named for what they give back. *)
Handlers(p) == [plugin |-> p, call |-> 0]
Call(p, i) == [plugin |-> p, call |-> i]
Core == Handlers(NoPlugin)

PluginInit ==
  /\ manifest \in Manifests
  /\ phase = "new"
  /\ plugin = NoPlugin /\ at = 0 /\ loaded = <<>> /\ remaining = 0
  /\ resources = <<Core>>
  /\ handlers = {}
  /\ jobs = {}
  /\ released = [c \in Cleanups |-> 0]
  /\ recorded = {}

-------------------------------------------------------------------------------
(* Loading.                                                                 *)

(* validate_manifest: no dependency is missing, and none is circular.        *)
Sound ==
  /\ \A p \in Plugins : manifest[p].needs \subseteq Plugins
  /\ \A S \in SUBSET Plugins \ {{}} : \E p \in S : manifest[p].needs \cap S = {}
Validate ==
  /\ phase = "new" /\ phase' = IF Sound THEN "load" ELSE "failed"
  /\ UNCHANGED <<manifest, plugin, at, loaded, remaining, resources, handlers, jobs, recorded, released>>

(* The next of the topological order: the first name of those that are ready. *)
Ready(p) == p \in Plugins \ ToSet(loaded) /\ manifest[p].needs \subseteq ToSet(loaded)
EnterPlugin ==
  /\ phase = "load" /\ phase' = "register"
  /\ \E p \in Plugins : Ready(p) /\ (\A q \in Plugins : Ready(q) => p <= q) /\ plugin' = p
  /\ at' = 0
  /\ UNCHANGED <<manifest, loaded, remaining, resources, handlers, jobs, recorded, released>>
AllLoaded ==
  /\ phase = "load" /\ Plugins = ToSet(loaded) /\ phase' = "loaded"
  /\ UNCHANGED <<manifest, plugin, at, loaded, remaining, resources, handlers, jobs, recorded, released>>

(* register_command and the like, for a name that is free; register_cleanup. *)
RegisterCall ==
  /\ phase = "register" /\ at < Len(CallsOf(plugin))
  /\ LET name == CallsOf(plugin)[at + 1]
     IN  \/ /\ name = "cleanup"
            /\ resources' = Append(resources, Call(plugin, at + 1))
            /\ recorded' = recorded \cup {<<plugin, at + 1>>}
            /\ UNCHANGED handlers
         \/ /\ name # "cleanup" /\ \A h \in handlers : h.name # name
            /\ handlers' = handlers \cup {[name |-> name, plugin |-> plugin]}
            /\ UNCHANGED <<resources, recorded>>
  /\ at' = at + 1
  /\ UNCHANGED <<manifest, phase, plugin, loaded, remaining, jobs, released>>

(* register raises, be it for a name that is taken: this plug-in is rolled   *)
(* back, and all before it, newest first.                                   *)
RegisterRaises ==
  /\ phase = "register" /\ phase' = "rollback"
  /\ remaining' = Len(loaded)
  /\ UNCHANGED <<manifest, plugin, at, loaded, resources, handlers, jobs, recorded, released>>

CommitPlugin ==
  /\ phase = "register" /\ at = Len(CallsOf(plugin))
  /\ loaded' = Append(loaded, plugin)
  /\ resources' = Append(resources, Handlers(plugin))
  /\ plugin' = NoPlugin /\ phase' = "load"
  /\ UNCHANGED <<manifest, at, remaining, handlers, jobs, recorded, released>>

-------------------------------------------------------------------------------
(* Giving back.                                                             *)

Without(names) == {h \in handlers : h.name \notin names}

UndoKeepsResource ==
  /\ phase = "rollback" /\ at > 0
  /\ IF CallsOf(plugin)[at] = "cleanup"
     THEN /\ released' = [released EXCEPT ![<<plugin, at>>] = @ + 1]
          /\ UNCHANGED <<resources, handlers>>
     ELSE handlers' = Without({CallsOf(plugin)[at]}) /\ UNCHANGED <<resources, released>>
  /\ at' = at - 1
  /\ UNCHANGED <<manifest, phase, plugin, loaded, remaining, jobs, recorded>>
(* One undo action of a rollback, newest first: a name is unregistered, or a *)
(* cleanup taken from the resources and called.                             *)
Undo ==
  /\ phase = "rollback" /\ at > 0
  /\ IF CallsOf(plugin)[at] = "cleanup"
     THEN /\ \E i \in DOMAIN resources :
               resources[i] = Call(plugin, at) /\ resources' = RemoveAt(resources, i)
          /\ released' = [released EXCEPT ![<<plugin, at>>] = @ + 1]
          /\ UNCHANGED handlers
     ELSE handlers' = Without({CallsOf(plugin)[at]}) /\ UNCHANGED <<resources, released>>
  /\ at' = at - 1
  /\ UNCHANGED <<manifest, phase, plugin, loaded, remaining, jobs, recorded>>
(* The transaction before, which was committed: all its calls are undone.   *)
UndoBefore ==
  /\ phase = "rollback" /\ at = 0 /\ remaining > 0
  /\ plugin' = loaded[remaining] /\ at' = Len(CallsOf(loaded[remaining]))
  /\ remaining' = remaining - 1
  /\ UNCHANGED <<manifest, phase, loaded, resources, handlers, jobs, recorded, released>>
(* load_all raises, after it has forgotten its transactions. *)
RolledBack ==
  /\ phase = "rollback" /\ at = 0 /\ remaining = 0
  /\ loaded' = <<>> /\ phase' = "failed"
  /\ UNCHANGED <<manifest, plugin, at, remaining, resources, handlers, jobs, recorded, released>>

(* The channels start, and the scheduler; its jobs call the handlers.        *)
Serve ==
  /\ phase = "loaded" /\ phase' = "serving"
  /\ UNCHANGED <<manifest, plugin, at, loaded, remaining, resources, handlers, jobs, recorded, released>>
JobBegins(p) ==
  /\ phase = "serving" /\ p \notin jobs /\ \E h \in handlers : h.plugin = p
  /\ jobs' = jobs \cup {p}
  /\ UNCHANGED <<manifest, phase, plugin, at, loaded, remaining, resources, handlers, recorded, released>>
JobEnds(p) ==
  /\ p \in jobs /\ jobs' = jobs \ {p}
  /\ UNCHANGED <<manifest, phase, plugin, at, loaded, remaining, resources, handlers, recorded, released>>

(* The start has failed, a signal has come, or Ctrl+C before that: shutdown,  *)
(* which stops the scheduler and waits for its jobs.                        *)
Shutdown ==
  /\ phase # "stopping" /\ phase # "down" /\ phase' = "stopping"
  /\ UNCHANGED <<manifest, plugin, at, loaded, remaining, resources, handlers, jobs, recorded, released>>

Gives(r) ==
  /\ handlers' = IF r = Core THEN {}
                 ELSE IF r.call = 0 THEN Without(ToSet(CallsOf(r.plugin))) ELSE handlers
  /\ released' = IF r.call = 0 THEN released ELSE [released EXCEPT ![<<r.plugin, r.call>>] = @ + 1]
(* lifecycle.shutdown: the resources in reverse order, whatever fails; those *)
(* of the host, which empty the registries, are the last.                   *)
Release ==
  /\ phase = "stopping" /\ jobs = {} /\ resources # <<>>
  /\ Gives(Last(resources)) /\ resources' = Front(resources)
  /\ UNCHANGED <<manifest, phase, plugin, at, loaded, remaining, jobs, recorded>>
Down ==
  /\ phase = "stopping" /\ resources = <<>> /\ phase' = "down"
  /\ UNCHANGED <<manifest, plugin, at, loaded, remaining, resources, handlers, jobs, recorded, released>>

PluginNext ==
  \/ Validate \/ EnterPlugin \/ AllLoaded \/ RegisterCall \/ RegisterRaises \/ CommitPlugin
  \/ Undo \/ UndoBefore \/ RolledBack
  \/ Serve \/ \E p \in Plugins : JobBegins(p) \/ JobEnds(p)
  \/ Shutdown \/ Release \/ Down
PluginSpec == PluginInit /\ [][PluginNext]_pluginVars

-------------------------------------------------------------------------------
(* However the start ends, and whenever it is interrupted, what a plug-in    *)
(* has registered is given back: each cleanup is called once and only once,  *)
(* by its rollback or by the shutdown; those of a plug-in before those of    *)
(* what it depends on, and none while a job of the plug-in is under way.    *)
ReleasedInOrder ==
  /\ \A c \in Cleanups : released[c] <= 1
  /\ phase = "down" => handlers = {} /\ \A c \in recorded : released[c] = 1
  /\ \A c, d \in recorded :
       released[c] = 1 /\ c[1] \in manifest[d[1]].needs => released[d] = 1
  /\ \A c \in recorded : released[c] = 1 => c[1] \notin jobs
===============================================================================
