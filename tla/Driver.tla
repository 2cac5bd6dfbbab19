------------------------------- MODULE Driver -------------------------------
(***************************************************************************)
(* app/driver_main.cc with what it calls: pkg/resolve.cc for the packages  *)
(* a build needs, pipeline.cc for their source files, SourceManager for    *)
(* loading them, the analyzer for a check.  One run of `alcy` on one       *)
(* workspace.                                                              *)
(*                                                                         *)
(* A workspace is what the program finds at the paths it can reach from    *)
(* its target: a manifest per directory, with dependency and bin paths     *)
(* already joined to the directory, and the files a walk below it collects *)
(* (module Workspace makes both out of a file tree).  The walk sorts them; *)
(* no property depends on the order, so they are a set here.               *)
(***************************************************************************)
EXTENDS Integers, Sequences, FiniteSets

CONSTANT Workspaces

\* parse_manifest: "missing" does not load, "bad" has one error, whichever.
Manifest(dirs, files) ==
    [kind : {"missing", "bad", "good"}, deps : Seq(dirs), bins : Seq(files)]

IsWorkspace(w) ==
    /\ w.manifests \in [w.dirs -> Manifest(w.dirs, w.files)]
    /\ w.accessible \subseteq w.dirs              \* opendir succeeds
    /\ w.sources \in [w.dirs -> SUBSET w.files]   \* walk_sources
    /\ w.readable \subseteq w.files
    /\ w.target \in w.dirs                        \* from_native(raw_target)
    /\ w.is_source_name \in BOOLEAN               \* raw_target ends in .al
    /\ w.is_source_name => w.target \in w.files

ASSUME WorkspacesAssumption == \A w \in Workspaces : IsWorkspace(w)

VARIABLES
    workspace,  \* constant once chosen
    command,    \* DriverConfig::subcommand
    stage,      \* where in run_build or run_check the program is
    stack,      \* the activations of resolve_into
    visited,    \* its `visited`
    resolved,   \* the packages resolve_package returned
    queue,      \* the directories still to discover
    pending,    \* of the current one, the files still to load
    files,      \* DiscoveredSources::files of the current one
    root,       \* the files given to resolve_modules as root: none or one
    loaded,     \* SourceManager::entries_: manifests (by directory) and files
    diags,      \* DriverContext::bag
    exit        \* the exit code

resolving == <<stack, visited, resolved>>
discovering == <<queue, pending, files>>
vars == <<workspace, command, stage, resolving, discovering, root, loaded, diags, exit>>

Commands == {"build", "check", "test", "run"}
Running == "running"
ResultCode == {"Success", "NotImplemented", "BuildFailed", "CheckFailed"}

Errors == {"Cycle", "ManifestIo", "ManifestInvalid", "NotAccessible", "NoSources",
           "SourceIo", "NoManifest", "NoTargets", "TargetIo", "TargetNotDiscovered",
           "NotImplemented", "Analysis"}
Warnings == {"NoManifestWarning"}

\* An activation of resolve_into: its directory, the dependency it is at, and
\* its `resolved`.
Frame == [dir : workspace.dirs, next : Nat \ {0}, packages : Seq(workspace.dirs)]

Init ==
    /\ workspace \in Workspaces
    /\ command \in Commands
    /\ stage = "start"
    /\ stack = <<>> /\ visited = <<>> /\ resolved = <<>>
    /\ queue = <<>> /\ pending = {} /\ files = {}
    /\ root = {}
    /\ loaded = [manifests |-> {}, files |-> {}]
    /\ diags = {}
    /\ exit = Running

-----------------------------------------------------------------------------
Target == workspace.target
ManifestAt(dir) == workspace.manifests[dir]
Deps(dir) == ManifestAt(dir).deps

\* SourceManager::load, which keeps one entry per path.
LoadsManifest(dir) == ManifestAt(dir).kind # "missing"
LoadManifest(dir) == loaded' = [loaded EXCEPT !.manifests = @ \cup {dir}]
LoadFile(f) == loaded' = [loaded EXCEPT !.files = @ \cup {f}]

\* Mutant: errors the analyzer left in the bag do not count.
has_driver_errors == diags \cap (Errors \ {"Analysis"}) # {}

has_errors == diags \cap Errors # {}

Failed == IF command = "build" THEN "BuildFailed" ELSE "CheckFailed"

\* An error is emitted and every caller returns at once.
FailWith(error) ==
    /\ diags' = diags \cup {error}
    /\ exit' = Failed
    /\ stage' = "exited"
    /\ UNCHANGED <<workspace, command, discovering, root>>

GoTo(next_stage) == stage' = next_stage /\ UNCHANGED <<workspace, command, exit>>

\* The end of a command that ran to its last stage, or to an erroneous one.
Conclude ==
    /\ exit' = IF has_errors THEN Failed ELSE "Success"
    /\ stage' = "exited"
    /\ UNCHANGED <<workspace, command, resolving, discovering, root, loaded, diags>>

-----------------------------------------------------------------------------
(***************************************************************************)
(* run_build and run_check, up to the first answer about the manifest.     *)
(***************************************************************************)
At(s, c) == stage = s /\ command = c

NotImplemented ==
    /\ stage = "start" /\ command \in {"test", "run"}
    /\ diags' = diags \cup {"NotImplemented"}
    /\ exit' = "NotImplemented"
    /\ stage' = "exited"
    /\ UNCHANGED <<workspace, command, resolving, discovering, root, loaded>>

BuildPackage ==
    /\ At("start", "build") /\ LoadsManifest(Target)
    /\ LoadManifest(Target)
    /\ GoTo("resolve")
    /\ UNCHANGED <<resolving, discovering, root, diags>>

BuildDirectory ==
    /\ At("start", "build") /\ ~LoadsManifest(Target)
    /\ diags' = diags \cup {"NoManifestWarning"}
    /\ queue' = <<Target>>
    /\ GoTo("discover")
    /\ UNCHANGED <<resolving, pending, files, root, loaded>>

CheckManifest ==
    /\ At("start", "check") /\ LoadsManifest(Target)
    /\ LoadManifest(Target)
    /\ UNCHANGED resolving
    /\ \/ /\ ManifestAt(Target).kind = "bad"
          /\ FailWith("ManifestInvalid")
       \/ /\ ManifestAt(Target).kind = "good"
          /\ Len(ManifestAt(Target).bins) # 1
          /\ FailWith("NoTargets")
       \/ /\ ManifestAt(Target).kind = "good"
          /\ Len(ManifestAt(Target).bins) = 1
          /\ queue' = <<Target>>
          /\ GoTo("discover")
          /\ UNCHANGED <<pending, files, root, diags>>

CheckFile ==
    /\ At("start", "check") /\ ~LoadsManifest(Target)
    /\ UNCHANGED resolving
    /\ \/ /\ ~workspace.is_source_name
          /\ FailWith("NoManifest")
          /\ UNCHANGED loaded
       \/ /\ workspace.is_source_name /\ Target \notin workspace.readable
          /\ FailWith("TargetIo")
          /\ UNCHANGED loaded
       \/ /\ workspace.is_source_name /\ Target \in workspace.readable
          /\ LoadFile(Target)
          /\ files' = {Target}
          /\ root' = {Target}
          /\ GoTo("modules")
          /\ UNCHANGED <<queue, pending, diags>>

-----------------------------------------------------------------------------
(***************************************************************************)
(* resolve_package: resolve_into and its recursion.                        *)
(***************************************************************************)
Top == stack[Len(stack)]
Below == SubSeq(stack, 1, Len(stack) - 1)

Calls == stage = "resolve" /\ (stack # <<>> => Top.next <= Len(Deps(Top.dir)))
Callee == IF stack = <<>> THEN Target ELSE Deps(Top.dir)[Top.next]

Seen(dir) == \E i \in 1 .. Len(visited) : visited[i] = dir

ReportCycle ==
    /\ Calls /\ Seen(Callee)
    /\ FailWith("Cycle")
    /\ UNCHANGED <<resolving, loaded>>

ReportManifest ==
    /\ Calls /\ ~Seen(Callee)
    /\ visited' = Append(visited, Callee)
    /\ UNCHANGED <<stack, resolved>>
    /\ \/ /\ ~LoadsManifest(Callee)
          /\ FailWith("ManifestIo")
          /\ UNCHANGED loaded
       \/ /\ ManifestAt(Callee).kind = "bad"
          /\ LoadManifest(Callee)
          /\ FailWith("ManifestInvalid")

ResolveInto ==
    /\ Calls /\ ~Seen(Callee) /\ ManifestAt(Callee).kind = "good"
    /\ visited' = Append(visited, Callee)
    /\ LoadManifest(Callee)
    /\ stack' = Append(stack, [dir |-> Callee, next |-> 1, packages |-> <<Callee>>])
    /\ GoTo("resolve")
    /\ UNCHANGED <<resolved, discovering, root, diags>>

Returns == stage = "resolve" /\ stack # <<>> /\ Top.next > Len(Deps(Top.dir))

Popped == SubSeq(visited, 1, Len(visited) - 1)

Merged(frame, packages) == frame.packages \o packages

Advanced(frame, packages) ==
    [frame EXCEPT !.next = @ + 1, !.packages = Merged(frame, packages)]

\* The call that returns is the dependency the caller is at, or the first one.
Return ==
    /\ Returns
    /\ visited' = Popped
    /\ UNCHANGED <<root, loaded, diags>>
    /\ \/ /\ Len(stack) > 1
          /\ LET caller == stack[Len(stack) - 1]
             IN  stack' = Append(SubSeq(stack, 1, Len(stack) - 2),
                                 Advanced(caller, Top.packages))
          /\ GoTo("resolve")
          /\ UNCHANGED <<resolved, discovering>>
       \/ /\ Len(stack) = 1
          /\ stack' = <<>>
          /\ resolved' = Top.packages
          /\ queue' = Top.packages
          /\ GoTo("discover")
          /\ UNCHANGED <<pending, files>>

-----------------------------------------------------------------------------
(***************************************************************************)
(* discover_sources, for each package of a build, for the one of a check   *)
(* or for a directory without manifest.                                    *)
(***************************************************************************)
Discover ==
    /\ stage = "discover" /\ queue # <<>>
    /\ UNCHANGED <<resolving, loaded>>
    /\ \/ /\ Head(queue) \notin workspace.accessible
          /\ FailWith("NotAccessible")
       \/ /\ Head(queue) \in workspace.accessible
          /\ workspace.sources[Head(queue)] = {}
          /\ FailWith("NoSources")
       \/ /\ Head(queue) \in workspace.accessible
          /\ workspace.sources[Head(queue)] # {}
          /\ pending' = workspace.sources[Head(queue)]
          /\ files' = {}
          /\ GoTo("load")
          /\ UNCHANGED <<queue, root, diags>>

LoadSource ==
    /\ stage = "load"
    /\ UNCHANGED resolving
    /\ \E f \in pending :
          \/ /\ f \notin workspace.readable
             /\ FailWith("SourceIo")
             /\ UNCHANGED loaded
          \/ /\ f \in workspace.readable
             /\ LoadFile(f)
             /\ pending' = pending \ {f}
             /\ files' = files \cup {f}
             /\ GoTo("load")
             /\ UNCHANGED <<queue, root, diags>>

\* Mutant: the package stays at the head of the queue.
DiscoveredAgain ==
    /\ stage = "load" /\ pending = {}
    /\ GoTo(IF command = "build" THEN "discover" ELSE "bin")
    /\ UNCHANGED <<resolving, discovering, root, loaded, diags>>

Discovered ==
    /\ stage = "load" /\ pending = {}
    /\ queue' = Tail(queue)
    /\ GoTo(IF command = "build" THEN "discover" ELSE "bin")
    /\ UNCHANGED <<resolving, pending, files, root, loaded, diags>>

BuildExit ==
    /\ stage = "discover" /\ queue = <<>>
    /\ Conclude

-----------------------------------------------------------------------------
(***************************************************************************)
(* The rest of check_package, and finish_check.  What the analyzer finds   *)
(* in the files is left open; a failed analysis leaves errors in the bag.  *)
(***************************************************************************)
\* Mutant: the bin target is taken without a look at the files.
FindBinUnchecked(bin) == {bin}

FindBin(bin) == {f \in files : f = bin}

CheckBin ==
    /\ stage = "bin"
    /\ UNCHANGED <<resolving, loaded>>
    /\ LET found == FindBin(ManifestAt(Target).bins[1])
       IN  \/ /\ found = {}
             /\ FailWith("TargetNotDiscovered")
          \/ /\ found # {}
             /\ root' = found
             /\ GoTo("modules")
             /\ UNCHANGED <<discovering, diags>>

\* resolve_modules and check_package return whether or not they left errors.
Analyze ==
    /\ diags' \in {diags, diags \cup {"Analysis"}}
    /\ UNCHANGED <<resolving, discovering, root, loaded>>

ResolveModules == stage = "modules" /\ Analyze /\ GoTo("resolved")

CheckPackage == stage = "types" /\ Analyze /\ GoTo("typed")

FinishCheck ==
    \/ /\ stage = "resolved" /\ ~has_errors
       /\ GoTo("types")
       /\ UNCHANGED <<resolving, discovering, root, loaded, diags>>
    \/ /\ stage = "resolved" /\ has_errors
       /\ Conclude
    \/ /\ stage = "typed"
       /\ Conclude

-----------------------------------------------------------------------------
Terminated == stage = "exited" /\ UNCHANGED vars

Next ==
    \/ NotImplemented
    \/ BuildPackage \/ BuildDirectory \/ CheckManifest \/ CheckFile
    \/ ReportCycle \/ ReportManifest \/ ResolveInto \/ Return
    \/ Discover \/ LoadSource \/ Discovered \/ BuildExit
    \/ CheckBin \/ ResolveModules \/ CheckPackage \/ FinishCheck
    \/ Terminated

\* One thread runs to its end.
Spec == Init /\ [][Next]_vars /\ WF_vars(Next)

-----------------------------------------------------------------------------
(***************************************************************************)
(* Properties.                                                             *)
(***************************************************************************)
\* Every variable has its type; a dependency index is at most one past the end.
TypeOK ==
    /\ IsWorkspace(workspace)
    /\ command \in Commands
    /\ stage \in {"start", "resolve", "discover", "load", "bin", "modules", "resolved",
                  "types", "typed", "exited"}
    /\ stack \in Seq(Frame)
    /\ \A i \in 1 .. Len(stack) : stack[i].next <= Len(Deps(stack[i].dir)) + 1
    /\ visited \in Seq(workspace.dirs)
    /\ resolved \in Seq(workspace.dirs)
    /\ queue \in Seq(workspace.dirs)
    /\ pending \subseteq workspace.files
    /\ files \subseteq workspace.files
    /\ root \subseteq workspace.files
    /\ loaded \in [manifests : SUBSET workspace.dirs, files : SUBSET workspace.files]
    /\ diags \subseteq Errors \cup Warnings
    /\ exit \in ResultCode \cup {Running}

\* pkg/resolve.cc:33-43, 86: while packages are resolved, `visited` is the path of
\* dependencies from the target to the current package and holds no directory
\* twice: a shared dependency is not taken for a cycle, a cycle is not entered.
VisitedIsPath ==
    stage = "resolve" =>
        /\ Len(visited) = Len(stack)
        /\ \A i \in 1 .. Len(stack) : visited[i] = stack[i].dir
        /\ \A i, j \in 1 .. Len(stack) : stack[i].dir = stack[j].dir => i = j
        /\ \A i \in 1 .. Len(stack) - 1 :
              /\ stack[i].next <= Len(Deps(stack[i].dir))
              /\ stack[i + 1].dir = Deps(stack[i].dir)[stack[i].next]

InSeq(x, s) == \E i \in 1 .. Len(s) : s[i] = x

\* pkg/resolve.cc:63-84: what resolve_package returns holds the target and, with
\* each package, all its dependencies, and every one of them has a manifest.
ResolvedIsClosed ==
    resolved # <<>> =>
        /\ resolved[1] = Target
        /\ \A i \in 1 .. Len(resolved) :
              /\ ManifestAt(resolved[i]).kind = "good"
              /\ resolved[i] \in loaded.manifests
              /\ \A k \in 1 .. Len(Deps(resolved[i])) : InSeq(Deps(resolved[i])[k], resolved)

\* driver_main.cc: the exit code is Success exactly when the bag has no error,
\* whichever stage stopped.
ExitTellsErrors ==
    exit # Running => (exit = "Success" <=> diags \cap Errors = {})

\* analyzer/resolve.cc:161 checks that the root is one of the files: the analyzer runs
\* on one root among the files given, all of them loaded, and the type checker
\* only if no stage before it left an error.
AnalysisInput ==
    /\ stage \in {"modules", "resolved", "types", "typed"} =>
          /\ \E f \in files : root = {f}
          /\ files \subseteq loaded.files
          /\ pending = {}
    /\ stage = "types" => diags \cap Errors = {}

=============================================================================
