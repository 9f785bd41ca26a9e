------------------------------- MODULE OSPrep -------------------------------
(***************************************************************************)
(* What the root stages do to the OS of a container (src/go/osprep): the   *)
(* repositories that become known and enabled, the packages that come from *)
(* them, and the links that FixAnnobin makes in the plugin directories of  *)
(* the gcc toolsets.  build-one (src/go/steps) and the git builds          *)
(* (src/go/gitsteps) run the stages in different orders; in a debug        *)
(* container each can be run by hand, and again after it failed half-way.  *)
(*                                                                         *)
(* yum and rpm are external: a package needs its repository, a toolset's   *)
(* package puts files and links of its own into the plugin directory, and  *)
(* may bring others when it is updated.                                    *)
(***************************************************************************)
EXTENDS Naturals, Sequences, SequencesExt

CONSTANTS
    Toolsets,     \* gcc-toolset-<N>
    Layouts,      \* what a version of a toolset's package has in the plugin directory
    Listed,       \* toolsets in the build's package list
    Required,     \* toolsets that the spec requires, or all_rpms_extra_packages
    BaseRepos,    \* repositories the image defines
    OnRepos,      \* those it enables
    epelPackages, \* images.yaml: repos.epel_packages
    Enable,       \* images.yaml: repos.enable
    Defines,      \* the repositories each EPEL package defines
    From,         \* the repositories the build's packages come from
    MaxCommands   \* bound on the commands in a container

VARIABLES
    cmd,          \* the command that runs, or the last one
    todo,         \* its stages still to run, the current one first
    call,         \* the command of refresh or setup-repos that is next
    tools,        \* the tools that are installed
    defined,      \* the repositories yum knows
    enabled,      \* those it uses
    version,      \* what is installed of each toolset
    dir,          \* the plugin directory of each toolset
    fixed,        \* toolsets that fix-annobin has been through since they changed
    late,         \* those that install-builddeps has brought or changed since then
    moved,        \* toolsets whose update left a link that leads nowhere
    commands      \* commands begun so far

flow == <<cmd, todo, commands>>
repos == <<tools, defined, enabled>>
plugins == <<version, dir, fixed, late, moved>>
vars == <<flow, call, repos, plugins>>

\* The aliases gcc may resolve "annobin" to, and the names of the real object.
aliases == <<"annobin.so", "annobin.so.0.0.0", "gcc-annobin.so", "gcc-annobin.so.0.0.0">>

\* Mutant: the name of el9 is not among them.
realNamesEL8 == <<"annobin.so.0.0.0", "annobin.so">>

realNames == <<"gts-annobin.so.0.0.0", "annobin.so.0.0.0", "annobin.so">>

Names == Range(aliases) \cup {"gts-annobin.so.0.0.0"}

\* A name is absent, a regular file, or a link to another name.
Absent == "absent"
Regular == "file"
Dirs == [Names -> {Absent, Regular} \cup Names]
Empty == [n \in Names |-> Absent]
NoVersion == Empty

ASSUME ToolsetsAssumption == Toolsets \subseteq Nat /\ Listed \cup Required \subseteq Toolsets

\* A set of names that has where its links lead.
Closed(d, S) == \A n \in S : d[n] \in Names => d[n] \in S

\* From a name a file is reached, however many links there are on the way.
Resolves(d, name) ==
    \A S \in SUBSET Names : name \in S /\ Closed(d, S) => \E n \in S : d[n] = Regular

\* A toolset's package has the plugin, under one of the names it is known to have, and
\* its links lead to a file of its own or to an alias that it leaves to be made.
ASSUME LayoutsAssumption ==
    /\ Layouts \subseteq Dirs
    /\ \A d \in Layouts : \E n \in {"gts-annobin.so.0.0.0", "annobin.so.0.0.0", "annobin.so"} :
          d[n] = Regular
    /\ \A d \in Layouts : \A n \in Names : d[n] \in Names =>
          Resolves([m \in Names |-> IF d[m] = Absent /\ m \in Range(aliases) THEN Regular ELSE d[m]], n)
\* images.yaml fits the image: what it enables is there or comes with an EPEL package.
ASSUME ReposAssumption ==
    /\ epelPackages \in Seq(STRING) /\ Enable \in Seq(STRING)
    /\ OnRepos \subseteq BaseRepos
    /\ Defines \in [Range(epelPackages) -> SUBSET (BaseRepos \cup Range(Enable))]
    /\ Range(Enable) \subseteq BaseRepos \cup UNION Range(Defines)
    /\ From \subseteq OnRepos \cup Range(Enable)
ASSUME MaxCommandsAssumption == MaxCommands \in Nat

\* Mutant: the links are made before there is a toolset.
RunStagesEarlyFix == <<"refresh", "setup-repos", "fix-annobin", "install-packages", "os-tweaks",
                       "install-builddeps", "rpmbuild">>

\* The stages that matter here, of those in BuildPipeline and GitPipeline: cmake looks
\* for the plugin in configure and rpmbuild.
RunStages == <<"refresh", "setup-repos", "install-packages", "fix-annobin", "os-tweaks",
               "install-builddeps", "rpmbuild">>

SrcRPMBuild == <<"setup-repos", "refresh", "install-packages", "fix-annobin", "configure">>
AllRPMsBuild == SrcRPMBuild \o <<"install-builddeps", "rpmbuild">>

Steps == Range(RunStages)
Orchestrators == {"run", "git-src-rpm-build", "git-all-rpms-build"}
StagesOf(c) == CASE c = "run" -> RunStages
                 [] c = "git-src-rpm-build" -> SrcRPMBuild
                 [] c = "git-all-rpms-build" -> AllRPMsBuild
                 [] OTHER -> <<c>>

TypeOK ==
    /\ cmd \in Steps \cup Orchestrators \cup {"none"}
    /\ todo \in Seq(Steps \cup {"configure"})
    /\ call \in 1..Len(epelPackages) + Len(Enable) + 2
    /\ tools \subseteq {"config-manager", "base"}
    /\ defined \subseteq BaseRepos \cup Range(Enable) /\ enabled \subseteq defined
    /\ version \in [Toolsets -> Layouts \cup {NoVersion}]
    /\ dir \in [Toolsets -> Dirs]
    /\ fixed \subseteq {t \in Toolsets : version[t] # NoVersion} /\ moved \subseteq Toolsets
    /\ late \subseteq Toolsets
    /\ commands \in 0..MaxCommands

Init ==
    /\ cmd = "none" /\ todo = <<>> /\ call = 1 /\ commands = 0
    /\ tools = {} /\ defined = BaseRepos /\ enabled = OnRepos
    /\ version = [t \in Toolsets |-> NoVersion]
    /\ dir = [t \in Toolsets |-> Empty]
    /\ fixed = {} /\ late = {} /\ moved = {}

Idle == todo = <<>>
At(s) == ~Idle /\ Head(todo) = s

\* A git build has a container of its own.
Start(c) ==
    /\ Idle /\ commands < MaxCommands
    /\ c \notin Steps \cup {"run"} => commands = 0
    /\ cmd \in Steps \cup {"run", "none"}
    /\ cmd' = c /\ todo' = StagesOf(c) /\ call' = 1
    /\ commands' = commands + 1
    /\ UNCHANGED <<repos, plugins>>

Advance == todo' = Tail(todo) /\ call' = 1 /\ UNCHANGED <<cmd, commands>>

\* Any command a stage runs may fail, and the rest of the stages with it.
Fail ==
    /\ ~Idle
    /\ todo' = <<>> /\ call' = 1
    /\ UNCHANGED <<cmd, commands, repos, plugins>>

-----------------------------------------------------------------------------
(* Packages. *)

\* rpm takes away the files of the old version and lays down those of the new one;
\* names that belong to neither stay.
Unpack(d, old, new) ==
    [n \in Names |-> IF new[n] # Absent THEN new[n]
                     ELSE IF old[n] # Absent THEN Absent ELSE d[n]]

\* yum brings some of the toolsets ts to a version, or to another one.
Bring(ts) ==
    \E new \in [ts -> Layouts] :
        LET changed == {t \in ts : new[t] # version[t]}
        IN  /\ version' = [t \in Toolsets |-> IF t \in changed THEN new[t] ELSE version[t]]
            /\ dir' = [t \in Toolsets |-> IF t \in changed THEN Unpack(dir[t], version[t], new[t])
                                                           ELSE dir[t]]
            /\ fixed' = fixed \ changed
            /\ moved' = moved \cup {t \in changed : \E n \in Names :
                                        /\ new[t][n] = Absent
                                        /\ dir'[t][n] \in Names /\ ~Resolves(dir'[t], n)}

\* Mutant: every toolset counts.
InstalledAll == Toolsets

\* The toolsets that have a plugin directory.
Installed == {t \in Toolsets : version[t] # NoVersion}

Available == From \subseteq enabled

\* yum update, then the base packages, which come from the image's repositories.
Refresh ==
    /\ At("refresh")
    /\ \/ /\ call = 1 /\ call' = 2
          /\ Bring(Installed)
          /\ UNCHANGED <<flow, late, tools>>
       \/ /\ call = 2 /\ Advance
          /\ tools' = tools \cup {"base"}
          /\ UNCHANGED plugins
    /\ UNCHANGED <<defined, enabled>>

\* Mutant: the repositories are enabled first.
CallsEnableFirst ==
    <<[op |-> "install-tool", name |-> "config-manager"]>>
        \o [i \in DOMAIN Enable |-> [op |-> "enable", name |-> Enable[i]]]
        \o [i \in DOMAIN epelPackages |-> [op |-> "install", name |-> epelPackages[i]]]

\* The commands of SetupRepos, in order.
Calls ==
    <<[op |-> "install-tool", name |-> "config-manager"]>>
        \o [i \in DOMAIN epelPackages |-> [op |-> "install", name |-> epelPackages[i]]]
        \o [i \in DOMAIN Enable |-> [op |-> "enable", name |-> Enable[i]]]

\* config-manager only enables what some package has defined.
CanCall(c) == c.op = "enable" => "config-manager" \in tools /\ c.name \in defined

SetupCall ==
    /\ At("setup-repos") /\ call \in DOMAIN Calls
    /\ LET c == Calls[call]
       IN  /\ CanCall(c)
           /\ tools' = IF c.op = "install-tool" THEN tools \cup {c.name} ELSE tools
           /\ defined' = IF c.op = "install" THEN defined \cup Defines[c.name] ELSE defined
           /\ enabled' = IF c.op = "enable" THEN enabled \cup {c.name} ELSE enabled
    /\ call' = call + 1
    /\ UNCHANGED <<flow, plugins>>

SetupReposEnds ==
    /\ At("setup-repos") /\ call = Len(Calls) + 1
    /\ UNCHANGED <<repos, plugins>>
    /\ Advance

InstallPackages ==
    /\ At("install-packages") /\ Available
    /\ Bring(Listed)
    /\ UNCHANGED <<repos, late>>
    /\ Advance

\* yum-builddep, from the spec that is there by now; in build-one only when
\* auto_install_dependencies is set.
InstallBuildDeps ==
    /\ At("install-builddeps")
    /\ \/ /\ Available /\ Bring(Required)
          /\ late' = late \cup {t \in Required : version'[t] # version[t]}
       \/ /\ cmd \in Steps \cup {"run"}
          /\ UNCHANGED plugins
    /\ UNCHANGED repos
    /\ Advance

-----------------------------------------------------------------------------
(* FixAnnobin. *)

\* Lstat: the real object is a regular file, an alias there is whatever it is.
RealObj(d) == LET i == SelectInSeq(realNames, LAMBDA n : d[n] = Regular)
              IN  IF i = 0 THEN Absent ELSE realNames[i]

\* Mutant: the first alias that is there ends the loop.
MissingUntilPresent(d) ==
    {a \in Range(aliases) : /\ RealObj(d) # Absent
                            /\ \E i \in DOMAIN aliases : /\ a = aliases[i]
                                                         /\ \A j \in 1..i : d[aliases[j]] = Absent}

\* The links still to be made; none without the plugin.
Missing(d) == {a \in Range(aliases) : RealObj(d) # Absent /\ d[a] = Absent}

Unfinished == {t \in Installed : Missing(dir[t]) # {}}

\* The next link in the first directory that lacks one.
Symlink ==
    /\ At("fix-annobin") /\ Unfinished # {}
    /\ LET t == Min(Unfinished)
           a == aliases[SelectInSeq(aliases, LAMBDA n : n \in Missing(dir[t]))]
       IN  dir' = [dir EXCEPT ![t][a] = RealObj(dir[t])]
    /\ UNCHANGED <<flow, call, repos, version, fixed, late, moved>>

FixAnnobinEnds ==
    /\ At("fix-annobin") /\ Unfinished = {}
    /\ fixed' = Installed /\ late' = {}
    /\ UNCHANGED <<repos, version, dir, moved>>
    /\ Advance

\* The tweaks are up to the configuration; cmake and rpmbuild change nothing here.
Other ==
    /\ At("os-tweaks") \/ At("configure") \/ At("rpmbuild")
    /\ UNCHANGED <<repos, plugins>>
    /\ Advance

Next ==
    \/ \E c \in Steps \cup Orchestrators : Start(c)
    \/ Refresh \/ SetupCall \/ SetupReposEnds \/ InstallPackages \/ InstallBuildDeps
    \/ Symlink \/ FixAnnobinEnds \/ Other \/ Fail

Spec == Init /\ [][Next]_vars

-----------------------------------------------------------------------------
(* Properties. *)

\* A complete run never comes to a command of yum that must fail for want of what an
\* earlier one brings, in either order of the stages and whatever was run by hand
\* before: config-manager is there, each repository is defined before it is enabled,
\* and packages are looked for when their repositories are enabled
\* (osprep.go:93-127, steps.go:376-390, gitsteps.go:218-234).
NeverStuck ==
    cmd \in Orchestrators =>
        /\ At("setup-repos") /\ call \in DOMAIN Calls => CanCall(Calls[call])
        /\ At("install-packages") \/ At("install-builddeps") => Available

PluginFound(t) == \A a \in Range(aliases) : Resolves(dir[t], a)
HasPlugin(t) == \E n \in Names : version[t][n] = Regular

\* After fix-annobin gcc finds the plugin under every alias, whatever the package ships
\* and however far an earlier fix-annobin came that failed (osprep.go:141-199).  It
\* leaves out the toolsets of which an update renamed a file that a link from before
\* leads to (moved): there the link stays, and leads nowhere (osprep.go:189).
AliasesResolve == \A t \in fixed \ moved : HasPlugin(t) => PluginFound(t)

\* When cmake or rpmbuild of a complete run starts, gcc finds the plugin of every toolset
\* in the package list, also of those that the spec requires as well
\* (osprep.go:144-149, steps.go:382-401, gitsteps.go:233-244, 1151-1175).  Two kinds are
\* left out: a toolset that the run's own install-builddeps brought to another version
\* than fix-annobin saw (late), and one with a link that leads nowhere (moved).
ListedFixed ==
    cmd \in Orchestrators /\ (At("configure") \/ At("rpmbuild")) =>
        \A t \in Listed \ (late \cup moved) : HasPlugin(t) => PluginFound(t)
=============================================================================
