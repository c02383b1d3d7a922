------------------------------ MODULE Discovery -----------------------------
(***************************************************************************)
(* A scan of the plugin host (eklentiler/yukleyici, dogrulama, kayit): the *)
(* manifests under a root are read in the order of their directories, each *)
(* is validated and registered or reported as a failure; an exception that *)
(* is no AppError leaves the scan where it is.  A scan is synchronous, so  *)
(* nothing runs between its steps.                                         *)
(***************************************************************************)
EXTENDS Naturals, Sequences

CONSTANTS
    PluginIds,      \* what manifests name themselves
    WellFormed,     \* those of them that are dotted, lower-case ids
    Manifests,      \* what may be under a root, see IsManifest
    Roots,          \* roots: their manifests, in order
    AppVersion,     \* what runs: a version, or NoVersion
    NoVersion,      \* what is not MAJOR.MINOR.PATCH
    References,     \* what a manifest calls its tools
    Blank           \* a reference of no letters

Semvers == Nat \X Nat \X Nat
IsManifest(m) ==
    /\ m.text \in {"toml", "unreadable", "not_toml", "not_utf8"}
    /\ m.form \in {"whole", "malformed", "odd_table"}
    /\ m.id \in PluginIds
    /\ m.version \in Semvers \cup {NoVersion} /\ m.needs \in Semvers \cup {NoVersion}
    /\ m.tools \in Seq(References)
    /\ m.provider \in {"tools", "refuses", "raises"}

ASSUME DiscoveryAssumption ==
    /\ \A m \in Manifests : IsManifest(m)
    /\ Roots \subseteq Seq(Manifests)
    /\ AppVersion \in Semvers \cup {NoVersion}
    /\ NoVersion \notin Semvers

VARIABLES
    plugins,        \* the registered plugins: the manifest of each id
    scan,           \* "idle", "reading", "reported" or "raised"
    root,           \* what is scanned, or was last
    pos,            \* the place to be read next
    loaded,         \* the places it has loaded
    failures,       \* the places it has failures for
    earlier         \* auxiliary: the plugins when it began

discoveryVars == <<plugins, scan, root, pos, loaded, failures, earlier>>

----------------------------------------------------------------------------
(* validate_manifest.                                                      *)

(* Mutant: the versions are compared number by number. *)
OlderSomewhere(v, w) == \E i \in 1 .. 3 : v[i] < w[i]
Older(v, w) == \E i \in 1 .. 3 : v[i] < w[i] /\ \A j \in 1 .. (i - 1) : v[j] = w[j]

IsCompatible(m) == AppVersion # NoVersion /\ ~ Older(AppVersion, m.needs)
ContributesWell(m) ==
    /\ \A i \in DOMAIN m.tools : m.tools[i] # Blank
    /\ \A i, j \in DOMAIN m.tools : m.tools[i] = m.tools[j] => i = j
Validates(m) ==
    /\ m.id \in WellFormed
    /\ m.version # NoVersion /\ m.needs # NoVersion
    /\ IsCompatible(m)
    /\ ContributesWell(m)

(* What reading, validating and resolving a manifest comes to.  Bytes that *)
(* are no text, a table that is none and a provider may raise anything.    *)
LoadOne(m) ==
    CASE m.text = "not_utf8" -> "raises"
      [] m.text \in {"unreadable", "not_toml"} -> "fails"
      [] m.text = "toml" /\ m.form = "odd_table" -> "raises"
      [] m.text = "toml" /\ m.form = "malformed" -> "fails"
      [] m.text = "toml" /\ m.form = "whole" /\ ~ Validates(m) -> "fails"
      [] OTHER -> CASE m.provider = "tools" -> "loads"
                    [] m.provider = "refuses" -> "fails"
                    [] m.provider = "raises" -> "raises"

----------------------------------------------------------------------------
(* load_directory.                                                         *)

DiscoveryInit ==
    /\ plugins = <<>> /\ scan = "idle" /\ root = <<>> /\ pos = 1
    /\ loaded = <<>> /\ failures = <<>> /\ earlier = <<>>

Begin(r) ==
    /\ scan # "reading"
    /\ scan' = "reading" /\ root' = r /\ pos' = 1
    /\ loaded' = <<>> /\ failures' = <<>> /\ earlier' = plugins
    /\ UNCHANGED plugins

(* The root, or a directory of it, may not be listed. *)
CannotList ==
    /\ scan # "reading"
    /\ scan' = "raised" /\ root' = <<>> /\ pos' = 1
    /\ loaded' = <<>> /\ failures' = <<>> /\ earlier' = plugins
    /\ UNCHANGED plugins

With(id, m) == [i \in DOMAIN plugins \cup {id} |-> IF i = id THEN m ELSE plugins[i]]

Registers ==
    /\ scan = "reading" /\ pos <= Len(root)
    /\ LoadOne(root[pos]) = "loads" /\ root[pos].id \notin DOMAIN plugins
    /\ plugins' = With(root[pos].id, root[pos])
    /\ loaded' = Append(loaded, pos)
    /\ pos' = pos + 1
    /\ UNCHANGED <<scan, root, failures, earlier>>

(* An AppError: of the manifest, of its validation or its provider, or     *)
(* that its id is taken.                                                   *)
Reports ==
    /\ scan = "reading" /\ pos <= Len(root)
    /\ \/ LoadOne(root[pos]) = "fails"
       \/ LoadOne(root[pos]) = "loads" /\ root[pos].id \in DOMAIN plugins
    /\ failures' = Append(failures, pos)
    /\ pos' = pos + 1
    /\ UNCHANGED <<plugins, scan, root, loaded, earlier>>

(* Anything else is caught by nobody: no report is made. *)
Raises ==
    /\ scan = "reading" /\ pos <= Len(root)
    /\ LoadOne(root[pos]) = "raises"
    /\ scan' = "raised"
    /\ UNCHANGED <<plugins, root, pos, loaded, failures, earlier>>

ReportMade ==
    /\ scan = "reading" /\ pos > Len(root)
    /\ scan' = "reported"
    /\ UNCHANGED <<plugins, root, pos, loaded, failures, earlier>>

(* A plugin is unloaded between two scans. *)
Unregister(id) ==
    /\ scan # "reading" /\ id \in DOMAIN plugins
    /\ plugins' = [i \in DOMAIN plugins \ {id} |-> plugins[i]]
    /\ scan' = "idle" /\ root' = <<>> /\ pos' = 1
    /\ loaded' = <<>> /\ failures' = <<>> /\ earlier' = plugins'

DiscoveryStep ==
    \/ \E r \in Roots : Begin(r)
    \/ CannotList \/ Registers \/ Reports \/ Raises \/ ReportMade
    \/ \E id \in PluginIds : Unregister(id)

----------------------------------------------------------------------------
(* What is to be trusted, number for number: a host of an older major is   *)
(* too old whatever its minor, and so on.                                  *)
Supports(v, w) ==
    \/ v[1] > w[1]
    \/ v[1] = w[1] /\ v[2] > w[2]
    \/ v[1] = w[1] /\ v[2] = w[2] /\ v[3] >= w[3]
Trusted(m) ==
    /\ m.text = "toml" /\ m.form = "whole" /\ m.provider = "tools" /\ m.id \in WellFormed
    /\ {m.version, m.needs, AppVersion} \subseteq Semvers /\ Supports(AppVersion, m.needs)
    /\ ContributesWell(m)

(* The place that gets an id: the first under the root that can be         *)
(* trusted with it, if it was free.                                        *)
Gets(k) ==
    /\ Trusted(root[k]) /\ root[k].id \notin DOMAIN earlier
    /\ \A j \in 1 .. (k - 1) : Trusted(root[j]) => root[j].id # root[k].id

InTurn(s, at) ==
    /\ {s[i] : i \in DOMAIN s} = at
    /\ \A i, j \in DOMAIN s : i < j => s[i] < s[j]

(* A scan takes nothing from a plugin that is registered and gives each id *)
(* to the first place that can be trusted with it.  Every place it has     *)
(* read is accounted for once, in their order, and a report is of them all.*)
ScanSound ==
    LET got == {k \in 1 .. (pos - 1) : Gets(k)}
    IN  /\ DOMAIN plugins = DOMAIN earlier \cup {root[k].id : k \in got}
        /\ \A id \in DOMAIN earlier : plugins[id] = earlier[id]
        /\ \A k \in got : plugins[root[k].id] = root[k]
        /\ InTurn(loaded, got) /\ InTurn(failures, (1 .. (pos - 1)) \ got)
        /\ scan = "reported" => pos = Len(root) + 1

(* As the loader's documentation has it, what is wrong with one plugin is  *)
(* collected and never fatal: a scan that could list its root is reported. *)
NeverFatal == scan = "raised" => root = <<>>
============================================================================
