-------------------------------- MODULE Boot --------------------------------
(***************************************************************************)
(* How a Core comes up (__main__, kompozisyon, yapilandirma) and what its  *)
(* app handlers answer (kanal/uygulama): the settings are resolved from    *)
(* the environment and settings.toml, the providers that are configured    *)
(* are built, the streams are opened, and the channel is served.  main     *)
(* does all of it in a process; a test gives the streams itself.           *)
(*                                                                         *)
(* A word is what a variable or a key of the file says; in the file it may *)
(* also be no text at all ("number").                                      *)
(***************************************************************************)
EXTENDS Providers, Sequences, FiniteSets

CONSTANTS
    Environs,       \* what the environment may be, see IsEnviron
    Disks,          \* the settings.toml each directory may hold, see IsDisk
    Texts,          \* what may be said that is not blank
    LevelNamed,     \* the log level some of them name
    ModeNamed,      \* the cost mode some of them name
    Absent

Homes == {"config", "data", "cache"}
Clouds == {"gemini", "groq", "openrouter", "nvidia_nim"}
LogLevels == {"TRACE", "DEBUG", "INFO", "WARN", "ERROR"}
Modes == {"performance", "balanced", "economy"}
Versions == {"ours", "other_minor", "other_major", "number", "unset"}

Silent == {"unset", "blank"}
EnvWords == Silent \cup Texts
FileWords == EnvWords \cup {"number"}

IsEnviron(e) ==
    /\ {e.locale, e.log_level, e.cost_mode, e.ollama_url} \subseteq EnvWords
    /\ e.dir \in [Homes -> EnvWords] /\ e.xdg \in [Homes -> EnvWords]
    /\ e.key \in [Clouds -> EnvWords] /\ e.url \in [Clouds -> EnvWords]
IsFile(f) ==
    /\ f.state \in {"missing", "unreadable", "malformed", "parsed"}
    /\ {f.locale, f.log_level} \subseteq FileWords
IsDisk(d) == \A dir \in DOMAIN d : IsFile(d[dir])

ASSUME BootAssumption ==
    /\ \A e \in Environs : IsEnviron(e)
    /\ \A d \in Disks : IsDisk(d)
    /\ Texts \cap {"unset", "blank", "number"} = {}
    /\ DOMAIN LevelNamed \subseteq Texts /\ \A w \in DOMAIN LevelNamed : LevelNamed[w] \in LogLevels
    /\ DOMAIN ModeNamed \subseteq Texts /\ \A w \in DOMAIN ModeNamed : ModeNamed[w] \in Modes

VARIABLES
    environ,
    disk,
    entry,          \* "process": by main, or "embedded"
    phase,          \* how far it is
    stdout,         \* what sys.stdout is
    settings,
    warned,         \* the keys a fallback was reported for
    providers,      \* the ids registered, in their order
    answer,         \* what the last handshake or health was answered
    asked           \* the health snapshot being made, provider after provider

bootVars ==
    <<environ, disk, entry, phase, stdout, settings, warned, providers, answer, asked>>

----------------------------------------------------------------------------
(* The settings.                                                           *)

IsSaid(word) == word \notin Silent

(* The directory given, or the application's under the XDG one, or under   *)
(* the user's home.                                                        *)
Dir(e, home) ==
    CASE IsSaid(e.dir[home]) -> <<e.dir[home]>>
      [] ~ IsSaid(e.dir[home]) /\ IsSaid(e.xdg[home]) -> <<e.xdg[home], "turkish-code">>
      [] OTHER -> <<"~", home, "turkish-code">>

NoFile == [state |-> "missing", locale |-> "unset", log_level |-> "unset"]
FileIn(d, dir) == IF dir \in DOMAIN d THEN d[dir] ELSE NoFile

(* What can be used of a file: nothing of one that cannot be read. *)
ReadSettingsFile(f) == IF f.state = "parsed" THEN f ELSE NoFile
FileWarns(f) == f.state \in {"unreadable", "malformed"}

ResolveLocale(e, f) ==
    CASE IsSaid(e.locale) -> e.locale
      [] ~ IsSaid(e.locale) /\ f.locale \in Texts -> f.locale
      [] OTHER -> "tr"
LocaleWarns(e, f) == ~ IsSaid(e.locale) /\ f.locale \in {"blank", "number"}

ParseLevel(word) == IF word \in DOMAIN LevelNamed THEN LevelNamed[word] ELSE "INFO"
ResolveLogLevel(e, f) ==
    CASE IsSaid(e.log_level) -> ParseLevel(e.log_level)
      [] ~ IsSaid(e.log_level) /\ f.log_level \notin {"unset", "number"} ->
            ParseLevel(f.log_level)
      [] OTHER -> "INFO"
LevelWarns(e, f) ==
    IF IsSaid(e.log_level) THEN e.log_level \notin DOMAIN LevelNamed
    ELSE f.log_level # "unset" /\ f.log_level \notin DOMAIN LevelNamed

(* Mutant: whatever the environment names is taken for a mode. *)
AnyCostMode(e) == IF IsSaid(e.cost_mode) THEN e.cost_mode ELSE "balanced"
ResolveCostMode(e) ==
    IF e.cost_mode \in DOMAIN ModeNamed THEN ModeNamed[e.cost_mode] ELSE "balanced"
CostModeWarns(e) == IsSaid(e.cost_mode) /\ e.cost_mode \notin DOMAIN ModeNamed

IsConfigured(e, cloud) == IsSaid(e.key[cloud]) /\ IsSaid(e.url[cloud])

Load(e, d) ==
    LET f == ReadSettingsFile(FileIn(d, Dir(e, "config")))
    IN  [locale |-> ResolveLocale(e, f), log_level |-> ResolveLogLevel(e, f),
         cost_mode |-> ResolveCostMode(e),
         paths |-> [home \in Homes |-> Dir(e, home)],
         clouds |-> {cloud \in Clouds : IsConfigured(e, cloud)},
         ollama |-> IF IsSaid(e.ollama_url) THEN e.ollama_url ELSE "localhost"]
Warnings(e, d) ==
    LET kept == FileIn(d, Dir(e, "config"))
        f == ReadSettingsFile(kept)
    IN  {k \in {"file", "locale", "log_level", "cost_mode"} :
            \/ k = "file" /\ FileWarns(kept)
            \/ k = "locale" /\ LocaleWarns(e, f)
            \/ k = "log_level" /\ LevelWarns(e, f)
            \/ k = "cost_mode" /\ CostModeWarns(e)}

----------------------------------------------------------------------------
(* From nothing to serving.                                                *)

BootInit ==
    /\ environ \in Environs /\ disk \in Disks
    /\ entry \in {"process", "embedded"}
    /\ phase = "off" /\ stdout = "pipe"
    /\ settings = Absent /\ warned = {} /\ providers = <<>>
    /\ answer = Absent /\ asked = Absent

GuardStdout ==
    /\ entry = "process" /\ phase = "off" /\ stdout = "pipe"
    /\ stdout' = "guard"
    /\ UNCHANGED <<environ, disk, entry, phase, settings, warned, providers, answer, asked>>

LoadSettings ==
    /\ phase = "off" /\ (entry = "process" => stdout = "guard")
    /\ settings' = Load(environ, disk)
    /\ warned' = Warnings(environ, disk)
    /\ phase' = "settled"
    /\ UNCHANGED <<environ, disk, entry, stdout, providers, answer, asked>>

(* Gemini, Groq, OpenRouter, NVIDIA NIM, those that are configured; Ollama *)
(* needs no key.                                                           *)
Adapted(s, cloud) == IF cloud \in s.clouds THEN <<cloud>> ELSE <<>>
BuildProviders(s) ==
    Adapted(s, "gemini") \o Adapted(s, "groq") \o Adapted(s, "openrouter")
        \o Adapted(s, "nvidia_nim") \o <<"ollama">>

(* The logger, the providers, the runtimes; CostMode raises for a word     *)
(* that is no mode, ProviderManager for an id that comes twice.            *)
BuildContainer ==
    /\ phase = "settled"
    /\ LET ids == BuildProviders(settings)
           unique == \A j, k \in DOMAIN ids : ids[j] = ids[k] => j = k
       IN  IF unique /\ settings.cost_mode \in Modes
           THEN providers' = ids /\ phase' = "built"
           ELSE phase' = "died" /\ UNCHANGED providers
    /\ UNCHANGED <<environ, disk, entry, stdout, settings, warned, answer, asked>>

(* sys.stdout is asked for its descriptor, which the guard has not got. *)
OpenStdioStreams ==
    /\ phase = "built" /\ entry = "process"
    /\ phase' = IF stdout = "guard" THEN "died" ELSE "opened"
    /\ UNCHANGED <<environ, disk, entry, stdout, settings, warned, providers, answer, asked>>

TakeStreams ==
    /\ phase = "built" /\ entry = "embedded"
    /\ phase' = "opened"
    /\ UNCHANGED <<environ, disk, entry, stdout, settings, warned, providers, answer, asked>>

(* build_channel registers the app handlers; then the channel is served. *)
BuildChannel ==
    /\ phase = "opened"
    /\ phase' = "serving"
    /\ UNCHANGED <<environ, disk, entry, stdout, settings, warned, providers, answer, asked>>

----------------------------------------------------------------------------
(* The app handlers.                                                       *)

Handshake(version) ==
    /\ phase = "serving"
    /\ answer' = IF version = "other_major" THEN [to |-> "handshake", ok |-> FALSE, is |-> <<>>]
                 ELSE [to |-> "handshake", ok |-> TRUE, is |-> providers]
    /\ UNCHANGED <<environ, disk, entry, phase, stdout, settings, warned, providers, asked>>

AdapterOf(id) == IF id \in {"gemini", "ollama"} THEN id ELSE "openai"

(* health_snapshot: each provider's health is awaited in its turn. *)
AskHealth ==
    /\ phase = "serving" /\ asked = Absent
    /\ asked' = <<>>
    /\ UNCHANGED <<environ, disk, entry, phase, stdout, settings, warned, providers, answer>>

HealthComes(reply) ==
    /\ phase = "serving" /\ asked # Absent /\ Len(asked) < Len(providers)
    /\ asked' = Append(asked, Health(AdapterOf(providers[Len(asked) + 1]), reply))
    /\ UNCHANGED <<environ, disk, entry, phase, stdout, settings, warned, providers, answer>>

AnswerHealth ==
    /\ phase = "serving" /\ asked # Absent /\ Len(asked) = Len(providers)
    /\ answer' = [to |-> "health", ok |-> TRUE, is |-> asked]
    /\ asked' = Absent
    /\ UNCHANGED <<environ, disk, entry, phase, stdout, settings, warned, providers>>

(* app.shutdown, or the end of the input: serve returns, and what it had   *)
(* under way is cancelled.                                                 *)
ServeReturns ==
    /\ phase = "serving"
    /\ phase' = "closed" /\ asked' = Absent
    /\ UNCHANGED <<environ, disk, entry, stdout, settings, warned, providers, answer>>

BootStep ==
    \/ GuardStdout \/ LoadSettings \/ BuildContainer \/ OpenStdioStreams \/ TakeStreams
    \/ BuildChannel \/ AskHealth \/ AnswerHealth \/ ServeReturns
    \/ \E version \in Versions : Handshake(version)
    \/ \E reply \in Replies : HealthComes(reply)

----------------------------------------------------------------------------
(* The layers: the first that says anything decides, by what it says if    *)
(* that can be used and else by the default, which is then reported.       *)
Decides(word, written) == IF IsSaid(word) THEN word ELSE written
Layered(word, usable, default) == IF word \in DOMAIN usable THEN usable[word] ELSE default
Complains(word, usable) == word # "unset" /\ word \notin DOMAIN usable

(* A bad file is as good as none. *)
InForce == ReadSettingsFile(FileIn(disk, Dir(environ, "config")))
AsTheySay == [w \in Texts |-> w]
ByLayers ==
    LET locale == Decides(environ.locale, InForce.locale)
        level == Decides(environ.log_level, InForce.log_level)
        mode == Decides(environ.cost_mode, "unset")
    IN  /\ settings.locale = Layered(locale, AsTheySay, "tr")
        /\ settings.log_level = Layered(level, LevelNamed, "INFO")
        /\ settings.cost_mode = Layered(mode, ModeNamed, "balanced")
        /\ "locale" \in warned <=> Complains(locale, AsTheySay)
        /\ "log_level" \in warned <=> Complains(level, LevelNamed)
        /\ "cost_mode" \in warned <=> Complains(mode, ModeNamed)
        /\ "file" \in warned <=>
              FileIn(disk, Dir(environ, "config")).state \in {"unreadable", "malformed"}

(* Whatever the environment and the file say, each key is resolved by its  *)
(* layers, a bad one at the cost of its own key only: no boot ends for it  *)
(* before its providers are built.  What is built, and what the handshake  *)
(* lists, are the providers given both a key and an address, and Ollama,   *)
(* each once, and health answers for as many.                              *)
BootSound ==
    /\ phase # "off" => ByLayers
    /\ phase \notin {"off", "settled"} =>
          /\ {providers[k] : k \in DOMAIN providers} =
                {cloud \in Clouds : IsSaid(environ.key[cloud]) /\ IsSaid(environ.url[cloud])}
                \cup {"ollama"}
          /\ \A j, k \in DOMAIN providers : providers[j] = providers[k] => j = k
          /\ answer # Absent /\ answer.to = "health" => Len(answer.is) = Len(providers)
          /\ answer # Absent /\ answer.to = "handshake" /\ answer.ok => answer.is = providers

(* The process the shell spawns binds its stdio and serves: no boot by     *)
(* main ends on the way there, the guard that stands in for sys.stdout     *)
(* included, past which the channel is said to write.                      *)
ProcessServes == entry = "process" => phase # "died"
============================================================================
