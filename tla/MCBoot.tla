------------------------------- MODULE MCBoot -------------------------------
(* What the environment and settings.toml say: nothing, a blank, a word of *)
(* each kind, a word of none; and a file that cannot be used at all.       *)
EXTENDS Boot

Plain ==
    [locale |-> "unset", log_level |-> "unset", cost_mode |-> "unset", ollama_url |-> "unset",
     dir |-> [h \in Homes |-> "unset"], xdg |-> [h \in Homes |-> "unset"],
     key |-> [c \in Clouds |-> "unset"], url |-> [c \in Clouds |-> "unset"]]
MCEnvirons ==
    {Plain}
    \cup
    {[Plain EXCEPT !.locale = l, !.log_level = v, !.cost_mode = m, !.dir["config"] = d] :
        l \in {"blank", "en"}, v \in {"unset", "debug", "en"}, m \in {"unset", "eco", "en"},
        d \in {"unset", "here"}}
    \cup
    {[Plain EXCEPT !.key["gemini"] = k, !.url["gemini"] = u, !.key["groq"] = j,
                   !.url["groq"] = "here"] :
        k \in {"unset", "blank", "en"}, u \in {"blank", "here"}, j \in {"unset", "en"}}
Said(l, v) == [state |-> "parsed", locale |-> l, log_level |-> v]
MCDisks ==
    {<<>>}
    \cup
    {[d \in {<<"here">>} |-> f] :
        f \in {Said("en", "number"), Said("number", "debug"), Said("blank", "blank"),
               Said("unset", "en"), [Said("en", "debug") EXCEPT !.state = "unreadable"],
               [Said("en", "debug") EXCEPT !.state = "malformed"]}}
MCLevelNamed == [w \in {"debug"} |-> "DEBUG"]
MCModeNamed == [w \in {"eco"} |-> "economy"]

BootSpec == BootInit /\ [][BootStep]_bootVars
=============================================================================
