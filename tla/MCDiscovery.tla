---------------------------- MODULE MCDiscovery -----------------------------
(* A manifest that can be trusted, one whose id comes twice, one that is   *)
(* too new, and each way of being none.                                    *)
EXTENDS Discovery

Plugin(id, v, needs) ==
    [text |-> "toml", form |-> "whole", id |-> id, version |-> v, needs |-> needs,
     tools |-> <<"t", "u">>, provider |-> "tools"]
Fine == Plugin("a.b", <<1, 0, 0>>, <<0, 9, 9>>)
Newer == Plugin("a.b", <<2, 0, 0>>, <<1, 0, 0>>)
Another == Plugin("c.d", <<2, 0, 0>>, <<0, 9, 9>>)
MCManifests ==
    {Fine, Newer, Another, Plugin("c.d", <<1, 0, 0>>, <<1, 0, 1>>),
     Plugin("x", <<1, 0, 0>>, <<0, 9, 9>>), Plugin("a.b", NoVersion, <<0, 9, 9>>),
     Plugin("a.b", <<1, 0, 0>>, NoVersion)}
    \cup {[Fine EXCEPT !.tools = ts] : ts \in {<<"t", "t">>, <<"t", "blank">>}}
    \cup {[Fine EXCEPT !.text = t] : t \in {"unreadable", "not_toml", "not_utf8"}}
    \cup {[Fine EXCEPT !.form = f] : f \in {"malformed", "odd_table"}}
    \cup {[Fine EXCEPT !.provider = p] : p \in {"refuses", "raises"}}
MCRoots == {<<m, n>> : m, n \in MCManifests} \cup {<<>>, <<Fine, Another, Newer>>}
MCAppVersion == <<1, 0, 0>>

ScanSpec == DiscoveryInit /\ [][DiscoveryStep]_discoveryVars
=============================================================================
