--------------------------- MODULE MCCommandDispatch ---------------------------
(* A small instance of CommandDispatch for TLC: two guilds, matchers of every     *)
(* strategy, and a route with interceptors of all kinds.                          *)
EXTENDS CommandDispatch, TLC

CONSTANTS m1, m2, m3, g1, g2, scoped, asking, static, dynamic, custom

MCMessage == {m1, m2}
MCThreeMessages == {m1, m2, m3}
MCGuild == {g1, g2}
MCText == {"w!", "W!", "?", "!"}
MCLower == [p \in MCText |-> IF p = "W!" THEN "w!" ELSE p]
MCMatcher == {scoped, asking, static, dynamic, custom}
MCStrategy == scoped :> "Scoped" @@ asking :> "Scoped" @@ static :> "Static"
              @@ dynamic :> "Dynamic" @@ custom :> "Custom"

\* A scoped matcher with a literal to fall back to and one with resolvers only, and
\* a static matcher with a capital.
MCPrefixList == scoped :> <<Resolvable, "!">> @@ asking :> <<Resolvable, Resolvable>>
              @@ static :> <<"W!", "!">>
              @@ dynamic :> <<>> @@ custom :> <<>>

MCCallbacks == [filter |-> <<"f">>, guard |-> <<"c">>, pipe |-> <<>>]
MCClasses == [filter |-> <<>>, guard |-> <<"G", "H">>, pipe |-> <<"P">>]

MCSettable == g1 :> {"w!", "W!"} @@ g2 :> {"?", Nil}

MCSent ==
    {[guild |-> g, typed |-> p, matcher |-> scoped, refuses |-> {}] :
        g \in MCGuild, p \in {"w!", "!"}}
    \union {[guild |-> g2, typed |-> p, matcher |-> asking, refuses |-> {}] :
        p \in {"?", "!"}}
    \union {[guild |-> g1, typed |-> p, matcher |-> static, refuses |-> {}] :
        p \in {"w!", "W!"}}
    \union {[guild |-> g1, typed |-> Nil, matcher |-> custom, refuses |-> {}],
            [guild |-> g1, typed |-> "!", matcher |-> dynamic, refuses |-> {}]}
    \union {[guild |-> g1, typed |-> "!", matcher |-> custom, refuses |-> r] :
        r \in {{}, {"f"}, {"c"}, {"G"}, {"H"}}}

\* Messages of one guild for the scoped matchers.
MCSentScoped == {a \in MCSent : a.guild = g1 /\ a.matcher = scoped}
===============================================================================
