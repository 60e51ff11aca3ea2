---------------------------- MODULE MCCommandParser ----------------------------
(***************************************************************************)
(* Two commands at the top, two below one of them and one more below those, *)
(* with parameters of every type that is treated in its own way; and all    *)
(* lists of tokens up to a length.                                          *)
(***************************************************************************)
EXTENDS CommandParser, TLC

CONSTANTS MaxTokens  \* the length of the lists of tokens

MCText == {"help", "user", "User", "role", "x", "y"}

MCLower == [t \in MCText |-> IF t = "User" THEN "user" ELSE t]

MCRoute == {"help", "helpUser", "helpRole", "helpUserRole", "role"}

MCContainer == [n \in {"help", "role"} |-> n]

MCChildren ==
    [r \in MCRoute |->
        CASE r = "help" -> [n \in {"user", "role"} |->
                                IF n = "user" THEN "helpUser" ELSE "helpRole"]
          [] r = "helpUser" -> [n \in {"role"} |-> "helpUserRole"]
          [] OTHER -> Null]

MCNamesOf ==
    [r \in MCRoute |->
        CASE r = "helpUser" -> {"user"}
          [] r \in {"helpRole", "helpUserRole", "role"} -> {"role"}
          [] OTHER -> {"help"}]

MCParam(name, type) ==
    [name |-> name, type |-> type, optional |-> FALSE, default |-> Null, hungry |-> FALSE]

MCParams ==
    [r \in MCRoute |->
        CASE r = "help" -> <<>>
          [] r = "helpUser" -> <<MCParam("x", "Boolean"),
                                 [MCParam("y", "String") EXCEPT !.optional = TRUE],
                                 MCParam("role", "User")>>
          [] r = "helpRole" -> <<MCParam("x", "Custom"),
                                 [MCParam("y", "Boolean") EXCEPT !.optional = TRUE]>>
          [] r = "helpUserRole" -> <<MCParam("x", "Group")>>
          [] r = "role" -> <<[MCParam("x", "String") EXCEPT !.default = "default"],
                             [MCParam("y", "Number") EXCEPT !.hungry = TRUE]>>]

MCTokens ==
    [kind : {"Generic"}, text : {"help", "User", "user", "role"}]
        \union [kind : {"Parameter"}, text : {"x", "y"}]
        \union [kind : {"Number", "Prefix"}, text : {"x"}]

MCPrefix == [kind |-> "Prefix", text |-> "x"]

MCInput ==
    {<<>>, <<[kind |-> "Generic", text |-> "help"]>>}
        \union {<<MCPrefix>> \o t : t \in UNION {[1..n -> MCTokens] : n \in 0..MaxTokens}}
================================================================================
