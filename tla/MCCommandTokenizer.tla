-------------------------- MODULE MCCommandTokenizer --------------------------
(***************************************************************************)
(* Messages for CommandTokenizer: all short texts over characters that the *)
(* scanners treat each in their own way, and longer ones for code blocks,  *)
(* mentions and numbers.                                                   *)
(***************************************************************************)
EXTENDS CommandTokenizer, TLC

CONSTANT MaxText  \* the length of the enumerated texts after the prefix

MCChar == {"a", "1", "space", "-", "<", "@", "quote", "tick", ">"}

MCShort == UNION {[1..n -> MCChar] : n \in 0..MaxText}

\* The prefix and the character that is passed over stand before every text.
MCBehind(t) == [text |-> <<"!", "b">> \o t, prefix |-> 1]

MCLong ==
    {<<"tick", "tick", "tick", "a", "tick", "b", "tick", "tick", "tick", "space", "a">>,
     <<"a", "tick", "tick", "tick", "b", "tick", "tick", "tick">>,
     <<"tick", "tick", "tick", "a", "newline", "b">>,
     <<"<", "@", "&", "1", ">">>,
     <<"<", "@", "1", "&", ">">>,
     <<"<", "@", "1", "#", ">">>,
     <<"<", "#", "1", "0", ">", "space", "a">>,
     <<"<", ":", "1", ">", ":", "#", "&", "0", ">">>,
     <<"<", ":", ":", ":">>,
     <<"<", ":", "a", ":", "1", ">">>,
     <<"a", "<", "@", "1", ">", "b">>,
     <<"1", ".", "0", "space", "1", ".", ".", "0">>,
     <<"-", "1", ".", "-", "b", "space", "-", "newline", "a">>,
     <<"-", "-", "a", "b", "space", "1">>,
     <<"-", "-", "-", "a", ".">>,
     <<"-", "underscore", "A", "space", "quote", "a", "space", "b", "quote">>,
     <<"a", "b", "newline", "A", "underscore", "space", "space", "b", "a">>}

MCMessage ==
    {MCBehind(t) : t \in MCShort \union MCLong}
        \union {[text |-> <<"!">>, prefix |-> 1],
                 [text |-> <<"a", "b">>, prefix |-> 0],
                 [text |-> <<"!", "space", "a", "b">>, prefix |-> 1]}
===============================================================================
