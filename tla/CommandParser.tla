----------------------------- MODULE CommandParser -----------------------------
(***************************************************************************)
(* One call of `parseInput` of `CommandParser`: from a list of tokens and  *)
(* the commands that are known to the command and the arguments that are   *)
(* called.  The list is consumed from its head; it is the caller's own.    *)
(*                                                                         *)
(* A step is one turn of a loop of the code, and ends at the latest where  *)
(* the code awaits.  Several parses share nothing but the commands, which  *)
(* they only read.                                                         *)
(***************************************************************************)
EXTENDS Integers, Sequences, FiniteSets, SequencesExt

CONSTANTS
    Text,           \* the texts of tokens and the names of commands
    Lower,          \* toLowerCase, a function on Text
    Route,          \* the command routes
    Container,      \* the CommandContainer: some names of commands to routes
    Children,       \* Children[r]: names to routes, or Null
    CaseSensitive,  \* the routes whose names are case sensitive
    NamesOf,        \* NamesOf[r]: the name and the aliases of r
    Params,         \* Params[r]: the parameters of r, in order
    Input,          \* the lists of tokens that are parsed
    Null            \* null

Kind == {"Prefix", "Generic", "Parameter", "Number", "StringLiteral", "UserMention"}

\* CommandTokenKind: every kind is one bit, none of them the lowest.
KindValue ==
    [k \in Kind |-> CASE k = "UserMention" -> 2
                      [] k = "StringLiteral" -> 64
                      [] k = "Number" -> 256
                      [] k = "Prefix" -> 2048
                      [] k = "Parameter" -> 4096
                      [] k = "Generic" -> 8192]

ParamType == {"String", "Boolean", "Number", "User", "Custom", "Group"}

StringLike == {"Generic", "StringLiteral"}

\* PARAMETER_TOKEN_MAP, without an entry for the types of users' own making
Accepted ==
    [t \in ParamType |-> CASE t \in {"String", "Boolean"} -> StringLike
                           [] t = "Number" -> StringLike \union {"Number"}
                           [] t = "User" -> StringLike \union {"UserMention"}
                           [] OTHER -> {}]

\* The text of a parameter token is its value, the name without the dashes.
Token == [kind : Kind, text : Text]

Param == [name : Text, type : ParamType, optional : BOOLEAN,
          default : {Null, "default"}, hungry : BOOLEAN]

ASSUME ParserAssumption ==
    /\ Lower \in [Text -> Text]
    /\ \E Named \in SUBSET Text : Container \in [Named -> Route]
    /\ \A r \in Route : Children[r] = Null
            \/ \E Named \in SUBSET Text : Children[r] \in [Named -> Route]
    /\ Params \in [Route -> Seq(Param)]
    /\ NamesOf \in [Route -> SUBSET Text]
    /\ CaseSensitive \subseteq Route
    /\ Input \subseteq Seq(Token)

\* What parseInput is rejected with.
Exception ==
    [class : {"ParsingException"}, token : Token \union {Null}, param : Param \union {Null}]
        \union [class : {"Error", "TypeError"}]

\* A parameter whose value is awaited, with the values that were parsed for it.
Awaited == [param : Param, values : Seq(Text)]

ASSUME NullAssumption ==
    /\ Null \notin Route \union {"default", "true"}
    /\ Null \notin Token \union Param
    /\ Null \notin Exception \union Awaited

VARIABLES
    input,   \* the tokens as they were handed in
    tokens,  \* the tokens that are left of them
    route,   \* the command that was found, or Null
    path,    \* the texts that named it: the AstCommand and its sub commands
    parsed,  \* parsedArguments, the parameters that are done
    args,    \* astArguments, names to values
    current, \* the parameter that is parsed and the values of a hungry one, or Null
    pc,      \* where parseInput is
    error    \* what it was rejected with, or Null

parserVars == <<input, tokens, route, path, parsed, args, current, pc, error>>

NextToken == IF tokens = <<>> THEN Null ELSE Head(tokens)

Take == tokens' = IF tokens = <<>> THEN <<>> ELSE Tail(tokens)

IsKind(token, kind) == token # Null /\ token.kind = kind

\* isFlagSet: the bit that is set is compared with 1.
IsFlagSet(kind, kinds) == (IF kind \in kinds THEN KindValue[kind] ELSE 0) = 1

------------------------------------------------------------------------------

Init ==
    /\ input \in Input
    /\ tokens = input
    /\ route = Null
    /\ path = <<>>
    /\ parsed = <<>>
    /\ args = [n \in {} |-> Null]
    /\ current = Null
    /\ pc = "prefix"
    /\ error = Null

Reject(with) ==
    /\ pc' = "failed"
    /\ error' = with
    /\ UNCHANGED <<input, route, path, parsed, args, current>>

ParsingException(token, param) ==
    [class |-> "ParsingException", token |-> token, param |-> param]

Error == [class |-> "Error"]

TypeError == [class |-> "TypeError"]

\* getPrefixAst
GetPrefix ==
    /\ pc = "prefix"
    /\ Take
    /\ IF IsKind(NextToken, "Prefix")
       THEN /\ pc' = "command"
            /\ UNCHANGED <<input, route, path, parsed, args, current, error>>
       ELSE Reject(ParsingException(NextToken, Null))

\* getCommandAst: names are looked up in lower case, as they were declared.
GetCommand ==
    LET name == Lower[NextToken.text]
    IN  /\ pc = "command"
        /\ Take
        /\ IF NextToken = Null THEN Reject(ParsingException(Null, Null))
           ELSE IF NextToken.kind # "Generic" \/ name \notin DOMAIN Container
           THEN Reject(Error)
           ELSE /\ route' = Container[name]
                /\ path' = <<NextToken.text>>
                /\ pc' = "subCommand"
                /\ UNCHANGED <<input, parsed, args, current, error>>

\* Whether the token names a command below r
NamesChild(r, token) ==
    /\ Children[r] # Null
    /\ IsKind(token, "Generic")
    /\ Lower[token.text] \in DOMAIN Children[r]

\* The token that was taken is the name of the sub command `child`.
Descend(child, where) ==
    IF child \in CaseSensitive /\ NextToken.text \notin NamesOf[child] THEN Reject(Error)
    ELSE /\ route' = child
         /\ path' = Append(path, NextToken.text)
         /\ pc' = where
         /\ UNCHANGED <<input, parsed, args, current, error>>

\* Variant: sub commands of sub commands are arguments.
ResolveOneSubCommand ==
    /\ pc = "subCommand"
    /\ IF NamesChild(route, NextToken)
       THEN Take /\ Descend(Children[route][Lower[NextToken.text]], "arguments")
       ELSE /\ pc' = "arguments"
            /\ UNCHANGED <<tokens, input, route, path, parsed, args, current, error>>

\* Variant: a token is put back that was not taken.
ResolveAndPutBack ==
    /\ pc = "subCommand"
    /\ IF NamesChild(route, NextToken)
       THEN Take /\ Descend(Children[route][Lower[NextToken.text]], "subCommand")
       ELSE /\ pc' = "arguments"
            /\ tokens' = IF tokens = <<>> THEN <<>> ELSE <<Head(tokens)>> \o tokens
            /\ UNCHANGED <<input, route, path, parsed, args, current, error>>

\* A turn of resolveSubCommand.  A token that is not the name of a sub command
\* is put back.
ResolveSubCommand ==
    /\ pc = "subCommand"
    /\ IF NamesChild(route, NextToken)
       THEN Take /\ Descend(Children[route][Lower[NextToken.text]], "subCommand")
       ELSE /\ pc' = "arguments"
            /\ UNCHANGED <<tokens, input, route, path, parsed, args, current, error>>

------------------------------------------------------------------------------
\* getArgumentsAst

\* getNextParameter: the first parameter that was parsed before.
NextParameter ==
    LET again == {i \in DOMAIN Params[route] : Contains(parsed, Params[route][i])}
    IN  IF again = {} THEN Null
        ELSE Params[route][CHOOSE i \in again : \A j \in again : i <= j]

\* getParameterInRouteFromToken
NamedBy(token) ==
    LET named == {i \in DOMAIN Params[route] :
                    Lower[Params[route][i].name] = Lower[token.text]}
    IN  IF named = {} THEN Null
        ELSE Params[route][CHOOSE i \in named : \A j \in named : i <= j]

\* astArguments.set
With(name, value) ==
    [n \in DOMAIN args \union {name} |-> IF n = name THEN value ELSE args[n]]

\* Variant: the argument is set under the name of the first parameter.
SetFirstArgument(pushed, value) ==
    /\ parsed' = parsed \o pushed
    /\ args' = With(Head(parsed \o pushed).name, value)
    /\ pc' = "arguments"
    /\ current' = Null
    /\ UNCHANGED <<input, route, path, error>>

\* The argument is set under the name of the parameter that was pushed last.
SetArgument(pushed, value) ==
    /\ parsed' = parsed \o pushed
    /\ args' = With(Last(parsed \o pushed).name, value)
    /\ pc' = "arguments"
    /\ current' = Null
    /\ UNCHANGED <<input, route, path, error>>

\* Variant: the parameter is not pushed again.
ParseEmptyWithoutPush(param, pushed) ==
    IF param = Null THEN Reject(TypeError)
    ELSE IF param.optional THEN SetArgument(pushed, Null)
    ELSE IF param.default # Null THEN SetArgument(pushed, param.default)
    ELSE Reject(ParsingException(Null, param))

\* parseEmptyNextToken
ParseEmptyNextToken(param, pushed) ==
    IF param = Null THEN Reject(TypeError)
    ELSE IF param.optional THEN SetArgument(Append(pushed, param), Null)
    ELSE IF param.default # Null THEN SetArgument(Append(pushed, param), param.default)
    ELSE Reject(ParsingException(Null, param))

AllParsed == Len(parsed) >= Len(Params[route])

AtNextParameter == pc = "arguments" /\ ~AllParsed

\* parseNextParameter at the end of the tokens
NextIsMissing ==
    /\ AtNextParameter
    /\ tokens = <<>>
    /\ ParseEmptyNextToken(NextParameter, <<>>)
    /\ UNCHANGED tokens

\* The parameter is pushed and the parse function for its value awaited.
Await(where, param) ==
    /\ pc' = where
    /\ current' = [param |-> param, values |-> <<>>]
    /\ parsed' = Append(parsed, param)
    /\ UNCHANGED <<input, route, path, args, error>>

\* A Boolean parameter without a value, pushed for the second time.
Switch(param) == SetArgument(<<param, param>>, "true")

\* parseParameterToken.  isBooleanToken compares a text with records and holds
\* of none.
NextIsParameter ==
    LET param == NamedBy(NextToken)
        value == IF Len(tokens) < 2 THEN Null ELSE tokens[2]
        noValue == value = Null \/ IsKind(value, "Parameter")
    IN  /\ AtNextParameter
        /\ IsKind(NextToken, "Parameter")
        /\ Take
        /\ IF param = Null THEN Reject(ParsingException(NextToken, Null))
           ELSE IF param.type = "Boolean" /\ noValue THEN Switch(param)
           ELSE IF param.type = "Boolean" /\ value.kind = "Number" THEN Reject(TypeError)
           ELSE IF param.type = "Boolean" THEN Reject(ParsingException(NextToken, param))
           ELSE IF noValue THEN ParseEmptyNextToken(param, <<param>>)
           ELSE Await(IF param.hungry THEN "hungry" ELSE "value", param)

\* What can go wrong on the way to a value of a type, apart from a token of the
\* wrong kind: what the injector or the client is asked for is not there, a number
\* is none, or code of the application throws.  Texts and Booleans are made of
\* anything.
Fault(type) ==
    {"none"} \union IF type = "Custom" THEN {"injector", "parseFn"}
                    ELSE IF type \in {"Number", "User"} THEN {"parseFn"} ELSE {}

\* The value a parse function makes of a token; values are told apart by the text.
Value(token) == token.text

\* A value is parsed, or the parse fails as `failed`.  getParseFn asks the injector
\* for a type of the user's own making and has nothing for a group; then comes
\* validateArgumentToken, then the parse function.
Parse(param, token, fault, failed, value) ==
    /\ fault \in Fault(param.type)
    /\ IF fault = "injector" THEN Reject(Error)
       ELSE IF param.type = "Group" THEN Reject(TypeError)
       ELSE IF ~IsFlagSet(token.kind, Accepted[param.type])
       THEN Reject(ParsingException(token, param))
       ELSE IF fault = "parseFn" THEN failed
       ELSE value

\* parseNextParameter for a token that is no parameter: a parse function that
\* fails is made up for.
NextIsText(fault) ==
    LET param == NextParameter
    IN  /\ AtNextParameter
        /\ NextToken # Null
        /\ ~IsKind(NextToken, "Parameter")
        /\ Take
        /\ IF param = Null THEN Reject(TypeError)
           ELSE Parse(param, NextToken, fault,
                      IF param.optional THEN SetArgument(<<>>, Null)
                      ELSE IF param.default # Null THEN SetArgument(<<>>, param.default)
                      ELSE Reject(ParsingException(NextToken, param)),
                      SetArgument(<<>>, Value(NextToken)))

\* The rest of parseParameterToken
ParseValue(fault) ==
    /\ pc = "value"
    /\ IF IsFlagSet(NextToken.kind, Accepted[current.param.type]) THEN Take
       ELSE UNCHANGED tokens
    /\ Parse(current.param, NextToken, fault,
             Reject(ParsingException(NextToken, current.param)),
             SetArgument(<<>>, Value(NextToken)))

\* A turn of parseHungryArguments
ParseHungry(fault) ==
    /\ pc = "hungry"
    /\ IF NextToken = Null \/ IsKind(NextToken, "Parameter")
       THEN SetArgument(<<>>, current.values) /\ UNCHANGED tokens
       ELSE /\ Take
            /\ Parse(current.param, NextToken, fault,
                     Reject(ParsingException(NextToken, current.param)),
                     /\ current' = [current EXCEPT !.values = Append(@, Value(NextToken))]
                     /\ UNCHANGED <<input, route, path, parsed, args, pc, error>>)

Finish == pc' = "done" /\ UNCHANGED <<input, route, path, parsed, args, current, error>>

\* Variant: the tokens that are left are cleaned up even if there are none.
CleanUpAlways ==
    /\ pc = "arguments"
    /\ AllParsed
    /\ IF parsed = <<>> THEN Reject(TypeError) ELSE Finish
    /\ UNCHANGED tokens

\* The end of getArgumentsAst, with a turn of cleanUpTokenOverflow.
CleanUpTokenOverflow ==
    /\ pc = "arguments"
    /\ AllParsed
    /\ IF tokens = <<>> THEN Finish /\ UNCHANGED tokens
       ELSE IF parsed = <<>> THEN Reject(TypeError) /\ UNCHANGED tokens
       ELSE IF Last(parsed).type # "String" THEN Finish /\ UNCHANGED tokens
       ELSE /\ Take
            /\ IF IsFlagSet(NextToken.kind, StringLike)
               THEN /\ args' = With(Last(parsed).name, NextToken.text)
                    /\ UNCHANGED <<input, route, path, parsed, current, pc, error>>
               ELSE Finish

Next ==
    \/ GetPrefix \/ GetCommand \/ ResolveSubCommand
    \/ NextIsMissing \/ NextIsParameter
    \/ \E fault \in {"none", "injector", "parseFn"} :
         NextIsText(fault) \/ ParseValue(fault) \/ ParseHungry(fault)
    \/ CleanUpTokenOverflow

\* What the parser awaits comes: it is no answer of a user.
Spec == Init /\ [][Next]_parserVars /\ WF_parserVars(Next)

------------------------------------------------------------------------------
\* Properties

Ended == pc \in {"done", "failed"}

\* Where the parser has come past the command
PastCommand == pc \notin {"prefix", "command", "subCommand", "failed"}

\* The tokens that are left are the last ones handed in, and what is parsed
\* belongs to the command.
TypeOK ==
    /\ input \in Seq(Token)
    /\ Len(tokens) <= Len(input)
    /\ tokens = SubSeq(input, Len(input) - Len(tokens) + 1, Len(input))
    /\ route \in Route \union {Null}
    /\ path \in Seq(Text)
    /\ route = Null => parsed = <<>>
    /\ \A i \in DOMAIN parsed : \E j \in DOMAIN Params[route] : Params[route][j] = parsed[i]
    /\ pc \in {"prefix", "command", "subCommand", "arguments", "value", "hungry",
               "done", "failed"}
    /\ pc \in {"value", "hungry"} <=> current # Null /\ pc # "failed"
    /\ pc = "failed" <=> error # Null

\* The command that the texts of p lead to, one by one.
CommandAt(p) ==
    LET At[n \in 1..Len(p)] ==
            IF n = 1 THEN Container[Lower[p[1]]]
            ELSE Children[At[n - 1]][Lower[p[n]]]
    IN  At[Len(p)]

\* The token behind the ones that named the command
Behind == IF Len(input) < Len(path) + 2 THEN Null ELSE input[Len(path) + 2]

\* The command is the deepest one that the message names: the tokens after the
\* prefix lead to it one by one, and the next one leads no further
\* (`getCommandAst`, `resolveSubCommand`).
DeepestCommand ==
    PastCommand =>
        /\ \A n \in DOMAIN path : input[n + 1] = [kind |-> "Generic", text |-> path[n]]
        /\ route = CommandAt(path)
        /\ ~NamesChild(route, Behind)

\* Where the tokens are that were taken behind the command
TakenBehind == Len(path) + 2..Len(input) - Len(tokens)

\* The token is the name of a parameter that has an argument, or the value of one.
BecomesArgument(token) ==
    IF token.kind = "Parameter"
    THEN NamedBy(token) # Null /\ NamedBy(token).name \in DOMAIN args
    ELSE \E param \in ToSet(parsed) :
            /\ param.name \in DOMAIN args
            /\ param.hungry \/ args[param.name] = token.text

\* cleanUpTokenOverflow takes a token, finds that it cannot join it to the last
\* argument, and drops it.
IsDroppedOverflow(i) ==
    /\ i = Len(input) - Len(tokens)
    /\ input[i].kind = "Parameter"
    /\ AllParsed /\ Last(parsed).type = "String"

\* When a message is parsed every token that was taken behind the command has become
\* part of an argument, whatever was pushed twice meanwhile; but for the name of a
\* parameter that cleanUpTokenOverflow drops (`parseParameterToken`,
\* `parseEmptyNextToken`).  Nothing is said of the tokens that are left.
TakenTokensAreUsed ==
    pc = "done" =>
        \A i \in TakenBehind : BecomesArgument(input[i]) \/ IsDroppedOverflow(i)

\* A message that names a command without parameters and goes no further is
\* parsed (`parseInput`).
BareCommandsParse ==
    pc = "failed" /\ route # Null => Params[route] # <<>> \/ Len(input) > Len(path) + 1

\* The parameter was named in the message, and no value comes after its name.
SwitchedOn(param) ==
    \E i \in TakenBehind :
        /\ input[i].kind = "Parameter" /\ NamedBy(input[i]) = param
        /\ i = Len(input) \/ input[i + 1].kind = "Parameter"

\* If the argument was not written it is one that may be left out, and a Boolean is true
\* only if it was switched on.
Fits(param, value) ==
    /\ value = Null => param.optional
    /\ value = "default" => param.default # Null /\ ~param.optional
    /\ value = "true" => param.type = "Boolean" /\ SwitchedOn(param)

\* An argument is one of a parameter that was parsed, and fits it, though it is set
\* under the name of whichever parameter was pushed last (`parseEmptyNextToken`,
\* `getArgumentsAst`).
NothingIsMadeUp ==
    \A n \in DOMAIN args : \E i \in DOMAIN parsed :
        parsed[i].name = n /\ Fits(parsed[i], args[n])

\* The arguments of a message match the tokens that were taken: of those nothing is
\* lost but what cleanUpTokenOverflow drops, no argument is made up, and no
\* command without parameters is refused (`parseMessageInput`, `getArgumentsAst`).
\* It does not say that what is written becomes an argument: a value is refused
\* (AcceptedKindsAreAccepted), the tokens at the end may be ignored
\* (OverflowIsAdded) and a parameter may be missing (RequiredAreGiven).
ArgumentsMatchTokens ==
    /\ TakenTokensAreUsed
    /\ NothingIsMadeUp
    /\ BareCommandsParse

\* Generic tokens at the end are added to the last argument if that is a text.
OverflowIsAdded ==
    pc = "done" /\ parsed # <<>> /\ Last(parsed).type = "String" =>
        \A token \in ToSet(tokens) : token.kind \notin StringLike

\* A message that was parsed has an argument for every required parameter.
RequiredAreGiven ==
    pc = "done" => \A param \in ToSet(Params[route]) :
        ~param.optional /\ param.default = Null => param.name \in DOMAIN args

\* Every parse comes to an end.
ParsingEnds == <>Ended

\* `isFlagSet` returns true if the kind of a token is a flag in those that the
\* type of the parameter accepts: the token is not refused for its kind.
AcceptedKindsAreAccepted ==
    error # Null /\ error.class = "ParsingException" /\ error.token # Null
            /\ error.param # Null /\ error.token.kind # "Parameter"
        => error.token.kind \notin Accepted[error.param.type]
================================================================================
