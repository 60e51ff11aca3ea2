-------------------------- MODULE CommandParserProofs --------------------------
(***************************************************************************)
(* What the run of CommandParser checks of a parse, for any commands, any  *)
(* parameters and any list of tokens; and below it what the run of         *)
(* CommandTokenizer checks of how the tokens are made, for any message.    *)
(* The two keep no state in common.                                        *)
(*                                                                         *)
(* What is parsed is settled by where the parser is in the list: it reads  *)
(* it from the head and never puts a token back, so that the tokens it has *)
(* taken are the prefix, the names of the command and the parameters, in   *)
(* this order.  The values of arguments are never taken, since no kind of  *)
(* token passes isFlagSet.                                                 *)
(*                                                                         *)
(* The tokenizer does put characters back, and saves two tokens of the     *)
(* same place when it finds a mention inside of a generic token.  What     *)
(* keeps its tokens in order is that it never comes out of there: the      *)
(* mentions of a bracket are settled by the characters behind it (PathInv) *)
(* and so the same one is found again (TrailInv).  A plain text has no     *)
(* character that puts the cursor back, and is read word by word           *)
(* (PlainInv).                                                             *)
(***************************************************************************)
EXTENDS CommandParser, CommandTokenizer, WellFoundedInduction, SequenceTheorems, TLAPS

\* How many of the tokens were taken.
Taken == Len(input) - Len(tokens)

\* The parameters of the command that was found.
Belongs(param) == \E j \in DOMAIN Params[route] : Params[route][j] = param

\* Every variable has the values its code can give.
ShapeInv ==
    /\ input \in Seq(Token) /\ tokens \in Seq(Token)
    /\ Len(tokens) <= Len(input)
    /\ \A i \in 1..Len(tokens) : tokens[i] = input[Taken + i]
    /\ route \in Route \union {Null}
    /\ path \in Seq(Text)
    /\ parsed \in Seq(Param)
    /\ route = Null => parsed = <<>>
    /\ \A i \in DOMAIN parsed : Belongs(parsed[i])
    /\ current \in Awaited \union {Null}
    /\ error \in Exception \union {Null}
    /\ pc \in {"prefix", "command", "subCommand", "arguments", "value", "hungry",
               "done", "failed"}
    /\ pc \in {"value", "hungry"} => current # Null
    /\ pc \notin {"value", "hungry", "failed"} => current = Null
    /\ pc = "failed" <=> error # Null

\* f takes the texts of p to the commands they name, each below the one before.
Leads(f, p) ==
    /\ f[1] = Container[Lower[p[1]]]
    /\ \A n \in 2..Len(p) : f[n] = Children[f[n - 1]][Lower[p[n]]]

\* The tokens after the prefix were generic and named the command.
IsNamed ==
    /\ path # <<>> /\ route \in Route
    /\ \A n \in DOMAIN path : input[n + 1] = [kind |-> "Generic", text |-> path[n]]
    /\ \E f \in [1..Len(path) -> Route] : Leads(f, path) /\ route = f[Len(path)]

\* Where the parser is in the list.
PlaceInv ==
    /\ pc = "prefix" => Taken = 0
    /\ pc = "command" => Taken = 1
    /\ pc \in {"prefix", "command"} => route = Null /\ path = <<>>
    /\ pc \in {"prefix", "command", "subCommand"} => parsed = <<>>
    /\ pc = "subCommand" => IsNamed /\ Taken = Len(path) + 1
    /\ PastCommand => IsNamed /\ Taken >= Len(path) + 1 /\ ~NamesChild(route, Behind)
    /\ pc \in {"arguments", "value", "hungry"} =>
           \A i \in Len(path) + 2..Taken : input[i].kind = "Parameter"
    /\ pc \in {"value", "hungry"} =>
           tokens # <<>> /\ Head(tokens).kind # "Parameter" /\ parsed # <<>>

\* While arguments are parsed the tokens that were taken are names of parameters with an
\* argument, and once there is one no value comes next.
UsedInv ==
    pc = "arguments" =>
        /\ \A i \in TakenBehind :
              /\ input[i].kind = "Parameter"
              /\ NamedBy(input[i]) # Null
              /\ NamedBy(input[i]).name \in DOMAIN args
        /\ parsed # <<>> /\ tokens # <<>> => Head(tokens).kind = "Parameter"

ParserInv ==
    /\ ShapeInv
    /\ PlaceInv
    /\ UsedInv
    /\ ArgumentsMatchTokens

------------------------------------------------------------------------------
(* Helpers *)

\* No kind of token is accepted: none of them is the lowest bit.
LEMMA NoFlagIsSet ==
  ASSUME NEW kind \in Kind, NEW kinds
  PROVE  ~IsFlagSet(kind, kinds)
  BY DEF IsFlagSet, KindValue, Kind

\* The last element of a list that was appended to another one.
LEMMA LastOfConcat ==
  ASSUME NEW S, NEW s \in Seq(S), NEW t \in Seq(S), t # <<>>
  PROVE  s \o t # <<>> /\ Last(s \o t) = t[Len(t)]
  <1>1. Len(s) \in Nat /\ Len(t) \in Nat \ {0} /\ Len(s \o t) = Len(s) + Len(t)
    OBVIOUS
  <1>2. (s \o t)[Len(s) + Len(t)] = t[Len(s) + Len(t) - Len(s)]
    OBVIOUS
  <1>3. Len(s) + Len(t) - Len(s) = Len(t)
    BY <1>1
  <1>4. s \o t # <<>>
    BY <1>1
  <1> QED
    BY <1>1, <1>2, <1>3, <1>4 DEF Last

\* The token behind the next one is next when that one is taken.
LEMMA SecondIsNext ==
  ASSUME NEW S, NEW s \in Seq(S), Len(s) >= 2
  PROVE  Tail(s) # <<>> /\ Head(Tail(s)) = s[2] /\ s[2] \in S
  <1>1. Tail(s) \in Seq(S) /\ Len(Tail(s)) = Len(s) - 1 /\ Len(s) \in Nat
        /\ Tail(s)[1] = s[2] /\ s[2] \in S
    OBVIOUS
  <1>2. Tail(s) # <<>>
    <2>1. PICK t \in Seq(S) : t = Tail(s)
      BY <1>1
    <2>2. Len(t) >= 1
      BY <1>1, <2>1
    <2>3. t # <<>>
      BY <2>2
    <2> QED
      BY <2>1, <2>3
  <1> QED
    BY <1>1, <1>2

\* Every set of numbers has a least one.
LEMMA LeastNumber ==
  ASSUME NEW S \in SUBSET Nat, S # {}
  PROVE  \E n \in S : \A m \in S : n <= m
  <1> DEFINE Less == {ss \in Nat \X Nat : ss[1] < ss[2]}
  <1>1. IsWellFoundedOn(Less, Nat)
    BY NatLessThanWellFounded DEF OpToRel
  <1> HIDE DEF Less
  <1>2. PICK n \in S : \A m \in S : <<m, n>> \notin Less
    BY <1>1, WFMin
  <1>3. \A m \in S : ~(m < n)
    BY <1>2 DEF Less
  <1> QED
    BY <1>3

\* The parameter that is next, or named by a token, is one of the command, if any.
LEMMA FoundParameter ==
  ASSUME route \in Route,
         NEW S \in SUBSET (DOMAIN Params[route]), S # {}
  PROVE  LET param == Params[route][CHOOSE i \in S : \A j \in S : i <= j]
         IN  param \in Param /\ Belongs(param)
  <1>1. Params[route] \in Seq(Param)
    BY ParserAssumption
  <1>2. DOMAIN Params[route] \subseteq Nat
    BY <1>1
  <1>3. \E i \in S : \A j \in S : i <= j
    BY <1>2, LeastNumber
  <1>4. PICK i : i = CHOOSE k \in S : \A j \in S : k <= j
    OBVIOUS
  <1>5. i \in DOMAIN Params[route]
    BY <1>3, <1>4
  <1>6. Params[route][i] \in Param
    BY <1>1, <1>5
  <1> QED
    BY <1>4, <1>5, <1>6 DEF Belongs

LEMMA ParametersFound ==
  ASSUME route \in Route, NEW token
  PROVE  /\ NextParameter # Null => NextParameter \in Param /\ Belongs(NextParameter)
         /\ NamedBy(token) # Null => NamedBy(token) \in Param /\ Belongs(NamedBy(token))
  <1>1. ASSUME NextParameter # Null
        PROVE  NextParameter \in Param /\ Belongs(NextParameter)
    <2> DEFINE S == {i \in DOMAIN Params[route] : Contains(parsed, Params[route][i])}
    <2>1. S # {} /\ NextParameter = Params[route][CHOOSE i \in S : \A j \in S : i <= j]
      BY <1>1 DEF NextParameter
    <2>2. S \in SUBSET (DOMAIN Params[route])
      OBVIOUS
    <2> HIDE DEF S
    <2> QED
      BY <2>1, <2>2, FoundParameter
  <1>2. ASSUME NamedBy(token) # Null
        PROVE  NamedBy(token) \in Param /\ Belongs(NamedBy(token))
    <2> DEFINE S == {i \in DOMAIN Params[route] :
                        Lower[Params[route][i].name] = Lower[token.text]}
    <2>1. S # {} /\ NamedBy(token) = Params[route][CHOOSE i \in S : \A j \in S : i <= j]
      BY <1>2 DEF NamedBy
    <2>2. S \in SUBSET (DOMAIN Params[route])
      OBVIOUS
    <2> HIDE DEF S
    <2> QED
      BY <2>1, <2>2, FoundParameter
  <1> QED
    BY <1>1, <1>2

\* A token is taken from the head of the list, if there is one.
LEMMA TakeStep ==
  ASSUME ShapeInv, Take, input' = input
  PROVE  /\ tokens' \in Seq(Token) /\ Len(tokens') <= Len(input')
         /\ \A i \in 1..Len(tokens') : tokens'[i] = input'[Taken' + i]
         /\ Taken \in Nat /\ Taken <= Len(input)
         /\ tokens = <<>> => NextToken = Null /\ Taken' = Taken /\ Taken = Len(input)
         /\ tokens # <<>> =>
              /\ NextToken \in Token /\ NextToken # Null /\ Taken' = Taken + 1
              /\ Taken + 1 \in 1..Len(input) /\ input[Taken + 1] = NextToken
  <1>1. /\ input \in Seq(Token) /\ tokens \in Seq(Token) /\ Len(tokens) <= Len(input)
        /\ Len(tokens) \in Nat /\ Len(input) \in Nat
        /\ \A i \in 1..Len(tokens) : tokens[i] = input[Taken + i]
    BY DEF ShapeInv
  <1>2. CASE tokens = <<>>
    BY <1>1, <1>2 DEF Take, Taken, NextToken
  <1>3. CASE tokens # <<>>
    <2>1. /\ tokens' = Tail(tokens) /\ tokens' \in Seq(Token)
          /\ Len(tokens') = Len(tokens) - 1 /\ Len(tokens) >= 1
          /\ \A i \in 1..Len(tokens') : tokens'[i] = tokens[i + 1]
      BY <1>1, <1>3 DEF Take
    <2>2. NextToken = tokens[1] /\ NextToken \in Token
      BY <1>1, <1>3 DEF NextToken
    <2>3. Taken' = Taken + 1 /\ Taken \in Nat /\ Taken <= Len(input) - 1
      BY <1>1, <2>1 DEF Taken
    <2>4. \A i \in 1..Len(tokens') : tokens'[i] = input[Taken + (i + 1)]
      BY <1>1, <2>1
    <2>5. \A i \in 1..Len(tokens') : Taken + (i + 1) = Taken' + i
      BY <2>1, <2>3
    <2>6. input[Taken + 1] = tokens[1]
      BY <1>1, <2>1
    <2> QED
      BY <1>1, <1>3, <2>1, <2>2, <2>3, <2>4, <2>5, <2>6, NullAssumption
  <1> QED
    BY <1>2, <1>3

\* When nothing is taken the next token is the one at the place.
LEMMA NextTokenIs ==
  ASSUME ShapeInv
  PROVE  /\ Taken \in Nat /\ Taken <= Len(input)
         /\ tokens = <<>> <=> NextToken = Null
         /\ tokens = <<>> <=> Taken = Len(input)
         /\ tokens # <<>> => /\ NextToken = Head(tokens) /\ NextToken \in Token
                             /\ Taken + 1 \in 1..Len(input)
                             /\ input[Taken + 1] = NextToken
  <1>1. /\ input \in Seq(Token) /\ tokens \in Seq(Token) /\ Len(tokens) <= Len(input)
        /\ Len(tokens) \in Nat /\ Len(input) \in Nat
        /\ \A i \in 1..Len(tokens) : tokens[i] = input[Taken + i]
    BY DEF ShapeInv
  <1>2. CASE tokens = <<>>
    BY <1>1, <1>2 DEF Taken, NextToken
  <1>3. CASE tokens # <<>>
    <2>1. Len(tokens) >= 1 /\ NextToken = tokens[1] /\ NextToken = Head(tokens)
          /\ NextToken \in Token
      BY <1>1, <1>3 DEF NextToken
    <2> QED
      BY <1>1, <1>3, <2>1, NullAssumption DEF Taken
  <1> QED
    BY <1>2, <1>3

------------------------------------------------------------------------------
(* The command *)

\* There is a function that leads along more texts.
LEMMA LeadsFurther ==
  ASSUME path \in Seq(Text), IsNamed, NEW text \in Text, NEW child \in Route,
         child = Children[route][Lower[text]]
  PROVE  \E f \in [1..Len(Append(path, text)) -> Route] :
            Leads(f, Append(path, text)) /\ child = f[Len(Append(path, text))]
  <1>1. PICK f \in [1..Len(path) -> Route] : Leads(f, path) /\ route = f[Len(path)]
    BY DEF IsNamed
  <1>2. PICK k \in Nat \ {0} : k = Len(path)
    BY DEF IsNamed
  <1>3. PICK p : p = Append(path, text)
    OBVIOUS
  <1>4. Len(p) = k + 1 /\ p[k + 1] = text /\ \A n \in 1..k : p[n] = path[n]
    BY <1>2, <1>3
  <1> DEFINE g == [n \in 1..k + 1 |-> IF n = k + 1 THEN child ELSE f[n]]
  <1>5. g \in [1..k + 1 -> Route] /\ g[k + 1] = child /\ \A n \in 1..k : g[n] = f[n]
    BY <1>1, <1>2
  <1> HIDE DEF g
  <1>6. g[1] = Container[Lower[p[1]]]
    BY <1>1, <1>2, <1>4, <1>5 DEF Leads
  <1>7. ASSUME NEW n \in 2..k + 1
        PROVE  g[n] = Children[g[n - 1]][Lower[p[n]]]
    <2>1. CASE n = k + 1
      <3>1. k \in 1..k /\ n - 1 = k
        BY <1>2, <2>1
      <3>2. g[n - 1] = route
        BY <1>1, <1>2, <1>5, <3>1
      <3> QED
        BY <1>4, <1>5, <2>1, <3>2
    <2>2. CASE n # k + 1
      <3>1. n \in 2..k /\ n \in 1..k /\ n - 1 \in 1..k
        BY <1>2, <2>2
      <3>2. f[n] = Children[f[n - 1]][Lower[path[n]]]
        BY <1>1, <1>2, <3>1 DEF Leads
      <3> QED
        BY <1>4, <1>5, <3>1, <3>2
    <2> QED
      BY <2>1, <2>2
  <1> QED
    BY <1>3, <1>4, <1>5, <1>6, <1>7 DEF Leads

\* Two functions that lead along the same texts are the same.
LEMMA LeadsAgree ==
  ASSUME NEW p, Len(p) \in Nat, NEW f, NEW g, Leads(f, p), Leads(g, p),
         NEW n \in 1..Len(p)
  PROVE  f[n] = g[n]
  <1> DEFINE Differ == {m \in 1..Len(p) : f[m] # g[m]}
  <1>1. SUFFICES ASSUME Differ # {} PROVE FALSE
    OBVIOUS
  <1>2. Differ \in SUBSET Nat
    OBVIOUS
  <1>3. PICK m \in Differ : \A k \in Differ : m <= k
    <2> HIDE DEF Differ
    <2> QED
      BY <1>1, <1>2, LeastNumber
  <1>4. m # 1
    BY DEF Leads
  <1>5. m \in 2..Len(p) /\ m - 1 \in 1..Len(p) /\ m - 1 \notin Differ
    BY <1>3, <1>4
  <1>6. f[m - 1] = g[m - 1]
    BY <1>5
  <1> QED
    BY <1>5, <1>6 DEF Leads

\* The command at the end of the texts is the one that such a function leads to.
LEMMA CommandIsLed ==
  ASSUME NEW p \in Seq(Text), p # <<>>,
         NEW f \in [1..Len(p) -> Route], Leads(f, p)
  PROVE  CommandAt(p) = f[Len(p)]
  <1> DEFINE P(h) == h = [n \in 1..Len(p) |->
                            IF n = 1 THEN Container[Lower[p[1]]]
                            ELSE Children[h[n - 1]][Lower[p[n]]]]
             At == CHOOSE h : P(h)
  <1>1. Len(p) \in Nat \ {0}
    OBVIOUS
  <1>2. P(f)
    <2>1. ASSUME NEW n \in 1..Len(p)
          PROVE  f[n] = IF n = 1 THEN Container[Lower[p[1]]]
                        ELSE Children[f[n - 1]][Lower[p[n]]]
      <3>1. n # 1 => n \in 2..Len(p)
        BY <1>1
      <3> QED
        BY <3>1 DEF Leads
    <2> QED
      BY <2>1
  <1>3. P(At)
    <2> HIDE DEF P
    <2> QED
      BY <1>2
  <1>4. CommandAt(p) = At[Len(p)]
    BY DEF CommandAt
  <1> HIDE DEF At
  <1>5. Leads(At, p)
    <2>1. 1 \in 1..Len(p) /\ \A n \in 2..Len(p) : n \in 1..Len(p) /\ n # 1
      BY <1>1
    <2> QED
      BY <1>3, <2>1 DEF Leads
  <1>6. At[Len(p)] = f[Len(p)]
    BY <1>1, <1>5, LeadsAgree
  <1> QED
    BY <1>4, <1>6

------------------------------------------------------------------------------
(* Steps *)

\* A token is taken or the list left alone.
Reads == Take \/ UNCHANGED tokens

\* The list keeps its shape.
LEMMA ListKept ==
  ASSUME ShapeInv, Reads, input' = input
  PROVE  /\ input' \in Seq(Token) /\ tokens' \in Seq(Token) /\ Len(tokens') <= Len(input')
         /\ \A i \in 1..Len(tokens') : tokens'[i] = input'[Taken' + i]
         /\ Taken' \in Nat /\ Taken' <= Len(input) /\ Taken \in Nat
         /\ Taken' \in {Taken, Taken + 1}
         /\ UNCHANGED tokens => Taken' = Taken
  <1>1. UNCHANGED tokens => Taken' = Taken
    BY DEF Taken
  <1>2. CASE Take
    <2>1. /\ input' \in Seq(Token) /\ tokens' \in Seq(Token)
          /\ Len(tokens') <= Len(input')
          /\ \A i \in 1..Len(tokens') : tokens'[i] = input'[Taken' + i]
          /\ Taken \in Nat /\ Taken <= Len(input) /\ Len(input) \in Nat
      BY <1>2, TakeStep DEF ShapeInv
    <2>2. /\ tokens = <<>> => Taken' = Taken
          /\ tokens # <<>> => Taken' = Taken + 1 /\ Taken + 1 \in 1..Len(input)
      BY <1>2, TakeStep
    <2> QED
      BY <1>1, <2>1, <2>2
  <1>3. CASE UNCHANGED tokens
    BY <1>1, <1>3, NextTokenIs DEF ShapeInv
  <1> QED
    BY <1>2, <1>3 DEF Reads

\* A parameter that was switched on stays so when more is taken.
LEMMA FitsStill ==
  ASSUME ShapeInv, Reads, UNCHANGED <<input, route, path>>,
         NEW param, NEW value, Fits(param, value)
  PROVE  Fits(param, value)'
  <1>1. ASSUME SwitchedOn(param) PROVE SwitchedOn(param)'
    <2>1. Taken' \in {Taken, Taken + 1} /\ Taken \in Nat /\ Len(path) \in Nat
      BY ListKept DEF ShapeInv
    <2>2. PICK i \in TakenBehind :
             /\ input[i].kind = "Parameter" /\ NamedBy(input[i]) = param
             /\ i = Len(input) \/ input[i + 1].kind = "Parameter"
      BY <1>1 DEF SwitchedOn
    <2>3. i \in TakenBehind'
      BY <2>1, <2>2 DEF TakenBehind, Taken
    <2>4. NamedBy(input[i])' = NamedBy(input[i])
      BY DEF NamedBy
    <2> QED
      BY <2>2, <2>3, <2>4 DEF SwitchedOn
  <1> QED
    BY <1>1 DEF Fits

\* The arguments are none that are made up if they are the same, of the same command.
LEMMA ArgumentsStay ==
  ASSUME ShapeInv, NothingIsMadeUp, Reads, UNCHANGED <<input, route, path, args>>,
         \A i \in DOMAIN parsed : i \in DOMAIN parsed' /\ parsed'[i] = parsed[i]
  PROVE  NothingIsMadeUp'
  <1> SUFFICES ASSUME NEW n \in DOMAIN args'
               PROVE  \E i \in DOMAIN parsed' :
                         parsed'[i].name = n /\ Fits(parsed[i], args[n])'
    BY DEF NothingIsMadeUp
  <1>1. PICK i \in DOMAIN parsed : parsed[i].name = n /\ Fits(parsed[i], args[n])
    BY DEF NothingIsMadeUp
  <1>2. PICK param, value : param = parsed[i] /\ value = args[n]
    OBVIOUS
  <1>3. Fits(param, value)'
    BY <1>1, <1>2, FitsStill
  <1>4. Fits(parsed[i], args[n])'
    BY <1>1, <1>2, <1>3
  <1> QED
    BY <1>1, <1>4

\* There are none before there are parameters.
LEMMA NoArgumentsYet ==
  ASSUME NothingIsMadeUp, parsed = <<>>, UNCHANGED args
  PROVE  NothingIsMadeUp'
  BY DEF NothingIsMadeUp

\* A parse is refused.
LEMMA RejectStep ==
  ASSUME ParserInv, Reads, NEW with \in Exception, Reject(with),
         route # Null => Params[route] # <<>> \/ Len(input) > Len(path) + 1
  PROVE  ParserInv'
  <1>1. /\ pc' = "failed" /\ error' = with
        /\ UNCHANGED <<input, route, path, parsed, args, current>>
    BY DEF Reject
  <1>2. ShapeInv
    BY DEF ParserInv
  <1>3. ShapeInv'
    <2>1. /\ input' \in Seq(Token) /\ tokens' \in Seq(Token)
          /\ Len(tokens') <= Len(input')
          /\ \A i \in 1..Len(tokens') : tokens'[i] = input'[Taken' + i]
      BY <1>1, <1>2, ListKept
    <2>2. with # Null
      BY NullAssumption
    <2> QED
      BY <1>1, <1>2, <2>1, <2>2 DEF ShapeInv, Belongs
  <1>4. PlaceInv'
    BY <1>1 DEF PlaceInv, PastCommand
  <1>5. UsedInv'
    BY <1>1 DEF UsedInv
  <1>6. NothingIsMadeUp'
    BY <1>1, <1>2, ArgumentsStay DEF ParserInv, ArgumentsMatchTokens
  <1>7. ArgumentsMatchTokens'
    BY <1>1, <1>6 DEF ArgumentsMatchTokens, TakenTokensAreUsed, BareCommandsParse
  <1> QED
    BY <1>3, <1>4, <1>5, <1>7 DEF ParserInv

\* The prefix is taken.
LEMMA PrefixStep ==
  ASSUME ParserInv, GetPrefix
  PROVE  ParserInv'
  <1>0. /\ ShapeInv /\ PlaceInv /\ ArgumentsMatchTokens
        /\ pc = "prefix" /\ Take /\ Taken = 0 /\ route = Null /\ path = <<>>
    BY DEF ParserInv, GetPrefix, PlaceInv
  <1>1. CASE ~IsKind(NextToken, "Prefix")
    <2>1. Reject(ParsingException(NextToken, Null))
      BY <1>1 DEF GetPrefix
    <2>2. ParsingException(NextToken, Null) \in Exception
      BY <1>0, NextTokenIs DEF ParsingException, Exception
    <2> QED
      BY <1>0, <2>1, <2>2, RejectStep DEF Reads
  <1>2. CASE IsKind(NextToken, "Prefix")
    <2>1. pc' = "command"
          /\ UNCHANGED <<input, route, path, parsed, args, current, error>>
      BY <1>2 DEF GetPrefix
    <2>2. Taken' = 1
      <3>1. NextToken # Null
        BY <1>2 DEF IsKind
      <3> QED
        BY <1>0, <2>1, <3>1, TakeStep
    <2>3. ShapeInv'
      <3>1. /\ input' \in Seq(Token) /\ tokens' \in Seq(Token)
            /\ Len(tokens') <= Len(input')
            /\ \A i \in 1..Len(tokens') : tokens'[i] = input'[Taken' + i]
        BY <1>0, <2>1, TakeStep DEF ShapeInv
      <3> QED
        BY <1>0, <2>1, <3>1 DEF ShapeInv, Belongs
    <2>4. PlaceInv'
      BY <1>0, <2>1, <2>2 DEF PlaceInv, PastCommand
    <2>5. UsedInv' /\ ArgumentsMatchTokens'
      <3>1. NothingIsMadeUp'
        BY <1>0, <2>1, NoArgumentsYet DEF PlaceInv, ArgumentsMatchTokens
      <3> QED
        BY <1>0, <2>1, <3>1 DEF UsedInv, ArgumentsMatchTokens, TakenTokensAreUsed,
                                BareCommandsParse
    <2> QED
      BY <2>3, <2>4, <2>5 DEF ParserInv
  <1> QED
    BY <1>1, <1>2

\* The first text names a command.
LEMMA CommandStep ==
  ASSUME ParserInv, GetCommand
  PROVE  ParserInv'
  <1>0. /\ ShapeInv /\ PlaceInv /\ ArgumentsMatchTokens
        /\ pc = "command" /\ Take /\ Taken = 1 /\ route = Null /\ path = <<>>
        /\ parsed = <<>>
    BY DEF ParserInv, GetCommand, PlaceInv, ShapeInv
  <1>1. CASE NextToken = Null
    <2>1. Reject(ParsingException(Null, Null))
      BY <1>1, Zenon DEF GetCommand
    <2>2. ParsingException(Null, Null) \in Exception
      BY DEF ParsingException, Exception
    <2> QED
      BY <1>0, <2>1, <2>2, RejectStep DEF Reads
  <1>2. CASE NextToken # Null /\ (NextToken.kind # "Generic"
                                  \/ Lower[NextToken.text] \notin DOMAIN Container)
    <2>1. Reject(Error)
      BY <1>2, Zenon DEF GetCommand
    <2>2. Error \in Exception
      BY DEF Error, Exception
    <2> QED
      BY <1>0, <2>1, <2>2, RejectStep DEF Reads
  <1>3. CASE NextToken # Null /\ ~(NextToken.kind # "Generic"
                                   \/ Lower[NextToken.text] \notin DOMAIN Container)
    <2>1. /\ route' = Container[Lower[NextToken.text]] /\ path' = <<NextToken.text>>
          /\ pc' = "subCommand"
          /\ UNCHANGED <<input, parsed, args, current, error>>
      BY <1>3, Zenon DEF GetCommand
    <2>2. PICK token \in Token : token = NextToken /\ input[2] = token
      BY <1>0, <1>3, <2>1, TakeStep, NextTokenIs
    <2>3. token.text \in Text /\ token = [kind |-> "Generic", text |-> token.text]
      BY <1>3, <2>2 DEF Token
    <2>4. route' \in Route
      BY <1>3, <2>1, <2>2, ParserAssumption
    <2>5. Taken' = 2
      BY <1>0, <1>3, <2>1, TakeStep, NextTokenIs
    <2>6. ShapeInv'
      <3>1. /\ input' \in Seq(Token) /\ tokens' \in Seq(Token)
            /\ Len(tokens') <= Len(input')
            /\ \A i \in 1..Len(tokens') : tokens'[i] = input'[Taken' + i]
        BY <1>0, <2>1, TakeStep DEF ShapeInv
      <3>2. path' \in Seq(Text)
        BY <2>1, <2>2, <2>3
      <3> QED
        BY <1>0, <2>1, <2>4, <3>1, <3>2 DEF ShapeInv, Belongs
    <2>7. IsNamed'
      <3> DEFINE f == [n \in 1..1 |-> Container[Lower[token.text]]]
      <3>1. path' = <<token.text>> /\ Len(path') = 1 /\ DOMAIN path' = 1..1
        BY <2>1, <2>2
      <3>2. f \in [1..Len(path') -> Route] /\ Leads(f, path') /\ route' = f[Len(path')]
        BY <2>1, <2>2, <2>4, <3>1 DEF Leads
      <3> HIDE DEF f
      <3>3. \A n \in DOMAIN path' : input'[n + 1] = [kind |-> "Generic", text |-> path'[n]]
        BY <2>1, <2>2, <2>3, <3>1
      <3>4. path' # <<>>
        BY <3>1
      <3> QED
        BY <2>4, <3>2, <3>3, <3>4 DEF IsNamed
    <2>8. PlaceInv'
      <3>1. Taken' = Len(path') + 1
        BY <2>1, <2>5
      <3>2. parsed' = <<>> /\ pc' = "subCommand"
        BY <1>0, <2>1
      <3> QED
        BY <2>7, <3>1, <3>2 DEF PlaceInv, PastCommand
    <2>9. UsedInv' /\ ArgumentsMatchTokens'
      <3>1. NothingIsMadeUp'
        BY <1>0, <2>1, NoArgumentsYet DEF ArgumentsMatchTokens
      <3> QED
        BY <1>0, <2>1, <3>1 DEF UsedInv, ArgumentsMatchTokens, TakenTokensAreUsed,
                                BareCommandsParse
    <2> QED
      BY <2>6, <2>8, <2>9 DEF ParserInv
  <1> QED
    BY <1>1, <1>2, <1>3

\* The next text names a command below the one that was found, or none does.
LEMMA SubCommandStep ==
  ASSUME ParserInv, ResolveSubCommand
  PROVE  ParserInv'
  <1>0. /\ ShapeInv /\ PlaceInv /\ ArgumentsMatchTokens
        /\ pc = "subCommand" /\ IsNamed /\ Taken = Len(path) + 1
        /\ route \in Route /\ path \in Seq(Text) /\ Len(path) \in Nat
    BY DEF ParserInv, ResolveSubCommand, PlaceInv, ShapeInv, IsNamed
  <1>1. CASE ~NamesChild(route, NextToken)
    <2>1. pc' = "arguments"
          /\ UNCHANGED <<tokens, input, route, path, parsed, args, current, error>>
      BY <1>1 DEF ResolveSubCommand
    <2>2. Taken' = Taken
      BY <2>1 DEF Taken
    <2>3. ShapeInv'
      BY <1>0, <2>1, <2>2 DEF ShapeInv, Belongs
    <2>4. IsNamed' /\ Behind' = Behind
      BY <1>0, <2>1 DEF IsNamed, Behind
    <2>5. Behind = NextToken
      <3>1. Len(input) \in Nat
        BY <1>0 DEF ShapeInv
      <3>2. CASE tokens = <<>>
        BY <1>0, <3>1, <3>2, NextTokenIs DEF Behind
      <3>3. CASE tokens # <<>>
        <4>1. Taken + 1 = Len(path) + 2 /\ Taken + 1 \in 1..Len(input)
              /\ input[Taken + 1] = NextToken
          BY <1>0, <3>3, NextTokenIs
        <4> QED
          BY <1>0, <3>1, <4>1 DEF Behind
      <3> QED
        BY <3>2, <3>3
    <2>6. ~NamesChild(route, Behind)'
      BY <1>1, <2>1, <2>4, <2>5 DEF NamesChild
    <2>7. PlaceInv'
      BY <1>0, <2>1, <2>2, <2>4, <2>6 DEF PlaceInv, PastCommand
    <2>8. UsedInv' /\ ArgumentsMatchTokens'
      <3>1. parsed = <<>> /\ NothingIsMadeUp'
        BY <1>0, <2>1, NoArgumentsYet DEF PlaceInv, ArgumentsMatchTokens
      <3>2. TakenBehind' = {}
        BY <1>0, <2>1, <2>2 DEF TakenBehind, Taken
      <3> QED
        BY <1>0, <2>1, <3>1, <3>2 DEF UsedInv, ArgumentsMatchTokens, TakenTokensAreUsed,
                                      BareCommandsParse
    <2> QED
      BY <2>3, <2>7, <2>8 DEF ParserInv
  <1>2. CASE NamesChild(route, NextToken)
    <2>1. Take /\ Descend(Children[route][Lower[NextToken.text]], "subCommand")
          /\ input' = input
      BY <1>2 DEF ResolveSubCommand, Descend, Reject
    <2>2. NextToken # Null /\ NextToken.kind = "Generic"
          /\ Lower[NextToken.text] \in DOMAIN Children[route] /\ Children[route] # Null
      BY <1>2 DEF NamesChild, IsKind
    <2>3. /\ NextToken \in Token /\ Taken' = Taken + 1 /\ Taken + 1 \in 1..Len(input)
          /\ input[Taken + 1] = NextToken
      BY <1>0, <2>1, <2>2, TakeStep, NextTokenIs
    <2>4. PICK token \in Token : token = NextToken
      BY <2>3
    <2>5. token.text \in Text /\ token = [kind |-> "Generic", text |-> token.text]
      BY <2>2, <2>4 DEF Token
    <2>6. PICK child \in Route : child = Children[route][Lower[token.text]]
      BY <1>0, <2>2, <2>4, ParserAssumption
    <2>7. \/ Reject(Error)
          \/ /\ route' = child /\ path' = Append(path, token.text)
             /\ pc' = "subCommand" /\ UNCHANGED <<input, parsed, args, current, error>>
      BY <2>1, <2>4, <2>6 DEF Descend
    <2>8. CASE Reject(Error)
      <3>1. Error \in Exception
        BY DEF Error, Exception
      <3>2. Len(input) > Len(path) + 1
        BY <1>0, <2>3
      <3> QED
        BY <2>1, <2>8, <3>1, <3>2, RejectStep DEF Reads
    <2>9. CASE /\ route' = child /\ path' = Append(path, token.text)
               /\ pc' = "subCommand" /\ UNCHANGED <<input, parsed, args, current, error>>
      <3>1. /\ path' \in Seq(Text) /\ Len(path') = Len(path) + 1
            /\ DOMAIN path' = 1..Len(path) + 1 /\ path' # <<>>
            /\ path'[Len(path) + 1] = token.text
            /\ \A n \in 1..Len(path) : path'[n] = path[n]
        BY <1>0, <2>5, <2>9
      <3>2. parsed' = <<>>
        BY <1>0, <2>9 DEF PlaceInv
      <3>3. ShapeInv'
        <4>1. /\ input' \in Seq(Token) /\ tokens' \in Seq(Token)
              /\ Len(tokens') <= Len(input')
              /\ \A i \in 1..Len(tokens') : tokens'[i] = input'[Taken' + i]
          <5>1. ShapeInv /\ Take /\ input' = input
            BY <1>0, <2>1
          <5> QED
            BY <5>1, ListKept DEF Reads
        <4> QED
          BY <1>0, <2>9, <3>1, <3>2, <4>1 DEF ShapeInv, Belongs
      <3>4. IsNamed'
        <4>1. \E f \in [1..Len(path') -> Route] : Leads(f, path') /\ child = f[Len(path')]
          BY <1>0, <2>5, <2>6, <2>9, LeadsFurther DEF IsNamed
        <4>2. ASSUME NEW n \in 1..Len(path) + 1
              PROVE  input[n + 1] = [kind |-> "Generic", text |-> path'[n]]
          <5>1. CASE n = Len(path) + 1
            BY <1>0, <2>3, <2>4, <2>5, <3>1, <5>1
          <5>2. CASE n # Len(path) + 1
            <6>1. n \in 1..Len(path) /\ n \in DOMAIN path
              BY <1>0, <5>2
            <6> QED
              BY <1>0, <3>1, <6>1 DEF IsNamed
          <5> QED
            BY <5>1, <5>2
        <4> QED
          BY <2>9, <3>1, <4>1, <4>2 DEF IsNamed
      <3>5. PlaceInv'
        BY <1>0, <2>3, <2>9, <3>1, <3>2, <3>4 DEF PlaceInv, PastCommand
      <3>6. UsedInv' /\ ArgumentsMatchTokens'
        <4>1. NothingIsMadeUp'
          BY <1>0, <2>9, NoArgumentsYet DEF PlaceInv, ArgumentsMatchTokens
        <4> QED
          BY <1>0, <2>9, <4>1 DEF UsedInv, ArgumentsMatchTokens, TakenTokensAreUsed,
                                  BareCommandsParse
      <3> QED
        BY <3>3, <3>5, <3>6 DEF ParserInv
    <2> QED
      BY <2>7, <2>8, <2>9
  <1> QED
    BY <1>1, <1>2

------------------------------------------------------------------------------
(* The arguments *)

\* A parameter token is taken, or nothing.
TakesParameter ==
    \/ Take /\ IsKind(NextToken, "Parameter")
    \/ UNCHANGED tokens

\* As long as arguments are parsed nothing but parameters was taken behind the
\* command.
LEMMA ParametersTaken ==
  ASSUME ParserInv, pc \in {"arguments", "value", "hungry"}, TakesParameter,
         UNCHANGED <<input, path>>
  PROVE  /\ Reads /\ Len(path) \in Nat
         /\ Taken' \in Nat /\ Taken' >= Len(path) + 1
         /\ \A i \in Len(path) + 2..Taken' : input[i].kind = "Parameter"
  <1>0. ShapeInv /\ Taken \in Nat /\ Taken >= Len(path) + 1 /\ Len(path) \in Nat
        /\ \A i \in Len(path) + 2..Taken : input[i].kind = "Parameter"
    BY NextTokenIs DEF ParserInv, PlaceInv, PastCommand, ShapeInv
  <1>1. CASE Take /\ IsKind(NextToken, "Parameter")
    <2>1. tokens # <<>> /\ NextToken.kind = "Parameter"
      BY <1>1 DEF IsKind, NextToken
    <2>2. Taken' = Taken + 1 /\ input[Taken + 1].kind = "Parameter"
      <3>1. ShapeInv /\ Take /\ input' = input
        BY <1>0, <1>1
      <3>2. Taken' = Taken + 1 /\ input[Taken + 1] = NextToken
        BY <2>1, <3>1, TakeStep
      <3> QED
        BY <2>1, <3>2
    <2>3. \A i \in Len(path) + 2..Taken' : i \in Len(path) + 2..Taken \/ i = Taken + 1
      BY <1>0, <2>2
    <2> QED
      BY <1>0, <1>1, <2>2, <2>3 DEF Reads
  <1>2. CASE UNCHANGED tokens
    <2>1. Taken' = Taken
      BY <1>2 DEF Taken
    <2> QED
      BY <1>0, <1>2, <2>1 DEF Reads
  <1> QED
    BY <1>1, <1>2 DEF TakesParameter

\* A parameter that belongs to the command gets its argument, under the name of the
\* one that was pushed last.
LEMMA SetArgumentStep ==
  ASSUME ParserInv, pc = "arguments", TakesParameter,
         NEW pushed \in Seq(Param), \A i \in DOMAIN pushed : Belongs(pushed[i]),
         NEW value, SetArgument(pushed, value),
         parsed \o pushed # <<>>, NEW last, last = Last(parsed \o pushed),
         Fits(last, value)', tokens' # <<>> => Head(tokens').kind = "Parameter",
         UNCHANGED tokens \/ NamedBy(NextToken) = last
  PROVE  ParserInv'
  <1>0. /\ ShapeInv /\ PlaceInv /\ ArgumentsMatchTokens /\ parsed \in Seq(Param)
        /\ route \in Route /\ IsNamed /\ ~NamesChild(route, Behind)
        /\ error = Null
    BY DEF ParserInv, ShapeInv, PlaceInv, PastCommand, IsNamed
  <1>1. /\ parsed' = parsed \o pushed
        /\ args' = With(Last(parsed \o pushed).name, value)
        /\ pc' = "arguments" /\ current' = Null
        /\ UNCHANGED <<input, route, path, error>>
    BY DEF SetArgument
  <1>2. last \in Param /\ \E i \in DOMAIN parsed' : parsed'[i] = last
    <2>1. parsed' \in Seq(Param) /\ parsed' # <<>>
      BY <1>0, <1>1
    <2>2. Len(parsed') \in DOMAIN parsed' /\ parsed'[Len(parsed')] \in Param
      BY <2>1
    <2> QED
      BY <1>1, <2>2 DEF Last
  <1>3. /\ parsed' \in Seq(Param)
        /\ \A i \in DOMAIN parsed' :
              \/ i \in DOMAIN parsed /\ parsed'[i] = parsed[i]
              \/ \E j \in DOMAIN pushed : parsed'[i] = pushed[j]
        /\ \A i \in DOMAIN parsed : i \in DOMAIN parsed' /\ parsed'[i] = parsed[i]
    BY <1>0, <1>1
  <1>4. ShapeInv'
    <2>1. /\ input' \in Seq(Token) /\ tokens' \in Seq(Token)
          /\ Len(tokens') <= Len(input')
          /\ \A i \in 1..Len(tokens') : tokens'[i] = input'[Taken' + i]
      BY <1>0, <1>1, ParametersTaken, ListKept
    <2>2. \A i \in DOMAIN parsed' : Belongs(parsed[i])'
      <3>1. \A i \in DOMAIN parsed : Belongs(parsed[i])
        BY <1>0 DEF ShapeInv
      <3>2. \A param : Belongs(param)' <=> Belongs(param)
        BY <1>1 DEF Belongs
      <3>3. \A i \in DOMAIN parsed' : Belongs(parsed'[i])
        BY <1>3, <3>1
      <3> QED
        BY <1>1, <3>3 DEF Belongs
    <2>3. route # Null
      BY <1>0, NullAssumption
    <2> QED
      BY <1>0, <1>1, <1>3, <2>1, <2>2, <2>3 DEF ShapeInv
  <1>5. PlaceInv'
    <2>1. IsNamed' /\ ~NamesChild(route, Behind)'
      BY <1>0, <1>1 DEF IsNamed, NamesChild, Behind
    <2>2. /\ Taken' >= Len(path) + 1
          /\ \A i \in Len(path) + 2..Taken' : input[i].kind = "Parameter"
      BY <1>1, ParametersTaken
    <2> QED
      BY <1>1, <2>1, <2>2 DEF PlaceInv, PastCommand
  <1>6. args' = [m \in DOMAIN args \union {last.name} |->
                    IF m = last.name THEN value ELSE args[m]]
    BY <1>1, <1>2 DEF With
  <1>7. NothingIsMadeUp'
    <2> SUFFICES ASSUME NEW n \in DOMAIN args'
                 PROVE  \E i \in DOMAIN parsed' :
                           parsed'[i].name = n /\ Fits(parsed[i], args[n])'
      BY DEF NothingIsMadeUp
    <2>1. CASE n = last.name
      <3>1. PICK i \in DOMAIN parsed' : parsed'[i] = last
        BY <1>2
      <3>2. args'[n] = value /\ Fits(last, value)'
        BY <1>2, <1>6, <2>1
      <3>3. Fits(parsed[i], args[n])'
        BY <3>1, <3>2
      <3> QED
        BY <2>1, <3>1, <3>3
    <2>2. CASE n # last.name
      <3>1. n \in DOMAIN args /\ args'[n] = args[n]
        BY <1>6, <2>2
      <3>2. PICK i \in DOMAIN parsed : parsed[i].name = n /\ Fits(parsed[i], args[n])
        BY <1>0, <3>1 DEF ArgumentsMatchTokens, NothingIsMadeUp
      <3>3. PICK param, was : param = parsed[i] /\ was = args[n]
        OBVIOUS
      <3>4. Fits(param, was)'
        BY <1>0, <1>1, <3>2, <3>3, ParametersTaken, FitsStill
      <3>5. Fits(parsed[i], args[n])'
        BY <1>3, <3>1, <3>3, <3>4
      <3> QED
        BY <1>3, <3>2, <3>5
    <2> QED
      BY <2>1, <2>2
  <1>8. UsedInv'
    <2>1. /\ \A i \in TakenBehind : /\ input[i].kind = "Parameter"
                                   /\ NamedBy(input[i]) # Null
                                   /\ NamedBy(input[i]).name \in DOMAIN args
          /\ TakenBehind = Len(path) + 2..Taken /\ TakenBehind' = Len(path) + 2..Taken'
          /\ Taken \in Nat
      BY <1>0, <1>1, NextTokenIs DEF ParserInv, UsedInv, TakenBehind, Taken
    <2>2. \A token : NamedBy(token)' = NamedBy(token)
      BY <1>1 DEF NamedBy
    <2>3. ASSUME NEW i \in TakenBehind'
          PROVE  /\ input[i].kind = "Parameter" /\ NamedBy(input[i]) # Null
                 /\ NamedBy(input[i]).name \in DOMAIN args'
      <3>1. CASE i \in TakenBehind
        BY <1>6, <2>1, <3>1
      <3>2. CASE i \notin TakenBehind
        <4>1. Taken' \in {Taken, Taken + 1} /\ (UNCHANGED tokens => Taken' = Taken)
          BY <1>0, <1>1, ParametersTaken, ListKept
        <4>2. Taken' # Taken /\ i = Taken + 1
          BY <2>1, <3>2, <4>1
        <4>3. ~UNCHANGED tokens
          BY <4>1, <4>2
        <4>4. Take /\ tokens # <<>> /\ IsKind(NextToken, "Parameter")
          BY <4>3 DEF TakesParameter, Take
        <4>5. input[i] = NextToken
          BY <1>0, <4>2, <4>4, NextTokenIs
        <4>6. NamedBy(input[i]) = last
          BY <1>2, <4>3, <4>5
        <4>7. last # Null
          BY <1>2, NullAssumption
        <4> QED
          BY <1>6, <4>4, <4>5, <4>6, <4>7 DEF IsKind
      <3> QED
        BY <3>1, <3>2
    <2> QED
      BY <1>1, <2>2, <2>3 DEF UsedInv
  <1>9. ArgumentsMatchTokens'
    BY <1>1, <1>7 DEF ArgumentsMatchTokens, TakenTokensAreUsed, BareCommandsParse
  <1> QED
    BY <1>4, <1>5, <1>8, <1>9 DEF ParserInv

\* A parameter without a value gets none, or its default, or the parse is refused.
LEMMA ParseEmptyStep ==
  ASSUME ParserInv, pc = "arguments", TakesParameter,
         UNCHANGED input, route \in Route => Params[route] # <<>>,
         NEW param, param # Null => param \in Param /\ Belongs(param),
         NEW pushed \in {<<>>, <<param>>},
         ParseEmptyNextToken(param, pushed),
         tokens' # <<>> => Head(tokens').kind = "Parameter",
         UNCHANGED tokens \/ NamedBy(NextToken) = param
  PROVE  ParserInv'
  <1>0. route \in Route /\ parsed \in Seq(Param)
    BY DEF ParserInv, ShapeInv, PlaceInv, PastCommand, IsNamed
  <1>r. Reads
    BY DEF TakesParameter, Reads
  <1>1. CASE param = Null
    <2>1. Reject(TypeError) /\ TypeError \in Exception
      BY <1>1 DEF ParseEmptyNextToken, TypeError, Exception
    <2> QED
      BY <1>0, <1>r, <2>1, RejectStep
  <1>2. CASE param # Null
    <2>1. PICK pushing : pushing = Append(pushed, param)
      OBVIOUS
    <2>2. /\ pushing \in Seq(Param) /\ \A i \in DOMAIN pushing : Belongs(pushing[i])
          /\ parsed \o pushing # <<>> /\ Last(parsed \o pushing) = param
      <3>1. CASE pushed = <<>>
        <4>1. pushing = <<param>>
          BY <2>1, <3>1
        <4>2. parsed \o pushing = Append(parsed, param)
          BY <1>0, <1>2, <4>1
        <4> QED
          BY <1>0, <1>2, <4>1, <4>2 DEF Last
      <3>2. CASE pushed = <<param>>
        <4>1. /\ pushing \in Seq(Param) /\ Len(pushing) = 2
              /\ pushing[1] = param /\ pushing[2] = param
          BY <1>2, <2>1, <3>2
        <4>2. \A i \in DOMAIN pushing : pushing[i] = param
          BY <4>1
        <4>3. pushing # <<>>
          BY <4>1
        <4>4. parsed \o pushing # <<>> /\ Last(parsed \o pushing) = pushing[Len(pushing)]
          BY <1>0, <4>1, <4>3, LastOfConcat
        <4> QED
          BY <1>2, <4>1, <4>2, <4>4
      <3> QED
        BY <3>1, <3>2
    <2>3. param.default \in {Null, "default"} /\ Null \notin {"default", "true"}
      BY <1>2, NullAssumption DEF Param
    <2>4. CASE param.optional
      <3>1. SetArgument(pushing, Null) /\ Fits(param, Null)'
        BY <1>2, <2>1, <2>3, <2>4 DEF ParseEmptyNextToken, Fits
      <3> QED
        BY <2>2, <3>1, SetArgumentStep
    <2>5. CASE ~param.optional /\ param.default # Null
      <3>1. SetArgument(pushing, param.default) /\ Fits(param, param.default)'
        BY <1>2, <2>1, <2>3, <2>5 DEF ParseEmptyNextToken, Fits
      <3> QED
        BY <2>2, <3>1, SetArgumentStep
    <2>6. CASE ~param.optional /\ param.default = Null
      <3>1. Reject(ParsingException(Null, param))
        BY <1>2, <2>6 DEF ParseEmptyNextToken
      <3>2. ParsingException(Null, param) \in Exception
        BY <1>2 DEF ParsingException, Exception
      <3> QED
        BY <1>0, <1>r, <3>1, <3>2, RejectStep
    <2> QED
      BY <2>4, <2>5, <2>6
  <1> QED
    BY <1>1, <1>2

\* What is known where a parameter is next.
LEMMA AtNextParameterIs ==
  ASSUME ParserInv, AtNextParameter
  PROVE  /\ ShapeInv /\ route \in Route /\ Params[route] # <<>> /\ pc = "arguments"
         /\ Params[route] \in Seq(Param) /\ parsed \in Seq(Param)
  <1>1. /\ ShapeInv /\ route \in Route /\ pc = "arguments" /\ parsed \in Seq(Param)
    BY DEF ParserInv, ShapeInv, AtNextParameter, PlaceInv, PastCommand, IsNamed
  <1>2. Params[route] \in Seq(Param)
    BY <1>1, ParserAssumption
  <1> QED
    BY <1>1, <1>2 DEF AtNextParameter, AllParsed

\* The tokens are at an end.
LEMMA MissingStep ==
  ASSUME ParserInv, NextIsMissing
  PROVE  ParserInv'
  <1>0. /\ AtNextParameter /\ ParseEmptyNextToken(NextParameter, <<>>) /\ UNCHANGED tokens
    BY DEF NextIsMissing
  <1>1. /\ ShapeInv /\ route \in Route /\ Params[route] # <<>> /\ pc = "arguments"
    BY <1>0, AtNextParameterIs
  <1>2. NextParameter # Null => NextParameter \in Param /\ Belongs(NextParameter)
    BY <1>1, ParametersFound
  <1>3. TakesParameter /\ input' = input /\ tokens' = <<>>
    BY <1>0 DEF NextIsMissing, TakesParameter, ParseEmptyNextToken, SetArgument, Reject
  <1>4. PICK param : param = NextParameter
    OBVIOUS
  <1>5. /\ param # Null => param \in Param /\ Belongs(param)
        /\ <<>> \in {<<>>, <<param>>} /\ ParseEmptyNextToken(param, <<>>)
    BY <1>0, <1>2, <1>4
  <1> QED
    BY <1>0, <1>1, <1>3, <1>5, ParseEmptyStep

\* The value of the parameter param is awaited.
LEMMA AwaitStep ==
  ASSUME ParserInv, pc = "arguments", TakesParameter, tokens' # <<>>,
         Head(tokens').kind # "Parameter",
         NEW where \in {"value", "hungry"}, NEW param \in Param, Belongs(param),
         Await(where, param)
  PROVE  ParserInv'
  <1>0. /\ ShapeInv /\ PlaceInv /\ ArgumentsMatchTokens /\ parsed \in Seq(Param)
        /\ route \in Route /\ IsNamed /\ ~NamesChild(route, Behind)
        /\ error = Null
    BY DEF ParserInv, ShapeInv, PlaceInv, PastCommand, IsNamed
  <1>1. /\ pc' = where /\ current' = [param |-> param, values |-> <<>>]
        /\ parsed' = Append(parsed, param)
        /\ UNCHANGED <<input, route, path, args, error>>
    BY DEF Await
  <1>2. /\ parsed' \in Seq(Param) /\ parsed' # <<>>
        /\ \A i \in DOMAIN parsed' :
              \/ i \in DOMAIN parsed /\ parsed'[i] = parsed[i]
              \/ parsed'[i] = param
        /\ \A i \in DOMAIN parsed : i \in DOMAIN parsed' /\ parsed'[i] = parsed[i]
    BY <1>0, <1>1
  <1>3. ShapeInv'
    <2>1. /\ input' \in Seq(Token) /\ tokens' \in Seq(Token)
          /\ Len(tokens') <= Len(input')
          /\ \A i \in 1..Len(tokens') : tokens'[i] = input'[Taken' + i]
      BY <1>0, <1>1, ParametersTaken, ListKept
    <2>2. \A i \in DOMAIN parsed' : Belongs(parsed[i])'
      <3>1. \A i \in DOMAIN parsed : Belongs(parsed[i])
        BY <1>0 DEF ShapeInv
      <3>2. \A i \in DOMAIN parsed' : Belongs(parsed'[i])
        BY <1>2, <3>1
      <3> QED
        BY <1>1, <3>2 DEF Belongs
    <2>3. current' \in Awaited /\ current' # Null
      <3>1. <<>> \in Seq(Text)
        OBVIOUS
      <3>2. current' \in Awaited
        BY <1>1, <3>1 DEF Awaited
      <3> QED
        BY <3>2, NullAssumption
    <2>4. route # Null
      BY <1>0, NullAssumption
    <2> QED
      BY <1>0, <1>1, <1>2, <2>1, <2>2, <2>3, <2>4 DEF ShapeInv
  <1>4. PlaceInv'
    <2>1. IsNamed' /\ ~NamesChild(route, Behind)'
      BY <1>0, <1>1 DEF IsNamed, NamesChild, Behind
    <2>2. /\ Taken' >= Len(path) + 1
          /\ \A i \in Len(path) + 2..Taken' : input[i].kind = "Parameter"
      BY <1>1, ParametersTaken
    <2> QED
      BY <1>1, <1>2, <2>1, <2>2 DEF PlaceInv, PastCommand
  <1>5. NothingIsMadeUp'
    BY <1>0, <1>1, <1>2, ParametersTaken, ArgumentsStay DEF ArgumentsMatchTokens
  <1>6. UsedInv' /\ ArgumentsMatchTokens'
    BY <1>1, <1>5 DEF UsedInv, ArgumentsMatchTokens, TakenTokensAreUsed, BareCommandsParse
  <1> QED
    BY <1>3, <1>4, <1>6 DEF ParserInv

\* A parameter token is next.
LEMMA ParameterStep ==
  ASSUME ParserInv, NextIsParameter
  PROVE  ParserInv'
  <1>0. /\ AtNextParameter /\ IsKind(NextToken, "Parameter") /\ Take
        /\ NextToken # Null /\ tokens # <<>>
    BY DEF NextIsParameter, IsKind, NextToken
  <1>1. /\ ShapeInv /\ route \in Route /\ Params[route] # <<>> /\ pc = "arguments"
        /\ parsed \in Seq(Param) /\ tokens \in Seq(Token) /\ NextToken \in Token
    BY <1>0, AtNextParameterIs, NextTokenIs DEF ShapeInv
  <1>2. TakesParameter /\ Reads
    BY <1>0 DEF TakesParameter, Reads
  <1>3. PICK param : param = NamedBy(NextToken)
    OBVIOUS
  <1>4. param # Null => param \in Param /\ Belongs(param)
    BY <1>1, <1>3, ParametersFound
  <1>5. PICK value : value = IF Len(tokens) < 2 THEN Null ELSE tokens[2]
    OBVIOUS
  <1>6. /\ value # Null => /\ value \in Token /\ tokens' # <<>>
                           /\ Head(tokens') = value
        /\ value = Null \/ value \in Token
        /\ value = Null => tokens' = <<>>
    <2>1. CASE Len(tokens) < 2
      <3>1. Tail(tokens) = <<>>
        BY <1>0, <1>1, <2>1
      <3> QED
        BY <1>0, <1>5, <2>1, <3>1 DEF Take
    <2>2. CASE ~(Len(tokens) < 2)
      <3>1. tokens' = Tail(tokens) /\ Len(tokens) \in Nat /\ Len(tokens) >= 2
        BY <1>0, <1>1, <2>2 DEF Take
      <3>2. tokens' # <<>> /\ Head(tokens') = tokens[2] /\ tokens[2] \in Token
        BY <1>1, <3>1, SecondIsNext
      <3> QED
        BY <1>5, <2>2, <3>2, NullAssumption
    <2> QED
      BY <2>1, <2>2
  <1> DEFINE noValue == value = Null \/ IsKind(value, "Parameter")
  <1>7. IF param = Null THEN Reject(ParsingException(NextToken, Null))
        ELSE IF param.type = "Boolean" /\ noValue THEN Switch(param)
        ELSE IF param.type = "Boolean" /\ value.kind = "Number" THEN Reject(TypeError)
        ELSE IF param.type = "Boolean" THEN Reject(ParsingException(NextToken, param))
        ELSE IF noValue THEN ParseEmptyNextToken(param, <<param>>)
        ELSE Await(IF param.hungry THEN "hungry" ELSE "value", param)
    BY <1>3, <1>5, Zenon DEF NextIsParameter
  <1>n. noValue => (tokens' # <<>> => Head(tokens').kind = "Parameter")
    BY <1>6 DEF IsKind
  <1>8. ASSUME NEW with \in Exception, Reject(with) PROVE ParserInv'
    BY <1>1, <1>2, <1>8, RejectStep
  <1>9. CASE \/ param = Null
             \/ param.type = "Boolean" /\ ~noValue
    <2>1. \/ Reject(ParsingException(NextToken, Null))
          \/ param # Null /\ Reject(ParsingException(NextToken, param))
          \/ Reject(TypeError)
      BY <1>7, <1>9
    <2>2. /\ ParsingException(NextToken, Null) \in Exception
          /\ param # Null => ParsingException(NextToken, param) \in Exception
          /\ TypeError \in Exception
      BY <1>1, <1>4 DEF ParsingException, TypeError, Exception
    <2> QED
      BY <1>8, <2>1, <2>2
  <1>10. CASE param # Null /\ param.type = "Boolean" /\ noValue
    <2>1. SetArgument(<<param, param>>, "true")
      BY <1>7, <1>10 DEF Switch
    <2>2. PICK pushed : pushed = <<param, param>>
      OBVIOUS
    <2>3. /\ pushed \in Seq(Param) /\ Len(pushed) = 2
          /\ pushed[1] = param /\ pushed[2] = param
      BY <1>4, <1>10, <2>2
    <2>4. \A i \in DOMAIN pushed : pushed[i] = param
      BY <2>3
    <2>5. parsed \o pushed # <<>> /\ Last(parsed \o pushed) = param
      <3>1. pushed # <<>>
        BY <2>3
      <3>2. parsed \o pushed # <<>> /\ Last(parsed \o pushed) = pushed[Len(pushed)]
        BY <1>1, <2>3, <3>1, LastOfConcat
      <3> QED
        BY <2>3, <3>2
    <2>6. Fits(param, "true")'
      <3>1. SwitchedOn(param)'
        <4>1. UNCHANGED <<input, route, path>>
          BY <2>1 DEF SetArgument
        <4>2. /\ Taken' = Taken + 1 /\ Taken + 1 \in 1..Len(input)
              /\ input[Taken + 1] = NextToken /\ Taken \in Nat
              /\ Taken' <= Len(input) /\ Taken' = Len(input) <=> tokens' = <<>>
              /\ tokens' # <<>> => input[Taken' + 1] = Head(tokens')
          <5>1. ShapeInv /\ Take /\ input' = input
            BY <1>0, <1>1, <4>1
          <5>2. /\ Taken' = Taken + 1 /\ Taken + 1 \in 1..Len(input)
                /\ input[Taken + 1] = NextToken /\ Taken \in Nat
                /\ \A i \in 1..Len(tokens') : tokens'[i] = input[Taken' + i]
                /\ tokens' \in Seq(Token) /\ Len(tokens') <= Len(input)
            BY <1>0, <5>1, TakeStep
          <5>3. Len(input) \in Nat /\ Taken' = Len(input) - Len(tokens')
            BY <1>1, <4>1 DEF ShapeInv, Taken
          <5>4. tokens' # <<>> => Len(tokens') >= 1 /\ Head(tokens') = tokens'[1]
            BY <5>2
          <5> QED
            BY <5>2, <5>3, <5>4
        <4>3. Taken + 1 \in TakenBehind'
          <5>1. Taken >= Len(path) + 1 /\ Len(path) \in Nat
            BY <1>1 DEF ParserInv, PlaceInv, PastCommand, ShapeInv
          <5> QED
            BY <4>1, <4>2, <5>1 DEF TakenBehind, Taken
        <4>4. \A token : NamedBy(token)' = NamedBy(token)
          BY <4>1 DEF NamedBy
        <4>5. input[Taken + 1].kind = "Parameter"
          BY <1>0, <4>2 DEF IsKind
        <4>6. Taken + 1 = Len(input) \/ input[Taken + 1 + 1].kind = "Parameter"
          BY <1>6, <1>10, <4>2 DEF IsKind
        <4>7. PICK i \in TakenBehind' : i = Taken + 1
          BY <4>3
        <4>8. NamedBy(input[i])' = param
          <5>1. NamedBy(input[i])' = NamedBy(input[i])
            BY <4>1, <4>4
          <5> QED
            BY <1>3, <4>2, <4>7, <5>1
        <4> QED
          BY <4>1, <4>5, <4>6, <4>7, <4>8 DEF SwitchedOn
      <3> QED
        BY <1>10, <3>1, NullAssumption DEF Fits
    <2>7. \A i \in DOMAIN pushed : Belongs(pushed[i])
      BY <1>4, <1>10, <2>4
    <2>8. tokens' # <<>> => Head(tokens').kind = "Parameter"
      BY <1>n, <1>10
    <2>9. SetArgument(pushed, "true") /\ param = Last(parsed \o pushed)
      BY <2>1, <2>2, <2>5
    <2>10. UNCHANGED tokens \/ NamedBy(NextToken) = param
      BY <1>3
    <2> QED
      BY <1>1, <1>2, <2>3, <2>5, <2>6, <2>7, <2>8, <2>9, <2>10, SetArgumentStep
  <1>11. CASE param # Null /\ param.type # "Boolean" /\ noValue
    <2>1. ParseEmptyNextToken(param, <<param>>)
      BY <1>7, <1>11
    <2>2. input' = input
      BY <2>1 DEF ParseEmptyNextToken, SetArgument, Reject
    <2>3. tokens' # <<>> => Head(tokens').kind = "Parameter"
      BY <1>n, <1>11
    <2>4. UNCHANGED tokens \/ NamedBy(NextToken) = param
      BY <1>3
    <2>5. PICK pushed \in {<<>>, <<param>>} : ParseEmptyNextToken(param, pushed)
      BY <2>1
    <2>6. param \in Param /\ Belongs(param)
      BY <1>4, <1>11
    <2> QED
      BY <1>1, <1>2, <2>2, <2>3, <2>4, <2>5, <2>6, ParseEmptyStep
  <1>12. CASE param # Null /\ param.type # "Boolean" /\ ~noValue
    <2>1. PICK where \in {"value", "hungry"} : Await(where, param)
      BY <1>7, <1>12
    <2>2. tokens' # <<>> /\ Head(tokens').kind # "Parameter"
      BY <1>6, <1>12 DEF IsKind
    <2> QED
      BY <1>1, <1>2, <1>4, <1>12, <2>1, <2>2, AwaitStep
  <1> QED
    BY <1>9, <1>10, <1>11, <1>12

\* The parse of a value is refused: no kind of token passes.
LEMMA ParseRefuses ==
  ASSUME NEW param \in Param, NEW token \in Token, NEW fault, NEW failed, NEW value,
         Parse(param, token, fault, failed, value)
  PROVE  \E with \in Exception : Reject(with)
  <1>1. token.kind \in Kind
    BY DEF Token
  <1>2. ~IsFlagSet(token.kind, Accepted[param.type])
    BY <1>1, NoFlagIsSet
  <1>3. {Error, TypeError, ParsingException(token, param)} \subseteq Exception
    BY DEF Error, TypeError, ParsingException, Exception
  <1> QED
    BY <1>2, <1>3 DEF Parse

\* Another token is next.
LEMMA TextStep ==
  ASSUME ParserInv, NEW fault, NextIsText(fault)
  PROVE  ParserInv'
  <1>0. AtNextParameter /\ NextToken # Null /\ Take
    BY DEF NextIsText
  <1>1. /\ ShapeInv /\ route \in Route /\ Params[route] # <<>> /\ pc = "arguments"
        /\ NextToken \in Token
    BY <1>0, AtNextParameterIs, NextTokenIs
  <1>2. \E with \in Exception : Reject(with)
    <2>1. CASE NextParameter = Null
      <3>1. Reject(TypeError) /\ TypeError \in Exception
        BY <2>1 DEF NextIsText, TypeError, Exception
      <3> QED
        BY <3>1
    <2>2. CASE NextParameter # Null
      <3>1. NextParameter \in Param
        BY <1>1, <2>2, ParametersFound
      <3> QED
        BY <1>1, <2>2, <3>1, ParseRefuses DEF NextIsText
    <2> QED
      BY <2>1, <2>2
  <1> QED
    BY <1>0, <1>1, <1>2, RejectStep DEF Reads

\* What is known where a value is awaited.
LEMMA AwaitedIs ==
  ASSUME ParserInv, pc \in {"value", "hungry"}
  PROVE  /\ ShapeInv /\ route \in Route /\ Params[route] # <<>>
         /\ current.param \in Param
         /\ NextToken \in Token /\ NextToken # Null /\ ~IsKind(NextToken, "Parameter")
  <1>1. /\ ShapeInv /\ route \in Route /\ current \in Awaited
        /\ tokens # <<>> /\ Head(tokens).kind # "Parameter" /\ parsed # <<>>
        /\ parsed \in Seq(Param)
    BY DEF ParserInv, ShapeInv, PlaceInv, PastCommand, IsNamed
  <1>2. current.param \in Param
    BY <1>1 DEF Awaited
  <1>3. NextToken \in Token /\ NextToken = Head(tokens) /\ NextToken # Null
    BY <1>1, NextTokenIs
  <1>4. Params[route] # <<>>
    <2>1. 1 \in DOMAIN parsed
      BY <1>1
    <2>2. Belongs(parsed[1])
      BY <1>1, <2>1 DEF ShapeInv
    <2> QED
      BY <2>2 DEF Belongs
  <1> QED
    BY <1>1, <1>2, <1>3, <1>4 DEF IsKind

\* The value comes, or the values.
LEMMA ValueStep ==
  ASSUME ParserInv, NEW fault, ParseValue(fault) \/ ParseHungry(fault)
  PROVE  ParserInv'
  <1>1. pc \in {"value", "hungry"}
    BY DEF ParseValue, ParseHungry
  <1>2. /\ ShapeInv /\ route \in Route /\ Params[route] # <<>>
        /\ current.param \in Param
        /\ NextToken \in Token /\ NextToken # Null /\ ~IsKind(NextToken, "Parameter")
    BY <1>1, AwaitedIs
  <1>3. Reads /\ \E with \in Exception : Reject(with)
    <2>1. CASE ParseValue(fault)
      <3>1. Reads
        BY <2>1 DEF ParseValue, Reads
      <3> QED
        BY <1>2, <2>1, <3>1, ParseRefuses DEF ParseValue
    <2>2. CASE ParseHungry(fault)
      <3>1. Reads
        BY <1>2, <2>2 DEF ParseHungry, Reads
      <3> QED
        BY <1>2, <2>2, <3>1, ParseRefuses DEF ParseHungry
    <2> QED
      BY <2>1, <2>2
  <1> QED
    BY <1>2, <1>3, RejectStep

\* The tokens behind the command that were taken.
LEMMA BehindTaken ==
  ASSUME input \in Seq(Token), NEW from \in Nat \ {0}, NEW to \in Nat,
         from <= to + 1, to <= Len(input)
  PROVE  /\ Len(SubSeq(input, from, to)) = to - from + 1
         /\ DOMAIN SubSeq(input, from, to) = 1..to - from + 1
         /\ \A i \in 1..to - from + 1 : SubSeq(input, from, to)[i] = input[from + i - 1]
  <1>1. \A i \in from..to : input[i] \in Token
    <2>1. \A i \in from..to : i \in 1..Len(input)
      OBVIOUS
    <2> QED
      BY <2>1
  <1>2. from \in Int /\ to \in Int
    OBVIOUS
  <1> DEFINE sub == SubSeq(input, from, to)
  <1>3. /\ sub \in Seq(Token)
        /\ Len(sub) = IF from <= to THEN to - from + 1 ELSE 0
        /\ \A i \in 1..to - from + 1 : sub[i] = input[from + i - 1]
    BY <1>1, <1>2, SubSeqProperties
  <1> HIDE DEF sub
  <1>4. Len(sub) = to - from + 1
    BY <1>3
  <1> QED
    BY <1>3, <1>4 DEF sub

\* A parse that is done has dropped the last token it took, at most.
LEMMA FinishStep ==
  ASSUME ParserInv, pc = "arguments", AllParsed, Finish,
         \/ UNCHANGED tokens
         \/ Take /\ tokens # <<>> /\ parsed # <<>> /\ Last(parsed).type = "String"
  PROVE  ParserInv'
  <1>0. /\ ShapeInv /\ PlaceInv /\ ArgumentsMatchTokens /\ error = Null /\ current = Null
        /\ IsNamed /\ ~NamesChild(route, Behind) /\ Len(path) \in Nat
        /\ Taken \in Nat /\ Taken >= Len(path) + 1 /\ input \in Seq(Token)
        /\ \A i \in Len(path) + 2..Taken : input[i].kind = "Parameter"
    BY NextTokenIs DEF ParserInv, ShapeInv, PlaceInv, PastCommand
  <1>1. pc' = "done" /\ UNCHANGED <<input, route, path, parsed, args, current, error>>
    BY DEF Finish
  <1>2. Reads
    BY DEF Reads
  <1>3. /\ input' \in Seq(Token) /\ tokens' \in Seq(Token) /\ Len(tokens') <= Len(input')
        /\ \A i \in 1..Len(tokens') : tokens'[i] = input'[Taken' + i]
        /\ Taken' \in Nat /\ Taken' <= Len(input) /\ Taken' \in {Taken, Taken + 1}
        /\ UNCHANGED tokens => Taken' = Taken
    BY <1>0, <1>1, <1>2, ListKept
  <1>4. ShapeInv'
    BY <1>0, <1>1, <1>3 DEF ShapeInv, Belongs
  <1>5. PlaceInv'
    <2>1. IsNamed' /\ ~NamesChild(route, Behind)'
      BY <1>0, <1>1 DEF IsNamed, NamesChild, Behind
    <2>2. Taken' >= Len(path) + 1
      BY <1>0, <1>3
    <2> QED
      BY <1>1, <2>1, <2>2 DEF PlaceInv, PastCommand
  <1>6. TakenTokensAreUsed'
    <2> SUFFICES ASSUME NEW i \in TakenBehind'
                 PROVE  BecomesArgument(input[i])' \/ IsDroppedOverflow(i)'
      BY DEF TakenTokensAreUsed
    <2>1. /\ TakenBehind = Len(path) + 2..Taken /\ TakenBehind' = Len(path) + 2..Taken'
          /\ Taken' = Len(input') - Len(tokens')
      BY <1>1 DEF TakenBehind, Taken
    <2>2. CASE i \in TakenBehind
      <3>1. /\ input[i].kind = "Parameter" /\ NamedBy(input[i]) # Null
            /\ NamedBy(input[i]).name \in DOMAIN args
        BY <2>2 DEF ParserInv, UsedInv
      <3>2. NamedBy(input[i])' = NamedBy(input[i])
        BY <1>1 DEF NamedBy
      <3> QED
        BY <1>1, <3>1, <3>2 DEF BecomesArgument
    <2>3. CASE i \notin TakenBehind
      <3>1. i = Taken + 1 /\ i = Taken' /\ ~UNCHANGED tokens
        BY <1>0, <1>3, <2>1, <2>3
      <3>2. tokens # <<>> /\ parsed # <<>> /\ Last(parsed).type = "String"
        BY <3>1
      <3>3. input[i] = Head(tokens) /\ Head(tokens).kind = "Parameter"
        BY <1>0, <3>1, <3>2, NextTokenIs DEF ParserInv, UsedInv
      <3> QED
        BY <1>1, <2>1, <3>1, <3>2, <3>3 DEF IsDroppedOverflow, AllParsed
    <2> QED
      BY <2>2, <2>3
  <1>7. NothingIsMadeUp'
    BY <1>0, <1>1, <1>2, ArgumentsStay DEF ArgumentsMatchTokens
  <1>8. UsedInv' /\ ArgumentsMatchTokens'
    BY <1>1, <1>6, <1>7 DEF UsedInv, ArgumentsMatchTokens, BareCommandsParse
  <1> QED
    BY <1>4, <1>5, <1>8 DEF ParserInv

\* What is left is cleaned up.
LEMMA CleanUpStep ==
  ASSUME ParserInv, CleanUpTokenOverflow
  PROVE  ParserInv'
  <1>0. pc = "arguments" /\ AllParsed
    BY DEF CleanUpTokenOverflow
  <1>1. /\ ShapeInv /\ Taken \in Nat /\ Taken >= Len(path) + 1
        /\ Len(path) \in Nat /\ Len(input) \in Nat
    BY <1>0, NextTokenIs DEF ParserInv, ShapeInv, PlaceInv, PastCommand
  <1>2. CASE UNCHANGED tokens /\ Finish
    BY <1>0, <1>2, FinishStep
  <1>3. CASE tokens # <<>> /\ parsed = <<>>
    <2>1. Reject(TypeError) /\ UNCHANGED tokens /\ TypeError \in Exception
      BY <1>0, <1>3 DEF CleanUpTokenOverflow, TypeError, Exception
    <2>2. Len(input) > Len(path) + 1
      BY <1>1, <1>3, NextTokenIs
    <2> QED
      BY <2>1, <2>2, RejectStep DEF Reads
  <1>4. CASE tokens # <<>> /\ parsed # <<>> /\ ~(UNCHANGED tokens /\ Finish)
    <2>1. NextToken \in Token
      BY <1>1, <1>4, NextTokenIs
    <2>2. ~IsFlagSet(NextToken.kind, StringLike)
      BY <2>1, NoFlagIsSet DEF Token
    <2>3. Take /\ Finish /\ Last(parsed).type = "String"
      BY <1>4, <2>2 DEF CleanUpTokenOverflow
    <2> QED
      BY <1>0, <1>4, <2>3, FinishStep
  <1> QED
    BY <1>2, <1>3, <1>4 DEF CleanUpTokenOverflow

------------------------------------------------------------------------------
(* Theorems *)

\* Nothing was taken.
LEMMA ParserInvInit == Init => ParserInv
  <1> SUFFICES ASSUME Init PROVE ParserInv
    OBVIOUS
  <1>1. input \in Seq(Token) /\ tokens = input /\ Len(input) \in Nat
    BY ParserAssumption DEF Init
  <1>2. Taken = 0
    BY <1>1 DEF Taken
  <1>3. ShapeInv
    <2>1. \A i \in 1..Len(tokens) : tokens[i] = input[Taken + i]
      BY <1>1, <1>2
    <2>2. path \in Seq(Text) /\ parsed \in Seq(Param) /\ DOMAIN parsed = {}
      BY DEF Init
    <2> QED
      BY <1>1, <2>1, <2>2 DEF Init, ShapeInv
  <1>4. PlaceInv
    BY <1>2 DEF Init, PlaceInv, PastCommand
  <1>5. UsedInv /\ ArgumentsMatchTokens
    BY DEF Init, UsedInv, ArgumentsMatchTokens, TakenTokensAreUsed, NothingIsMadeUp,
           BareCommandsParse
  <1> QED
    BY <1>3, <1>4, <1>5 DEF ParserInv

\* Every step of the parser keeps its invariant.
LEMMA ParserInvNext ==
  ASSUME ParserInv, [Next]_parserVars
  PROVE  ParserInv'
  <1>1. CASE GetPrefix
    BY <1>1, PrefixStep
  <1>2. CASE GetCommand
    BY <1>2, CommandStep
  <1>3. CASE ResolveSubCommand
    BY <1>3, SubCommandStep
  <1>4. CASE NextIsMissing
    BY <1>4, MissingStep
  <1>5. CASE NextIsParameter
    BY <1>5, ParameterStep
  <1>6. ASSUME NEW fault, NextIsText(fault) \/ ParseValue(fault) \/ ParseHungry(fault)
        PROVE  ParserInv'
    BY <1>6, TextStep, ValueStep
  <1>7. CASE CleanUpTokenOverflow
    BY <1>7, CleanUpStep
  <1>8. CASE UNCHANGED parserVars
    <2>1. UNCHANGED <<input, tokens, route, path, parsed, args, current, pc, error>>
      BY <1>8 DEF parserVars
    <2>2. ShapeInv'
      BY <2>1 DEF ParserInv, ShapeInv, Taken, Belongs
    <2>3. PlaceInv'
      <3>1. IsNamed' = IsNamed /\ NamesChild(route, Behind)' = NamesChild(route, Behind)
        BY <2>1 DEF IsNamed, NamesChild, Behind
      <3> QED
        BY <2>1, <3>1 DEF ParserInv, PlaceInv, PastCommand, Taken
    <2>4. UsedInv'
      <3>1. \A i : NamedBy(input[i])' = NamedBy(input[i])
        BY <2>1 DEF NamedBy
      <3> QED
        BY <2>1, <3>1 DEF ParserInv, UsedInv, TakenBehind
    <2>5. ArgumentsMatchTokens'
      <3>1. NothingIsMadeUp'
        BY <2>1, ArgumentsStay DEF ParserInv, ArgumentsMatchTokens, Reads
      <3>2. TakenTokensAreUsed'
        <4>1. ASSUME NEW i
              PROVE  /\ BecomesArgument(input[i])' <=> BecomesArgument(input[i])
                     /\ IsDroppedOverflow(i)' <=> IsDroppedOverflow(i)
          <5>1. NamedBy(input[i])' = NamedBy(input[i])
            BY <2>1 DEF NamedBy
          <5> QED
            BY <2>1, <5>1 DEF BecomesArgument, IsDroppedOverflow, AllParsed
        <4> QED
          BY <2>1, <4>1 DEF ParserInv, ArgumentsMatchTokens, TakenTokensAreUsed, TakenBehind
      <3> QED
        BY <2>1, <3>1, <3>2 DEF ParserInv, ArgumentsMatchTokens, BareCommandsParse
    <2> QED
      BY <2>2, <2>3, <2>4, <2>5 DEF ParserInv
  <1> QED
    BY <1>1, <1>2, <1>3, <1>4, <1>5, <1>6, <1>7, <1>8 DEF Next

\* The inductive invariant: how many tokens were taken, what they were, and what the
\* parser has made of them.
THEOREM ParserInvariance == Spec => []ParserInv
  BY ParserInvInit, ParserInvNext, PTL DEF Spec

\* The tokens that are left are the last ones handed in, and what is parsed belongs
\* to the command that was found.
THEOREM TypeCorrectness == Spec => []TypeOK
  <1>1. ParserInv => TypeOK
    <2> SUFFICES ASSUME ParserInv PROVE TypeOK
      OBVIOUS
    <2>1. ShapeInv
      BY DEF ParserInv
    <2>2. tokens = SubSeq(input, Len(input) - Len(tokens) + 1, Len(input))
      <3>1. PICK m \in Nat, n \in Nat :
               m = Len(tokens) /\ n = Len(input) /\ m <= n
        BY <2>1 DEF ShapeInv
      <3>2. input \in Seq(Token) /\ tokens \in Seq(Token) /\ n - m + 1 \in Nat \ {0}
            /\ n - m + 1 <= n + 1
        BY <2>1, <3>1 DEF ShapeInv
      <3>3. PICK left : left = SubSeq(input, n - m + 1, n)
        OBVIOUS
      <3>4. /\ n - (n - m + 1) + 1 = m
            /\ Len(left) = n - (n - m + 1) + 1
            /\ DOMAIN left = 1..n - (n - m + 1) + 1
            /\ \A i \in 1..n - (n - m + 1) + 1 : left[i] = input[n - m + 1 + i - 1]
        BY <3>1, <3>2, <3>3, BehindTaken
      <3>5. \A i \in 1..m : tokens[i] = left[i]
        <4>1. \A i \in 1..m : n - m + 1 + i - 1 = n - m + i
          BY <3>1
        <4>2. \A i \in 1..m : tokens[i] = input[n - m + i]
          BY <2>1, <3>1 DEF ShapeInv, Taken
        <4> QED
          BY <3>4, <4>1, <4>2
      <3>6. left = [i \in 1..m |-> left[i]] /\ tokens = [i \in 1..m |-> tokens[i]]
        BY <3>1, <3>2, <3>3, <3>4
      <3> QED
        BY <3>1, <3>3, <3>5, <3>6
    <2> QED
      BY <2>1, <2>2 DEF ShapeInv, TypeOK, Belongs
  <1> QED
    BY ParserInvariance, <1>1, PTL

\* The command is the deepest one that the tokens after the prefix name one by one.
THEOREM Deepest == Spec => []DeepestCommand
  <1>1. ParserInv => DeepestCommand
    <2> SUFFICES ASSUME ParserInv, PastCommand
                 PROVE  /\ \A n \in DOMAIN path :
                              input[n + 1] = [kind |-> "Generic", text |-> path[n]]
                        /\ route = CommandAt(path)
                        /\ ~NamesChild(route, Behind)
      BY DEF DeepestCommand
    <2>1. IsNamed /\ ~NamesChild(route, Behind) /\ path \in Seq(Text)
      BY DEF ParserInv, PlaceInv, ShapeInv
    <2>2. route = CommandAt(path)
      BY <2>1, CommandIsLed DEF IsNamed
    <2> QED
      BY <2>1, <2>2 DEF IsNamed
  <1> QED
    BY ParserInvariance, <1>1, PTL

\* The arguments of a message match the tokens that were taken: of those nothing is
\* lost but the name of a parameter that cleanUpTokenOverflow drops, no argument is
\* made up, and no command without parameters is refused.
THEOREM Matched == Spec => []ArgumentsMatchTokens
  <1>1. ParserInv => ArgumentsMatchTokens
    BY DEF ParserInv
  <1> QED
    BY ParserInvariance, <1>1, PTL

------------------------------------------------------------------------------
(* The tokenizer *)

\* The scanners, each with what it has collected.
Mentions ==
    [in : {"mention"}, at : Nat, outer : Seq(Character) \union {None},
     sb : Seq(Character), kind : MentionKind \union {"Emote", None}, colons : Nat]

Frames ==
    {Top, [in |-> "done"]}
        \union [in : {"generic", "codeBlock", "parameter"}, sb : Seq(Character)]
        \union [in : {"number"}, sb : Seq(Character), at : Nat, negative : BOOLEAN]
        \union [in : {"string"}, sb : Seq(Character), quote : Character]
        \union Mentions

SavedToken ==
    [kind : TokenKind, text : Seq(Character \union {"comma"}), from : Nat, to : Nat]

\* No scanner is running.
Between == frame.in \in {"top", "done"}

\* A scanner has read a character at least, and goes back to no place before it.
CursorInv ==
    /\ index \in 0..Length /\ tokenStart \in 0..index
    /\ ~Between => tokenStart < index
    /\ frame.in \in {"number", "mention"} => frame.at \in tokenStart + 1..index
    /\ frame.in = "mention" /\ frame.outer # None => frame.at >= tokenStart + 2
    /\ frame.in = "string" => tokenStart + 1 < Length
    /\ Done => index = Length

ScanInv ==
    /\ message \in Message
    /\ frame \in Frames
    /\ CursorInv
    /\ scanned \in Seq(SavedToken) /\ scanned # <<>>
    /\ \A i \in DOMAIN scanned : scanned[i].from <= scanned[i].to /\ scanned[i].to <= Length

\* The quote that opens a string has not been met again.
QuoteInv ==
    frame.in = "string" => \A i \in tokenStart + 2..index : CharAt(i) # frame.quote

------------------------------------------------------------------------------
(* The text of a message *)

\* The characters of the text end where the null begins.
LEMMA TextIs ==
  ASSUME message \in Message
  PROVE  /\ Length \in Nat /\ message.text \in Seq(Character)
         /\ message.prefix \in 0..Length
         /\ \A i \in Nat : /\ i < Length => CharAt(i) \in Character /\ CharAt(i) # None
                           /\ i >= Length => CharAt(i) = None
                           /\ CharAt(i) = message.text[i + 1] \/ CharAt(i) = None
  <1>1. message.text \in Seq(Character) /\ message.prefix \in 0..Length /\ Length \in Nat
    BY TextAssumption DEF Length
  <1>2. ASSUME NEW i \in Nat, i < Length
        PROVE  CharAt(i) \in Character /\ CharAt(i) # None
               /\ CharAt(i) = message.text[i + 1]
    <2>1. i + 1 \in 1..Len(message.text)
      BY <1>1, <1>2 DEF Length
    <2>2. message.text[i + 1] \in Character
      BY <1>1, <2>1
    <2> QED
      BY <1>2, <2>2, TextAssumption DEF CharAt
  <1>3. ASSUME NEW i \in Nat, i >= Length
        PROVE  CharAt(i) = None /\ ~(i < Length)
    BY <1>1, <1>3 DEF CharAt
  <1>4. \A i \in Nat : i < Length \/ i >= Length
    BY <1>1
  <1> QED
    BY <1>1, <1>2, <1>3, <1>4

\* The same text has the same characters.
LEMMA TextStays ==
  ASSUME UNCHANGED message
  PROVE  Length' = Length /\ \A i : CharAt(i)' = CharAt(i)
  BY DEF Length, CharAt

\* What is appended to a sequence is its last element.
LEMMA AppendIs ==
  ASSUME NEW S, NEW s \in Seq(S), NEW e \in S
  PROVE  /\ Append(s, e) \in Seq(S) /\ Append(s, e) # <<>>
         /\ Len(Append(s, e)) = Len(s) + 1 /\ Len(s) \in Nat
         /\ Append(s, e)[Len(s) + 1] = e
         /\ \A i \in 1..Len(s) : Append(s, e)[i] = s[i]
  BY AppendProperties

\* A character is added, the null is not.
LEMMA AddIs ==
  ASSUME NEW sb \in Seq(Character), NEW c \in CharacterOrNone
  PROVE  Add(sb, c) \in Seq(Character)
  BY DEF Add, CharacterOrNone

\* A function on the first numbers is a sequence.
LEMMA FunctionIsSeq ==
  ASSUME NEW S, NEW n \in Nat, NEW f \in [1..n -> S]
  PROVE  f \in Seq(S) /\ Len(f) = n
  OBVIOUS

\* Joined texts are characters and commas, and no text is joined from none only.
LEMMA JoinedIs ==
  ASSUME NEW sb \in Seq(Character)
  PROVE  /\ Joined(sb) \in Seq(Character \union {"comma"})
         /\ Joined(sb) = <<>> <=> sb = <<>>
  <1>1. PICK n \in Nat : n = Len(sb) /\ (n = 0 <=> sb = <<>>)
    BY EmptySeq
  <1> DEFINE k == IF sb = <<>> THEN 0 ELSE 2 * n - 1
             char(i) == IF i % 2 = 1 THEN sb[(i + 1) \div 2] ELSE "comma"
  <1>2. k \in Nat /\ (k = 0 <=> sb = <<>>)
    BY <1>1
  <1>3. Joined(sb) = [i \in 1..k |-> char(i)]
    BY <1>1 DEF Joined
  <1>4. ASSUME NEW i \in 1..k
        PROVE  char(i) \in Character \union {"comma"}
    <2>1. n >= 1 /\ k = 2 * n - 1
      BY <1>1, <1>2, <1>4
    <2>2. i \in Int /\ 1 <= i /\ i <= 2 * n - 1 /\ n \in Int
      BY <1>1, <1>4, <2>1
    <2>3. (i + 1) \div 2 \in 1..n
      BY <2>2
    <2>4. sb[(i + 1) \div 2] \in Character
      BY <1>1, <2>3
    <2> QED
      BY <2>4
  <1> HIDE DEF k, char
  <1>5. Joined(sb) \in [1..k -> Character \union {"comma"}]
    BY <1>3, <1>4
  <1>6. Joined(sb) \in Seq(Character \union {"comma"}) /\ Len(Joined(sb)) = k
    BY <1>2, <1>5, FunctionIsSeq
  <1> QED
    BY <1>2, <1>6, EmptySeq

------------------------------------------------------------------------------
(* The scanners *)

\* What a scanner has collected is known by the scanner.
LEMMA FrameIs ==
  ASSUME NEW f \in Frames
  PROVE  /\ f.in = "top" <=> f = Top
         /\ f.in \in {"generic", "codeBlock", "parameter", "number"} => f.sb \in Seq(Character)
         /\ f.in = "number" => f.at \in Nat /\ f.negative \in BOOLEAN
         /\ f.in = "string" => /\ f.sb \in Seq(Character) /\ f.quote \in Character
                               /\ \A sb \in Seq(Character) : [f EXCEPT !.sb = sb] \in Frames
                               /\ \A sb : [f EXCEPT !.sb = sb].in = "string"
                               /\ \A sb : [f EXCEPT !.sb = sb].quote = f.quote
         /\ f.in = "number" => /\ \A sb \in Seq(Character) : [f EXCEPT !.sb = sb] \in Frames
                               /\ \A sb : [f EXCEPT !.sb = sb].in = "number"
                               /\ \A sb : [f EXCEPT !.sb = sb].at = f.at
         /\ f.in = "mention" <=> f \in Mentions
         /\ f.in \in {"top", "done", "generic", "codeBlock", "parameter", "number", "string",
                      "mention"}
  BY DEF Frames, Top, Mentions

\* The scanners as they begin.
LEMMA FramesBegin ==
  ASSUME NEW sb \in Seq(Character)
  PROVE  /\ Top \in Frames /\ Top.in = "top"
         /\ Generic(sb) \in Frames /\ Generic(sb).in = "generic"
         /\ CodeBlock(sb) \in Frames /\ CodeBlock(sb).in = "codeBlock"
         /\ Parameter(sb) \in Frames /\ Parameter(sb).in = "parameter"
         /\ \A q \in Character : /\ Quoted(sb, q) \in Frames
                                 /\ Quoted(sb, q).in = "string" /\ Quoted(sb, q).quote = q
  BY DEF Frames, Top, Generic, CodeBlock, Parameter, Quoted

\* A number begins with what has been read of it.
LEMMA NumberBegins ==
  ASSUME NEW sb \in Seq(Character), NEW at \in Nat, NEW b \in BOOLEAN
  PROVE  /\ Number(sb, at, b) \in Frames
         /\ Number(sb, at, b).in = "number" /\ Number(sb, at, b).at = at
  BY DEF Frames, Number

\* A mention begins with its bracket.
LEMMA MentionBegins ==
  ASSUME NEW at \in Nat, NEW outer \in Seq(Character) \union {None}
  PROVE  /\ Mention(at, outer) \in Mentions /\ Mention(at, outer) \in Frames
         /\ Mention(at, outer).in = "mention"
         /\ Mention(at, outer).at = at /\ Mention(at, outer).outer = outer
  <1>1. <<"<">> \in Seq(Character)
    BY DEF Character
  <1> QED
    BY <1>1 DEF Mention, Mentions, Frames

\* A mention goes on with a character only, from the same place.
LEMMA MentionGoesOn ==
  ASSUME NEW f \in Mentions, NEW c \in CharacterOrNone, MentionStep(f, c) # None
  PROVE  /\ MentionStep(f, c) \in Mentions /\ MentionStep(f, c) \in Frames
         /\ MentionStep(f, c).at = f.at /\ MentionStep(f, c).outer = f.outer
         /\ MentionStep(f, c).in = "mention" /\ c \in Character
  <1> DEFINE taken == [f EXCEPT !.sb = Append(@, c)]
  <1>1. c \in Digit \union {"#", "@", "&", ":", ">"}
    BY DEF MentionStep
  <1>2. c \in Character
    BY <1>1 DEF Character, Digit
  <1>3. f.sb \in Seq(Character) /\ f.colons \in Nat
    BY DEF Mentions
  <1>4. Append(f.sb, c) \in Seq(Character)
    BY <1>2, <1>3
  <1>5. taken \in Mentions /\ taken.at = f.at /\ taken.outer = f.outer
    BY <1>4 DEF Mentions
  <1> HIDE DEF taken
  <1>6. /\ \A kind \in MentionKind \union {"Emote"} :
                LET g == [taken EXCEPT !.kind = kind]
                IN  g \in Mentions /\ g.at = f.at /\ g.outer = f.outer
        /\ \A n \in Nat :
                LET g == [taken EXCEPT !.kind = "Emote", !.colons = n]
                IN  g \in Mentions /\ g.at = f.at /\ g.outer = f.outer
    BY <1>5 DEF Mentions
  <1>7. taken.colons + 1 \in Nat
    BY <1>5 DEF Mentions
  <1>s. SUFFICES MentionStep(f, c) \in Mentions /\ MentionStep(f, c).at = f.at
                 /\ MentionStep(f, c).outer = f.outer
    BY <1>2 DEF Frames, Mentions
  <1> DEFINE emote == [taken EXCEPT !.kind = "Emote", !.colons = @ + 1]
  <1>8. CASE c \in Digit
    <2>1. MentionStep(f, c) = taken
      BY <1>8 DEF MentionStep, taken, Digit
    <2> QED
      BY <1>5, <2>1
  <1>9. CASE c \in {"#", "@"}
    <2>1. MentionStep(f, c) = taken
          \/ \E kind \in MentionKind : MentionStep(f, c) = [taken EXCEPT !.kind = kind]
      BY <1>9 DEF MentionStep, taken, Digit, MentionKind
    <2> QED
      BY <1>5, <1>6, <2>1
  <1>10. CASE c = "&"
    <2>1. MentionStep(f, c) = taken
          \/ \E kind \in MentionKind : MentionStep(f, c) = [taken EXCEPT !.kind = kind]
      BY <1>10 DEF MentionStep, taken, Digit, MentionKind
    <2> QED
      BY <1>5, <1>6, <2>1
  <1>11. CASE c = ":"
    <2>1. MentionStep(f, c) = emote
      BY <1>11 DEF MentionStep, taken, Digit
    <2>2. emote \in Mentions /\ emote.at = f.at /\ emote.outer = f.outer
      BY <1>6, <1>7
    <2> QED
      BY <2>1, <2>2
  <1>12. CASE c = ">"
    <2>1. MentionStep(f, c) = taken
      BY <1>12 DEF MentionStep, taken, Digit
    <2> QED
      BY <1>5, <2>1
  <1> QED
    BY <1>1, <1>8, <1>9, <1>10, <1>11, <1>12

------------------------------------------------------------------------------
(* Steps of the tokenizer *)

\* A scanner moves the cursor or another one takes over.
LEMMA MoveKeeps ==
  ASSUME ScanInv, ~Between,
         NEW to \in tokenStart + 1..Length, NEW next \in Frames, next.in # "done",
         next.in \in {"number", "mention"} => next.at \in tokenStart + 1..to,
         next.in = "mention" /\ next.outer # None => next.at >= tokenStart + 2,
         next.in = "string" => tokenStart + 1 < Length,
         index' = to, frame' = next, UNCHANGED <<message, tokenStart, scanned>>
  PROVE  ScanInv'
  <1>1. Length \in Nat /\ Length' = Length
    BY TextIs, TextStays DEF ScanInv
  <1>2. tokenStart \in Nat
    BY <1>1 DEF ScanInv, CursorInv
  <1>3. CursorInv'
    BY <1>1, <1>2 DEF CursorInv, Done, Between
  <1> QED
    BY <1>1, <1>3 DEF ScanInv

\* A token is saved behind the others, or none.
LEMMA SaveIs ==
  ASSUME ScanInv, UNCHANGED message,
         NEW kind \in TokenKind, NEW text \in Seq(Character \union {"comma"}),
         NEW from \in Nat, NEW to \in from..Length,
         scanned' = Append(scanned, CommandToken(kind, text, from, to))
  PROVE  /\ scanned' \in Seq(SavedToken) /\ scanned' # <<>>
         /\ \A i \in DOMAIN scanned' :
                scanned'[i].from <= scanned'[i].to /\ scanned'[i].to <= Length'
  <1>1. Length \in Nat /\ Length' = Length
    BY TextIs, TextStays DEF ScanInv
  <1> DEFINE t == CommandToken(kind, text, from, to)
  <1>2. t \in SavedToken /\ t.from <= t.to /\ t.to <= Length
    BY <1>1 DEF SavedToken, CommandToken
  <1> HIDE DEF t
  <1>3. scanned \in Seq(SavedToken) /\ scanned' = Append(scanned, t)
    BY DEF ScanInv, t
  <1>4. /\ scanned' \in Seq(SavedToken) /\ scanned' # <<>>
        /\ Len(scanned') = Len(scanned) + 1 /\ Len(scanned) \in Nat
        /\ scanned'[Len(scanned) + 1] = t
        /\ \A i \in 1..Len(scanned) : scanned'[i] = scanned[i]
    BY <1>2, <1>3, AppendIs
  <1>5. ASSUME NEW i \in DOMAIN scanned'
        PROVE  scanned'[i].from <= scanned'[i].to /\ scanned'[i].to <= Length
    <2>1. i \in 1..Len(scanned) + 1
      BY <1>4, <1>5
    <2>2. CASE i = Len(scanned) + 1
      BY <1>2, <1>4, <2>2
    <2>3. CASE i \in 1..Len(scanned)
      <3>1. i \in DOMAIN scanned
        BY <1>3, <2>3
      <3> QED
        BY <1>4, <2>3, <3>1 DEF ScanInv
    <2> QED
      BY <1>4, <2>1, <2>2, <2>3
  <1> QED
    BY <1>1, <1>4, <1>5

\* A scanner ends its token.
LEMMA EndKeeps ==
  ASSUME ScanInv, ~Between, NEW kind \in TokenKind, NEW sb \in Seq(Character),
         NEW to \in tokenStart..Length, EndToken(kind, sb, to)
  PROVE  ScanInv'
  <1>1. Length \in Nat /\ Length' = Length /\ UNCHANGED <<message, tokenStart>>
    BY TextIs, TextStays DEF ScanInv, EndToken
  <1>2. tokenStart \in Nat
    BY <1>1 DEF ScanInv, CursorInv
  <1>3. index' = to /\ frame' = Top
    BY DEF EndToken
  <1>4. CursorInv'
    BY <1>1, <1>2, <1>3 DEF CursorInv, Done, Between, Top
  <1>5. CASE Len(scanned) < MaxTokens
    <2>1. scanned' = Append(scanned, CommandToken(kind, Joined(sb), tokenStart, to))
      BY <1>5 DEF EndToken, Save
    <2>2. Joined(sb) \in Seq(Character \union {"comma"})
      BY JoinedIs
    <2> QED
      BY <1>1, <1>2, <1>3, <1>4, <2>1, <2>2, SaveIs, FramesBegin DEF ScanInv
  <1>6. CASE ~(Len(scanned) < MaxTokens)
    <2>1. scanned' = scanned
      BY <1>6 DEF EndToken, Save
    <2> QED
      BY <1>1, <1>3, <1>4, <2>1, FramesBegin DEF ScanInv
  <1> QED
    BY <1>5, <1>6

\* A token begins.
LEMMA BeginKeeps ==
  ASSUME ScanInv, NEW cs, Begin(cs), UNCHANGED scanned,
         NEW to \in index + 1..Length, NEW next \in Frames, next.in # "done",
         next.in \in {"number", "mention"} => next.at \in index + 1..to,
         next.in = "mention" => next.outer = None,
         next.in = "string" => index + 1 < Length,
         index' = to, frame' = next
  PROVE  ScanInv'
  <1>1. Length \in Nat /\ Length' = Length /\ UNCHANGED message /\ tokenStart' = index
    BY TextIs, TextStays DEF ScanInv, Begin
  <1>2. index \in Nat
    BY <1>1 DEF ScanInv, CursorInv
  <1>3. CursorInv'
    BY <1>1, <1>2 DEF CursorInv, Done, Between
  <1> QED
    BY <1>1, <1>3 DEF ScanInv

\* A character is read, or the null at the length of the text.
LEMMA CharIs ==
  ASSUME message \in Message, NEW i \in Nat
  PROVE  /\ CharAt(i) \in CharacterOrNone
         /\ CharAt(i) \in Character <=> i < Length
         /\ CharAt(i) = None <=> i >= Length
  <1>1. Length \in Nat /\ (i < Length \/ i >= Length) /\ ~(i < Length /\ i >= Length)
    BY TextIs
  <1> QED
    BY <1>1, TextIs, TextAssumption DEF CharacterOrNone

\* Before the end of the message there is room for the cursor to advance.
LEMMA NextIs ==
  ASSUME ScanInv, ~AtEom
  PROVE  /\ index \in Nat /\ Length \in Nat /\ tokenStart \in 0..index /\ index < Length
         /\ ~Between => tokenStart < index
         /\ index + 1 \in index + 1..Length /\ index + 1 \in tokenStart + 1..Length
         /\ NextChar \in CharacterOrNone
         /\ NextChar \in Character <=> index + 1 < Length
  <1>1. Length \in Nat /\ index \in 0..Length /\ tokenStart \in 0..index
    BY TextIs DEF ScanInv, CursorInv
  <1>2. index \in Nat /\ index + 1 \in Nat /\ index < Length
    BY <1>1 DEF AtEom
  <1>3. NextChar \in CharacterOrNone /\ (NextChar \in Character <=> index + 1 < Length)
    BY <1>2, CharIs DEF NextChar, ScanInv
  <1> QED
    BY <1>1, <1>2, <1>3 DEF ScanInv, CursorInv

\* What is met at a code block is in the text.
LEMMA PatternIs ==
  ASSUME message \in Message, NEW i \in Nat, IsCodeBlockPattern(i)
  PROVE  i + 2 < Length
  <1>1. CharAt(i + 2) = "tick" /\ i + 2 \in Nat
    BY DEF IsCodeBlockPattern
  <1>2. "tick" \in Character
    BY DEF Character
  <1> QED
    BY <1>1, <1>2, CharIs

\* The actions, each with the lemma on what it does: the first character decides.
LEMMA SkipBlankKeeps ==
  ASSUME ScanInv, SkipBlank
  PROVE  ScanInv'
  <1>1. Begin(Blank) /\ ~AtEom /\ index' = index + 1 /\ frame' = Top /\ UNCHANGED scanned
    BY DEF SkipBlank, Begin
  <1>2. index + 1 \in index + 1..Length
    BY <1>1, NextIs
  <1>3. Top \in Frames /\ Top.in = "top"
    BY DEF Frames, Top
  <1> QED
    BY <1>1, <1>2, <1>3, BeginKeeps

LEMMA BeginNumberKeeps ==
  ASSUME ScanInv, BeginNumber
  PROVE  ScanInv'
  <1>1. Begin(Digit) /\ ~AtEom /\ NextChar \in Digit /\ UNCHANGED scanned
        /\ index' = index + 1 /\ frame' = Number(<<NextChar>>, index + 1, FALSE)
    BY DEF BeginNumber, Begin
  <1>2. index \in Nat /\ index + 1 \in Nat /\ index + 1 \in index + 1..Length /\ Length \in Nat
    BY <1>1, NextIs
  <1>3. <<NextChar>> \in Seq(Character)
    BY <1>1 DEF Character
  <1>4. index + 1 \in index + 1..index + 1 /\ FALSE \in BOOLEAN
    BY <1>2
  <1>5. frame' \in Frames /\ frame'.in = "number" /\ frame'.at = index + 1
    BY <1>1, <1>2, <1>3, <1>4, NumberBegins
  <1> QED
    BY <1>1, <1>2, <1>4, <1>5, BeginKeeps

LEMMA BeginStringKeeps ==
  ASSUME ScanInv, BeginString
  PROVE  ScanInv'
  <1>1. Begin(StringQuote) /\ ~AtEom /\ NextChar \in StringQuote /\ UNCHANGED scanned
        /\ index' = index + 1 /\ frame' = Quoted(<<>>, NextChar)
    BY DEF BeginString, Begin
  <1>3. <<>> \in Seq(Character) /\ NextChar \in Character
    BY <1>1 DEF Character
  <1>2. index + 1 \in index + 1..Length /\ index + 1 < Length
    BY <1>1, <1>3, NextIs
  <1>4. frame' \in Frames /\ frame'.in = "string"
    BY <1>1, <1>3, FramesBegin
  <1> QED
    BY <1>1, <1>2, <1>4, BeginKeeps

LEMMA BeginBacktickKeeps ==
  ASSUME ScanInv, BeginBacktick
  PROVE  ScanInv'
  <1>1. Begin({"tick"}) /\ ~AtEom /\ UNCHANGED scanned /\ NextChar \in Character
    BY DEF BeginBacktick, Begin, Character
  <1>2. index \in Nat /\ Length \in Nat /\ index + 1 \in index + 1..Length
        /\ index + 1 < Length
    BY <1>1, NextIs
  <1>3. "tick" \in Character /\ <<>> \in Seq(Character)
        /\ <<"tick", "tick", "tick">> \in Seq(Character)
    BY DEF Character
  <1>4. CASE IsCodeBlockPattern(index + 1)
    <2>1. index' = index + 3 /\ frame' = CodeBlock(<<"tick", "tick", "tick">>)
      BY <1>4 DEF BeginBacktick
    <2>2. index + 1 \in Nat /\ message \in Message
      BY <1>2 DEF ScanInv
    <2>3. index + 3 \in index + 1..Length
      BY <1>2, <1>4, <2>2, PatternIs
    <2>4. frame' \in Frames /\ frame'.in = "codeBlock"
      BY <1>3, <2>1, FramesBegin
    <2> QED
      BY <1>1, <2>1, <2>3, <2>4, BeginKeeps
  <1>5. CASE ~IsCodeBlockPattern(index + 1)
    <2>1. index' = index + 1 /\ frame' = Quoted(<<>>, "tick")
      BY <1>5 DEF BeginBacktick
    <2>2. frame' \in Frames /\ frame'.in = "string"
      BY <1>3, <2>1, FramesBegin
    <2> QED
      BY <1>1, <1>2, <2>1, <2>2, BeginKeeps
  <1> QED
    BY <1>4, <1>5

LEMMA BeginMentionKeeps ==
  ASSUME ScanInv, BeginMention
  PROVE  ScanInv'
  <1>1. Begin({"<"}) /\ ~AtEom /\ UNCHANGED scanned
        /\ index' = index + 1 /\ frame' = Mention(index + 1, None)
    BY DEF BeginMention, Begin
  <1>2. index \in Nat /\ Length \in Nat /\ index + 1 \in index + 1..Length
        /\ index + 1 \in index + 1..index + 1
    BY <1>1, NextIs
  <1>3. frame' \in Frames /\ frame'.in = "mention" /\ frame'.at = index + 1
        /\ frame'.outer = None
    BY <1>1, <1>2, MentionBegins
  <1> QED
    BY <1>1, <1>2, <1>3, BeginKeeps

LEMMA BeginGenericKeeps ==
  ASSUME ScanInv, BeginGeneric
  PROVE  ScanInv'
  <1>1. PICK cs : Begin(cs) /\ ~AtEom /\ UNCHANGED scanned
                  /\ index' = index + 1 /\ frame' = Generic(Add(<<>>, NextChar))
    BY DEF BeginGeneric, Begin
  <1>2. index + 1 \in index + 1..Length /\ NextChar \in CharacterOrNone
        /\ <<>> \in Seq(Character)
    BY <1>1, NextIs
  <1>3. Add(<<>>, NextChar) \in Seq(Character)
    BY <1>2, AddIs
  <1>4. frame' \in Frames /\ frame'.in = "generic"
    BY <1>1, <1>3, FramesBegin
  <1> QED
    BY <1>1, <1>2, <1>4, BeginKeeps

LEMMA BeginDashKeeps ==
  ASSUME ScanInv, BeginDash
  PROVE  ScanInv'
  <1>1. Begin({"-"}) /\ ~AtEom /\ NextChar = "-" /\ "-" \in Character
    BY DEF BeginDash, Begin, Character
  <1>2. index \in Nat /\ Length \in Nat /\ index + 1 < Length
    BY <1>1, NextIs
  <1>3. CASE CharAt(index + 2) \in WhiteSpace
    <2>1. /\ index' = index + 1 /\ frame' = Top /\ tokenStart' = index
          /\ UNCHANGED message
          /\ scanned' = Append(scanned, CommandToken("Generic", <<"-">>, index, index + 1))
      BY <1>1, <1>3 DEF BeginDash, Begin
    <2>2. <<"-">> \in Seq(Character \union {"comma"}) /\ "Generic" \in TokenKind
          /\ index + 1 \in index..Length
      BY <1>1, <1>2 DEF TokenKind
    <2>3. /\ scanned' \in Seq(SavedToken) /\ scanned' # <<>>
          /\ \A i \in DOMAIN scanned' :
                scanned'[i].from <= scanned'[i].to /\ scanned'[i].to <= Length'
      BY <1>2, <2>1, <2>2, SaveIs
    <2>4. CursorInv' /\ frame' \in Frames /\ message' \in Message
      <3>1. Length' = Length /\ message' \in Message
        BY <2>1, TextStays DEF ScanInv
      <3>2. CursorInv'
        BY <1>2, <2>1, <3>1 DEF CursorInv, Done, Between, Top
      <3> QED
        BY <2>1, <3>1, <3>2 DEF Frames
    <2> QED
      BY <2>3, <2>4 DEF ScanInv
  <1>4. CASE CharAt(index + 2) \notin WhiteSpace
    <2>1. /\ index' = index + 2 /\ UNCHANGED scanned
          /\ frame' = Number(Add(<<"-">>, CharAt(index + 2)), index + 2, TRUE)
      BY <1>4 DEF BeginDash
    <2>2. index + 2 \in index + 1..Length /\ index + 2 \in Nat
          /\ index + 2 \in index + 1..index + 2
      BY <1>2
    <2>3. <<"-">> \in Seq(Character) /\ CharAt(index + 2) \in CharacterOrNone
      BY <1>1, <2>2, CharIs DEF ScanInv
    <2>4. Add(<<"-">>, CharAt(index + 2)) \in Seq(Character)
      BY <2>3, AddIs
    <2>5. frame' \in Frames /\ frame'.in = "number" /\ frame'.at = index + 2
      BY <2>1, <2>2, <2>4, NumberBegins
    <2> QED
      BY <1>1, <2>1, <2>2, <2>5, BeginKeeps
  <1> QED
    BY <1>3, <1>4

\* The scanners of the characters after it
LEMMA ScanNumberKeeps ==
  ASSUME ScanInv, ScanNumber
  PROVE  ScanInv'
  <1> DEFINE c == NextChar
             sb == frame.sb
  <1>1. frame.in = "number" /\ frame \in Frames /\ ~Between
    BY DEF ScanNumber, ScanInv, Between
  <1>2. sb \in Seq(Character) /\ frame.at \in Nat /\ frame.negative \in BOOLEAN
        /\ "Number" \in TokenKind /\ frame.at \in tokenStart + 1..index
        /\ tokenStart \in 0..index /\ index \in 0..Length /\ Length \in Nat
    BY <1>1, FrameIs, TextIs DEF TokenKind, ScanInv, CursorInv
  <1>3. CASE AtEom
    <2>1. EndToken("Number", sb, index) /\ index \in tokenStart..Length
      BY <1>1, <1>2, <1>3 DEF ScanNumber
    <2> QED
      BY <1>1, <1>2, <2>1, EndKeeps
  <1>4. CASE ~AtEom
    <2>1. /\ index \in Nat /\ index + 1 \in tokenStart + 1..Length /\ index < Length
          /\ index + 1 \in tokenStart..Length
          /\ frame.at \in tokenStart + 1..index + 1
      BY <1>2, <1>4, NextIs
    <2>2. CASE c \in Digit \union {"."}
      <3>1. Continue(IF c = "." /\ Contains(sb, ".") THEN Generic(sb)
                     ELSE [frame EXCEPT !.sb = Append(sb, c)])
        BY <1>4, <2>2 DEF ScanNumber
      <3>2. Append(sb, c) \in Seq(Character)
        BY <1>2, <2>2 DEF Character
      <3> DEFINE next == [frame EXCEPT !.sb = Append(sb, c)]
      <3>3. Generic(sb) \in Frames /\ Generic(sb).in = "generic"
        BY <1>2, FramesBegin
      <3>4. next \in Frames /\ next.in = "number" /\ next.at = frame.at
        BY <1>1, <3>2, FrameIs
      <3> HIDE DEF next
      <3>5. CASE c = "." /\ Contains(sb, ".")
        <4>1. Continue(Generic(sb))
          BY <3>1, <3>5
        <4> QED
          BY <1>1, <2>1, <3>3, <4>1, MoveKeeps DEF Continue
      <3>6. CASE ~(c = "." /\ Contains(sb, "."))
        <4>1. Continue(next)
          BY <3>1, <3>6 DEF next
        <4> QED
          BY <1>1, <2>1, <3>4, <4>1, MoveKeeps DEF Continue
      <3> QED
        BY <3>5, <3>6
    <2>3. CASE c \notin Digit \union {"."} /\ c \in Blank
      <3>1. EndToken("Number", sb, index + 1)
        BY <1>4, <2>3 DEF ScanNumber
      <3> QED
        BY <1>1, <1>2, <2>1, <3>1, EndKeeps
    <2>4. CASE c \notin Digit \union {"."} /\ c \notin Blank
      <3>1. CASE ~frame.negative
        <4>1. Continue(Generic(sb))
          BY <1>4, <2>4, <3>1 DEF ScanNumber
        <4>2. Generic(sb) \in Frames /\ Generic(sb).in = "generic"
          BY <1>2, FramesBegin
        <4> QED
          BY <1>1, <2>1, <4>1, <4>2, MoveKeeps DEF Continue
      <3>2. CASE frame.negative /\ c \notin Identifier
        <4>1. Continue(frame)
          BY <1>4, <2>4, <3>2 DEF ScanNumber
        <4> QED
          BY <1>1, <2>1, <4>1, MoveKeeps DEF Continue
      <3>3. CASE frame.negative /\ c \in Identifier
        <4> DEFINE to == IF CharAt(frame.at + 1) = "-" THEN frame.at + 1 ELSE frame.at
        <4>1. Resync(to, Parameter(<<>>))
          BY <1>4, <2>4, <3>3 DEF ScanNumber
        <4>2. to \in tokenStart + 1..Length
          <5>1. CASE CharAt(frame.at + 1) = "-"
            <6>1. "-" \in Character /\ frame.at + 1 \in Nat
              BY <1>2 DEF Character
            <6>2. frame.at + 1 < Length
              BY <5>1, <6>1, CharIs DEF ScanInv
            <6> QED
              BY <1>2, <5>1, <6>2
          <5>2. CASE CharAt(frame.at + 1) # "-"
            BY <1>2, <5>2
          <5> QED
            BY <5>1, <5>2
        <4> HIDE DEF to
        <4>3. Parameter(<<>>) \in Frames /\ Parameter(<<>>).in = "parameter"
          <5>1. <<>> \in Seq(Character)
            OBVIOUS
          <5> QED
            BY <5>1, FramesBegin
        <4> QED
          BY <1>1, <4>1, <4>2, <4>3, MoveKeeps DEF Resync
      <3> QED
        BY <3>1, <3>2, <3>3
    <2> QED
      BY <2>2, <2>3, <2>4
  <1> QED
    BY <1>3, <1>4

LEMMA ScanParameterKeeps ==
  ASSUME ScanInv, ScanParameter
  PROVE  ScanInv'
  <1> DEFINE c == NextChar
             sb == frame.sb
  <1>1. frame.in = "parameter" /\ frame \in Frames /\ ~Between
    BY DEF ScanParameter, ScanInv, Between
  <1>2. sb \in Seq(Character) /\ "Generic" \in TokenKind
        /\ tokenStart \in 0..index /\ index \in 0..Length /\ Length \in Nat
    BY <1>1, FrameIs, TextIs DEF TokenKind, ScanInv, CursorInv
  <1>3. CASE AtEom
    <2>1. EndToken("Generic", sb, index) /\ index \in tokenStart..Length
      BY <1>1, <1>2, <1>3 DEF ScanParameter
    <2> QED
      BY <1>1, <1>2, <2>1, EndKeeps
  <1>4. CASE ~AtEom
    <2>1. index \in Nat /\ index + 1 \in tokenStart + 1..Length
          /\ index + 1 \in tokenStart..Length
      BY <1>2, <1>4, NextIs
    <2>2. CASE c \in Blank
      <3>1. Continue(Top)
        BY <1>4, <2>2 DEF ScanParameter
      <3>2. Top \in Frames /\ Top.in = "top"
        BY DEF Frames, Top
      <3> QED
        BY <1>1, <2>1, <3>1, <3>2, MoveKeeps DEF Continue
    <2>3. CASE c \notin Blank /\ c \in Identifier
      <3>1. Continue(Parameter(Append(sb, c)))
        BY <1>4, <2>3 DEF ScanParameter
      <3>2. Append(sb, c) \in Seq(Character)
        BY <1>2, <2>3 DEF Character
      <3>3. Parameter(Append(sb, c)) \in Frames /\ Parameter(Append(sb, c)).in = "parameter"
        BY <3>2, FramesBegin
      <3> QED
        BY <1>1, <2>1, <3>1, <3>3, MoveKeeps DEF Continue
    <2>4. CASE c \notin Blank /\ c \notin Identifier
      <3>1. EndToken("Generic", sb, index + 1)
        BY <1>4, <2>4 DEF ScanParameter
      <3> QED
        BY <1>1, <1>2, <2>1, <3>1, EndKeeps
    <2> QED
      BY <2>2, <2>3, <2>4
  <1> QED
    BY <1>3, <1>4

LEMMA ScanStringKeeps ==
  ASSUME ScanInv, ScanString
  PROVE  ScanInv'
  <1>1. frame.in = "string" /\ frame \in Frames /\ ~Between
    BY DEF ScanString, ScanInv, Between
  <1>2. frame.sb \in Seq(Character) /\ "StringLiteral" \in TokenKind
        /\ tokenStart \in Nat /\ index \in 0..Length /\ Length \in Nat /\ tokenStart < index
        /\ tokenStart + 1 < Length
    BY <1>1, FrameIs, TextIs DEF TokenKind, ScanInv, CursorInv
  <1>3. CASE AtEom
    <2>1. Resync(tokenStart + 1, Generic(<<CharAt(tokenStart + 1)>>))
      BY <1>1, <1>3 DEF ScanString
    <2>2. tokenStart + 1 \in tokenStart + 1..Length
      BY <1>2
    <2>3. CharAt(tokenStart + 1) \in Character
      BY <1>2, CharIs DEF ScanInv
    <2>4. <<CharAt(tokenStart + 1)>> \in Seq(Character)
      BY <2>3
    <2>5. /\ Generic(<<CharAt(tokenStart + 1)>>) \in Frames
          /\ Generic(<<CharAt(tokenStart + 1)>>).in = "generic"
      BY <2>4, FramesBegin
    <2> QED
      BY <1>1, <2>1, <2>2, <2>5, MoveKeeps DEF Resync
  <1>4. CASE ~AtEom
    <2>1. index \in Nat /\ index + 1 \in tokenStart + 1..Length
          /\ index + 1 \in tokenStart..Length /\ NextChar \in CharacterOrNone
      BY <1>2, <1>4, NextIs
    <2>2. CASE NextChar = frame.quote
      <3>1. EndToken("StringLiteral", frame.sb, index + 1)
        BY <1>4, <2>2 DEF ScanString
      <3> QED
        BY <1>1, <1>2, <2>1, <3>1, EndKeeps
    <2>3. CASE NextChar # frame.quote
      <3> DEFINE next == [frame EXCEPT !.sb = Add(frame.sb, NextChar)]
      <3>1. Continue(next)
        BY <1>4, <2>3 DEF ScanString
      <3>2. Add(frame.sb, NextChar) \in Seq(Character)
        BY <1>2, <2>1, AddIs
      <3>3. next \in Frames /\ next.in = "string"
        BY <1>1, <3>2, FrameIs
      <3> HIDE DEF next
      <3> QED
        BY <1>1, <1>2, <2>1, <3>1, <3>3, MoveKeeps DEF Continue
    <2> QED
      BY <2>2, <2>3
  <1> QED
    BY <1>3, <1>4

LEMMA ScanCodeBlockKeeps ==
  ASSUME ScanInv, ScanCodeBlock
  PROVE  ScanInv'
  <1> DEFINE text == Add(frame.sb, NextChar)
  <1>1. frame.in = "codeBlock" /\ frame \in Frames /\ ~Between
    BY DEF ScanCodeBlock, ScanInv, Between
  <1>2. frame.sb \in Seq(Character) /\ "CodeBlock" \in TokenKind
        /\ tokenStart \in Nat /\ index \in 0..Length /\ Length \in Nat /\ tokenStart < index
    BY <1>1, FrameIs, TextIs DEF TokenKind, ScanInv, CursorInv
  <1>3. CASE AtEom
    <2>1. Resync(index, Generic(frame.sb)) /\ index \in tokenStart + 1..Length
      BY <1>1, <1>2, <1>3 DEF ScanCodeBlock
    <2>2. Generic(frame.sb) \in Frames /\ Generic(frame.sb).in = "generic"
      BY <1>2, FramesBegin
    <2> QED
      BY <1>1, <2>1, <2>2, MoveKeeps DEF Resync
  <1>4. CASE ~AtEom
    <2>1. index \in Nat /\ index + 1 \in tokenStart + 1..Length
          /\ NextChar \in CharacterOrNone
      BY <1>4, NextIs
    <2>2. text \in Seq(Character)
      BY <1>2, <2>1, AddIs
    <2>3. CASE NextChar = "tick" /\ IsCodeBlockPattern(index + 1)
      <3>1. EndToken("CodeBlock", frame.sb \o <<"tick", "tick">>, index + 3)
        BY <1>4, <2>3 DEF ScanCodeBlock
      <3>2. index + 1 + 2 < Length /\ index + 1 \in Nat
        BY <2>1, <2>3, PatternIs DEF ScanInv
      <3>3. index + 3 \in tokenStart..Length
        BY <1>2, <2>1, <3>2
      <3>4. <<"tick", "tick">> \in Seq(Character)
        BY DEF Character
      <3>5. frame.sb \o <<"tick", "tick">> \in Seq(Character)
        BY <1>2, <3>4, ConcatProperties
      <3> QED
        BY <1>1, <1>2, <3>1, <3>3, <3>5, EndKeeps
    <2>4. CASE ~(NextChar = "tick" /\ IsCodeBlockPattern(index + 1))
      <3>1. Continue(CodeBlock(text))
        BY <1>4, <2>4 DEF ScanCodeBlock
      <3>2. CodeBlock(text) \in Frames /\ CodeBlock(text).in = "codeBlock"
        BY <2>2, FramesBegin
      <3> QED
        BY <1>1, <2>1, <3>1, <3>2, MoveKeeps DEF Continue
    <2> QED
      BY <2>3, <2>4
  <1> QED
    BY <1>3, <1>4

\* The tokens of a mention inside of a generic token.
InnerMention == CommandToken(frame.kind, Joined(Append(frame.sb, ">")), tokenStart, index + 1)

BeforeMention == CommandToken("Generic", Joined(frame.outer), tokenStart, frame.at - 1)

\* The mention is closed inside of a generic token.
ClosesInside == MentionEnds(frame, NextChar) /\ frame.outer # None

\* Two tokens that are saved are the last two.
LEMMA TwoAppended ==
  ASSUME NEW S, NEW s \in Seq(S), NEW a \in S, NEW b \in S
  PROVE  /\ s \o <<a, b>> \in Seq(S) /\ s \o <<a, b>> # <<>>
         /\ Len(s \o <<a, b>>) = Len(s) + 2 /\ Len(s) \in Nat
         /\ (s \o <<a, b>>)[Len(s) + 1] = a /\ (s \o <<a, b>>)[Len(s) + 2] = b
         /\ \A i \in 1..Len(s) : (s \o <<a, b>>)[i] = s[i]
  <1>1. <<a, b>> \in Seq(S) /\ Len(<<a, b>>) = 2 /\ <<a, b>>[1] = a /\ <<a, b>>[2] = b
    OBVIOUS
  <1>2. Len(s) \in Nat
    OBVIOUS
  <1> DEFINE t == s \o <<a, b>>
  <1>3. /\ t \in Seq(S) /\ Len(t) = Len(s) + 2
        /\ \A i \in 1..Len(s) + 2 :
                t[i] = IF i <= Len(s) THEN s[i] ELSE <<a, b>>[i - Len(s)]
    BY <1>1, ConcatProperties
  <1> HIDE DEF t
  <1>4. t[Len(s) + 1] = a /\ t[Len(s) + 2] = b /\ \A i \in 1..Len(s) : t[i] = s[i]
    <2>1. Len(s) + 1 \in 1..Len(s) + 2 /\ Len(s) + 2 \in 1..Len(s) + 2
          /\ Len(s) + 1 - Len(s) = 1 /\ Len(s) + 2 - Len(s) = 2
          /\ ~(Len(s) + 1 <= Len(s)) /\ ~(Len(s) + 2 <= Len(s))
      BY <1>2
    <2>2. \A i \in 1..Len(s) : i \in 1..Len(s) + 2 /\ i <= Len(s)
      BY <1>2
    <2> QED
      BY <1>1, <1>3, <2>1, <2>2
  <1>5. t # <<>>
    BY <1>2, <1>3
  <1> QED
    BY <1>2, <1>3, <1>4, <1>5 DEF t

\* A mention that is closed has a kind and a place after the start of the token.
LEMMA ClosedMention ==
  ASSUME ScanInv, frame.in = "mention", ~AtEom, MentionEnds(frame, NextChar)
  PROVE  /\ frame.kind \in TokenKind /\ frame.kind \in MentionKind \union {"Emote"}
         /\ Append(frame.sb, ">") \in Seq(Character)
         /\ index + 1 \in tokenStart..Length
         /\ ClosesInside => /\ InnerMention \in SavedToken /\ BeforeMention \in SavedToken
                            /\ InnerMention.from = tokenStart /\ InnerMention.to = index + 1
                            /\ InnerMention.kind = frame.kind
                            /\ BeforeMention.from = tokenStart
                            /\ BeforeMention.to = frame.at - 1
                            /\ BeforeMention.kind = "Generic"
                            /\ frame.at - 1 \in tokenStart + 1..Length
                            /\ frame.outer \in Seq(Character)
  <1>1. frame \in Mentions /\ frame \in Frames
    BY FrameIs DEF ScanInv
  <1>2. frame.kind # None
    BY DEF MentionEnds
  <1>3. /\ frame.kind \in MentionKind \union {"Emote", None} /\ frame.at \in Nat
        /\ frame.sb \in Seq(Character) /\ frame.outer \in Seq(Character) \union {None}
    BY <1>1 DEF Mentions
  <1>4. ">" \in Character
    BY DEF Character
  <1>5. Append(frame.sb, ">") \in Seq(Character)
    BY <1>3, <1>4
  <1>6. index \in Nat /\ index + 1 \in tokenStart..Length /\ tokenStart \in Nat
        /\ Length \in Nat /\ index < Length
    BY NextIs
  <1>7. ASSUME ClosesInside
        PROVE  /\ InnerMention \in SavedToken /\ BeforeMention \in SavedToken
               /\ InnerMention.from = tokenStart /\ InnerMention.to = index + 1
               /\ InnerMention.kind = frame.kind
               /\ BeforeMention.from = tokenStart
               /\ BeforeMention.to = frame.at - 1
               /\ BeforeMention.kind = "Generic"
               /\ frame.at - 1 \in tokenStart + 1..Length
               /\ frame.outer \in Seq(Character)
    <2>1. frame.outer \in Seq(Character)
      BY <1>3, <1>7 DEF ClosesInside
    <2>2. frame.at - 1 \in tokenStart + 1..Length /\ frame.at - 1 \in Nat
      BY <1>3, <1>6, <1>7 DEF ClosesInside, ScanInv, CursorInv
    <2>3. /\ Joined(Append(frame.sb, ">")) \in Seq(Character \union {"comma"})
          /\ Joined(frame.outer) \in Seq(Character \union {"comma"})
      BY <1>5, <2>1, JoinedIs
    <2>4. frame.kind \in TokenKind /\ "Generic" \in TokenKind /\ index + 1 \in Nat
      BY <1>2, <1>3, <1>6 DEF TokenKind
    <2> QED
      BY <1>6, <2>1, <2>2, <2>3, <2>4
         DEF InnerMention, BeforeMention, CommandToken, SavedToken
  <1> QED
    BY <1>2, <1>3, <1>5, <1>6, <1>7 DEF TokenKind

LEMMA ScanMentionKeeps ==
  ASSUME ScanInv, ScanMention
  PROVE  ScanInv'
  <1>1. frame.in = "mention" /\ frame \in Frames /\ ~Between /\ frame \in Mentions
    BY FrameIs DEF ScanMention, ScanInv, Between
  <1>2. /\ tokenStart \in Nat /\ index \in 0..Length /\ Length \in Nat
        /\ frame.at \in tokenStart + 1..index
        /\ frame.outer # None => frame.at >= tokenStart + 2
        /\ frame.outer \in Seq(Character) \union {None}
    BY <1>1, TextIs DEF ScanInv, CursorInv, Mentions
  <1>3. CASE GiveUpMention
    <2> DEFINE next == IF frame.outer = None THEN Generic(<<"<">>) ELSE Generic(frame.outer)
    <2>1. Resync(frame.at, next) /\ frame.at \in tokenStart + 1..Length
      BY <1>2, <1>3 DEF GiveUpMention
    <2>2. <<"<">> \in Seq(Character)
      BY DEF Character
    <2>3. next \in Frames /\ next.in = "generic"
      BY <1>2, <2>2, FramesBegin
    <2> HIDE DEF next
    <2> QED
      BY <1>1, <2>1, <2>3, MoveKeeps DEF Resync
  <1>4. CASE ~GiveUpMention /\ ~MentionEnds(frame, NextChar)
    <2> DEFINE next == MentionStep(frame, NextChar)
    <2>1. Continue(next) /\ next # None /\ ~AtEom
      BY <1>4 DEF ScanMention
    <2>2. index \in Nat /\ index + 1 \in tokenStart + 1..Length
          /\ NextChar \in CharacterOrNone
      BY <2>1, NextIs
    <2>3. /\ next \in Frames /\ next.at = frame.at /\ next.outer = frame.outer
          /\ next.in = "mention"
      BY <1>1, <2>1, <2>2, MentionGoesOn
    <2>4. next.at \in tokenStart + 1..index + 1
      BY <1>2, <2>2, <2>3
    <2> HIDE DEF next
    <2> QED
      BY <1>1, <1>2, <2>1, <2>2, <2>3, <2>4, MoveKeeps DEF Continue
  <1>5. CASE ~GiveUpMention /\ MentionEnds(frame, NextChar) /\ frame.outer = None
    <2>1. EndToken(frame.kind, Append(frame.sb, ">"), index + 1) /\ ~AtEom
      BY <1>5 DEF ScanMention
    <2> QED
      BY <1>1, <1>5, <2>1, ClosedMention, EndKeeps
  <1>6. CASE ~GiveUpMention /\ ClosesInside
    <2>1. /\ ~AtEom /\ index' = frame.at - 1 /\ frame' = Generic(frame.outer)
          /\ scanned' = IF Len(scanned) < MaxTokens
                        THEN scanned \o <<InnerMention, BeforeMention>> ELSE scanned
          /\ UNCHANGED <<message, tokenStart>>
      BY <1>6 DEF ScanMention, InnerMention, BeforeMention, ClosesInside
    <2>2. /\ InnerMention \in SavedToken /\ BeforeMention \in SavedToken
          /\ InnerMention.from = tokenStart /\ InnerMention.to = index + 1
          /\ BeforeMention.from = tokenStart /\ BeforeMention.to = frame.at - 1
          /\ frame.at - 1 \in tokenStart + 1..Length /\ index + 1 \in tokenStart..Length
          /\ frame.outer \in Seq(Character)
      BY <1>1, <1>6, <2>1, ClosedMention DEF ClosesInside
    <2>3. frame' \in Frames /\ frame'.in = "generic"
      BY <2>1, <2>2, FramesBegin
    <2>4. Length' = Length
      BY <2>1, TextStays
    <2>5. CursorInv'
      BY <1>2, <2>1, <2>2, <2>3, <2>4 DEF CursorInv, Between, Done
    <2>6. /\ scanned' \in Seq(SavedToken) /\ scanned' # <<>>
          /\ \A i \in DOMAIN scanned' :
                scanned'[i].from <= scanned'[i].to /\ scanned'[i].to <= Length
      <3>1. CASE Len(scanned) < MaxTokens
        <4>1. scanned \in Seq(SavedToken)
          BY DEF ScanInv
        <4>2. /\ scanned' \in Seq(SavedToken) /\ scanned' # <<>>
              /\ Len(scanned') = Len(scanned) + 2 /\ Len(scanned) \in Nat
              /\ scanned'[Len(scanned) + 1] = InnerMention
              /\ scanned'[Len(scanned) + 2] = BeforeMention
              /\ \A i \in 1..Len(scanned) : scanned'[i] = scanned[i]
          BY <2>1, <2>2, <3>1, <4>1, TwoAppended
        <4>3. ASSUME NEW i \in DOMAIN scanned'
              PROVE  scanned'[i].from <= scanned'[i].to /\ scanned'[i].to <= Length
          <5>1. i \in 1..Len(scanned) + 2
            BY <4>2, <4>3
          <5>2. CASE i \in 1..Len(scanned)
            <6>1. i \in DOMAIN scanned
              BY <4>1, <5>2
            <6> QED
              BY <4>2, <5>2, <6>1 DEF ScanInv
          <5>3. CASE i = Len(scanned) + 1
            BY <1>2, <2>2, <4>2, <5>3
          <5>4. CASE i = Len(scanned) + 2
            BY <1>2, <2>2, <4>2, <5>4
          <5> QED
            BY <4>2, <5>1, <5>2, <5>3, <5>4
        <4> QED
          BY <4>2, <4>3
      <3>2. CASE ~(Len(scanned) < MaxTokens)
        BY <2>1, <3>2 DEF ScanInv
      <3> QED
        BY <3>1, <3>2
    <2> QED
      BY <2>1, <2>3, <2>4, <2>5, <2>6 DEF ScanInv
  <1> QED
    BY <1>3, <1>4, <1>5, <1>6 DEF ClosesInside

LEMMA ScanGenericKeeps ==
  ASSUME ScanInv, ScanGeneric
  PROVE  ScanInv'
  <1> DEFINE c == NextChar
             sb == frame.sb
  <1>1. frame.in = "generic" /\ frame \in Frames /\ ~Between
    BY DEF ScanGeneric, ScanInv, Between
  <1>2. sb \in Seq(Character) /\ "Generic" \in TokenKind
        /\ tokenStart \in Nat /\ index \in 0..Length /\ Length \in Nat /\ tokenStart < index
        /\ index \in tokenStart..Length
    BY <1>1, FrameIs, TextIs DEF TokenKind, ScanInv, CursorInv
  <1>3. CASE EndToken("Generic", sb, index)
    BY <1>1, <1>2, <1>3, EndKeeps
  <1>4. CASE ~AtEom
    <2>1. index \in Nat /\ index + 1 \in tokenStart + 1..Length /\ c \in CharacterOrNone
          /\ index + 1 \in tokenStart..Length /\ index + 1 \in tokenStart + 1..index + 1
          /\ index + 1 >= tokenStart + 2
      BY <1>2, <1>4, NextIs
    <2>2. CASE EndToken("Generic", sb, index + 1)
      BY <1>1, <1>2, <2>1, <2>2, EndKeeps
    <2>3. CASE Continue(Mention(index + 1, sb))
      <3>1. index + 1 \in Nat
        BY <2>1
      <3>2. /\ Mention(index + 1, sb) \in Frames /\ Mention(index + 1, sb).in = "mention"
            /\ Mention(index + 1, sb).at = index + 1
        BY <1>2, <3>1, MentionBegins
      <3> QED
        BY <1>1, <2>1, <2>3, <3>2, MoveKeeps DEF Continue
    <2>4. CASE Continue(frame)
      BY <1>1, <2>1, <2>4, MoveKeeps DEF Continue
    <2>5. CASE Continue(Generic(Add(sb, c)))
      <3>1. Add(sb, c) \in Seq(Character)
        BY <1>2, <2>1, AddIs
      <3>2. Generic(Add(sb, c)) \in Frames /\ Generic(Add(sb, c)).in = "generic"
        BY <3>1, FramesBegin
      <3> QED
        BY <1>1, <2>1, <2>5, <3>2, MoveKeeps DEF Continue
    <2> QED
      BY <1>3, <1>4, <2>2, <2>3, <2>4, <2>5 DEF ScanGeneric
  <1> QED
    BY <1>3, <1>4 DEF ScanGeneric

LEMMA DoneKeeps ==
  ASSUME ScanInv, TokenizingDone
  PROVE  ScanInv'
  <1>1. frame = Top /\ AtEom /\ frame' = [in |-> "done"]
        /\ UNCHANGED <<message, index, tokenStart, scanned>>
    BY DEF TokenizingDone
  <1>2. Length' = Length
    BY <1>1, TextStays
  <1>3. frame' \in Frames /\ frame'.in = "done"
    BY <1>1 DEF Frames
  <1>4. CursorInv'
    BY <1>1, <1>2, <1>3 DEF ScanInv, CursorInv, Between, Done, AtEom
  <1> QED
    BY <1>1, <1>2, <1>3, <1>4 DEF ScanInv

\* The prefix is a part of the message.
LEMMA ScanInvInit == TokenizerInit => ScanInv
  <1> SUFFICES ASSUME TokenizerInit PROVE ScanInv
    OBVIOUS
  <1>1. message \in Message /\ index = message.prefix /\ tokenStart = 0 /\ frame = Top
    BY DEF TokenizerInit
  <1>2. Length \in Nat /\ message.text \in Seq(Character) /\ message.prefix \in 0..Length
        /\ Length = Len(message.text)
    BY <1>1, TextIs DEF Length
  <1>3. frame \in Frames /\ CursorInv
    BY <1>1, <1>2 DEF CursorInv, Between, Done, Frames, Top
  <1> DEFINE text == SubSeq(message.text, 1, message.prefix)
             t == CommandToken("Prefix", text, 0, message.prefix)
  <1>4. text \in Seq(Character \union {"comma"})
    <2>1. \A i \in 1..message.prefix : message.text[i] \in Character \union {"comma"}
      BY <1>2
    <2> QED
      BY <1>2, <2>1, SubSeqProperties
  <1>5. t \in SavedToken /\ t.from <= t.to /\ t.to <= Length
    <2> HIDE DEF text
    <2> QED
      BY <1>2, <1>4 DEF CommandToken, SavedToken, TokenKind
  <1> HIDE DEF text
  <1>6. scanned = <<t>>
    BY DEF TokenizerInit, text
  <1> HIDE DEF t
  <1>7. scanned \in Seq(SavedToken) /\ scanned # <<>> /\ DOMAIN scanned = {1} /\ scanned[1] = t
    BY <1>5, <1>6
  <1> QED
    BY <1>1, <1>3, <1>5, <1>7 DEF ScanInv

\* Every step keeps the invariant of the scanners.
LEMMA ScanInvNext == ScanInv /\ [Tokenize]_tokenizerVars => ScanInv'
  <1> SUFFICES ASSUME ScanInv, [Tokenize]_tokenizerVars PROVE ScanInv'
    OBVIOUS
  <1>1. CASE Tokenize
    BY <1>1, SkipBlankKeeps, BeginNumberKeeps, BeginStringKeeps, BeginBacktickKeeps,
       BeginMentionKeeps, BeginDashKeeps, BeginGenericKeeps, ScanNumberKeeps,
       ScanParameterKeeps, ScanStringKeeps, ScanCodeBlockKeeps, ScanMentionKeeps,
       ScanGenericKeeps, DoneKeeps DEF Tokenize
  <1>2. CASE UNCHANGED tokenizerVars
    BY <1>2 DEF tokenizerVars, ScanInv, CursorInv, Between, Done, Length
  <1> QED
    BY <1>1, <1>2

\* The invariant of the scanners holds throughout.
LEMMA ScanInvariant == TokenizerSpec => []ScanInv
  BY ScanInvInit, ScanInvNext, PTL DEF TokenizerSpec

\* The cursor stays in the text, for any message: the end is found by equality of
\* the two, so that a scanner that reads past it would never stop (`atEom`).
THEOREM TokenizerTypes == TokenizerSpec => []TokenizerTypeOK
  <1>1. ScanInv => TokenizerTypeOK
    <2> SUFFICES ASSUME ScanInv PROVE TokenizerTypeOK
      OBVIOUS
    <2>1. ASSUME NEW i \in DOMAIN scanned
          PROVE  /\ scanned[i].kind \in TokenKind
                 /\ 0 <= scanned[i].from /\ scanned[i].from <= scanned[i].to
                 /\ scanned[i].to <= Length
      <3>1. scanned[i] \in SavedToken
        BY <2>1 DEF ScanInv
      <3> QED
        BY <2>1, <3>1 DEF ScanInv, SavedToken
    <2> QED
      BY <2>1, FrameIs DEF ScanInv, CursorInv, TokenizerTypeOK
  <1> QED
    BY <1>1, ScanInvariant, PTL

------------------------------------------------------------------------------
(* Strings *)

\* A scanner is continued by its own steps only.
LEMMA RunningScanner ==
  ASSUME Tokenize
  PROVE  /\ frame.in = "string" => ScanString
         /\ frame.in = "generic" => ScanGeneric
         /\ frame.in = "mention" => ScanMention
         /\ frame.in # "done"
  <1>1. \/ SkipBlank \/ BeginNumber \/ BeginString \/ BeginBacktick \/ BeginMention
        \/ BeginDash \/ BeginGeneric \/ TokenizingDone
        => frame.in = "top"
    <2>1. ASSUME NEW cs, Begin(cs)
          PROVE  frame.in = "top"
      BY <2>1 DEF Begin, Top
    <2>2. TokenizingDone => frame.in = "top"
      BY DEF TokenizingDone, Top
    <2> QED
      BY <2>1, <2>2 DEF SkipBlank, BeginNumber, BeginString, BeginBacktick, BeginMention,
                        BeginDash, BeginGeneric
  <1>2. /\ ScanNumber => frame.in = "number"
        /\ ScanParameter => frame.in = "parameter"
        /\ ScanString => frame.in = "string"
        /\ ScanCodeBlock => frame.in = "codeBlock"
        /\ ScanMention => frame.in = "mention"
        /\ ScanGeneric => frame.in = "generic"
    BY DEF ScanNumber, ScanParameter, ScanString, ScanCodeBlock, ScanMention, ScanGeneric
  <1> QED
    BY <1>1, <1>2 DEF Tokenize

\* Which steps leave a string behind: its opening quote, and another character.
LEMMA StringSteps ==
  ASSUME ScanInv, Tokenize, frame'.in = "string"
  PROVE  \/ BeginString \/ BeginBacktick
         \/ ScanString /\ ~AtEom /\ NextChar # frame.quote
  <1>1. CASE SkipBlank \/ BeginNumber \/ BeginMention \/ BeginDash \/ BeginGeneric
             \/ TokenizingDone
    BY <1>1 DEF SkipBlank, BeginNumber, BeginMention, BeginDash, BeginGeneric,
                TokenizingDone, Begin, Top, Number, Mention, Generic
  <1>2. CASE ScanNumber
    <2> DEFINE next == [frame EXCEPT !.sb = Append(frame.sb, NextChar)]
    <2>1. frame.in = "number" /\ next.in = "number"
      BY <1>2, FrameIs DEF ScanNumber, ScanInv
    <2>2. \/ frame' = Top \/ frame' = Generic(frame.sb) \/ frame' = next
          \/ frame' = frame \/ frame' = Parameter(<<>>)
      BY <1>2 DEF ScanNumber, EndToken, Continue, Resync
    <2> HIDE DEF next
    <2> QED
      BY <2>1, <2>2 DEF Top, Generic, Parameter
  <1>3. CASE ScanParameter
    BY <1>3 DEF ScanParameter, EndToken, Continue, Top, Parameter
  <1>4. CASE ScanCodeBlock
    BY <1>4 DEF ScanCodeBlock, EndToken, Continue, Resync, Top, Generic, CodeBlock
  <1>5. CASE ScanMention
    <2> DEFINE next == MentionStep(frame, NextChar)
    <2>1. frame \in Mentions
      BY <1>5, FrameIs DEF ScanMention, ScanInv
    <2>2. \/ frame' = Top \/ \E sb : frame' = Generic(sb)
          \/ ~AtEom /\ next # None /\ frame' = next
      BY <1>5 DEF ScanMention, EndToken, Continue, Resync, GiveUpMention
    <2>3. ~AtEom => NextChar \in CharacterOrNone
      BY NextIs
    <2>4. ~AtEom /\ next # None => next.in = "mention"
      BY <2>1, <2>3, MentionGoesOn
    <2> HIDE DEF next
    <2> QED
      BY <2>2, <2>4 DEF Top, Generic
  <1>6. CASE ScanGeneric
    BY <1>6 DEF ScanGeneric, EndToken, Continue, Top, Generic, Mention
  <1>7. CASE ScanString
    <2>1. CASE AtEom
      BY <1>7, <2>1 DEF ScanString, Resync, Generic
    <2>2. CASE ~AtEom /\ NextChar = frame.quote
      BY <1>7, <2>2 DEF ScanString, EndToken, Top
    <2> QED
      BY <1>7, <2>1, <2>2
  <1> QED
    BY <1>1, <1>2, <1>3, <1>4, <1>5, <1>6, <1>7 DEF Tokenize

LEMMA QuoteInvNext ==
  ASSUME ScanInv, QuoteInv, [Tokenize]_tokenizerVars
  PROVE  QuoteInv'
  <1> SUFFICES ASSUME frame'.in = "string"
               PROVE  \A i \in tokenStart' + 2..index' : CharAt(i)' # frame'.quote
    BY DEF QuoteInv
  <1>1. CASE UNCHANGED tokenizerVars
    BY <1>1 DEF tokenizerVars, QuoteInv, CharAt, Length
  <1>2. CASE BeginString \/ BeginBacktick
    <2>1. Begin(StringQuote \union {"tick"}) /\ ~AtEom
      BY <1>2 DEF BeginString, BeginBacktick, Begin
    <2>2. index \in Nat
      BY <2>1, NextIs
    <2>3. tokenStart' = index /\ index' = index + 1
      BY <1>2 DEF BeginString, BeginBacktick, Begin, CodeBlock
    <2> QED
      BY <2>2, <2>3
  <1>3. CASE ScanString /\ ~AtEom /\ NextChar # frame.quote
    <2>1. /\ index' = index + 1 /\ UNCHANGED <<message, tokenStart>>
          /\ frame' = [frame EXCEPT !.sb = Add(frame.sb, NextChar)]
          /\ frame.in = "string"
      BY <1>3 DEF ScanString, Continue
    <2>2. frame'.quote = frame.quote
      BY <2>1, FrameIs DEF ScanInv
    <2>3. \A i \in tokenStart + 2..index : CharAt(i) # frame.quote
      BY <2>1 DEF QuoteInv
    <2>4. index \in Nat /\ tokenStart \in Nat
      BY <1>3, NextIs
    <2>5. \A i \in tokenStart + 2..index + 1 : CharAt(i) # frame.quote
      BY <1>3, <2>3, <2>4 DEF NextChar
    <2> QED
      BY <2>1, <2>2, <2>5, TextStays
  <1> QED
    BY <1>1, <1>2, <1>3, StringSteps

\* A string is given up for a generic token only if its quote is nowhere in the
\* rest of the message (`scanStringIdentifier`).
THEOREM QuotesDecide == TokenizerSpec => ClosedQuotesAreStrings
  <1>1. TokenizerInit => QuoteInv
    BY DEF TokenizerInit, QuoteInv, Top
  <1>2. TokenizerSpec => []QuoteInv
    BY <1>1, QuoteInvNext, ScanInvariant, PTL DEF TokenizerSpec
  <1>3. ASSUME ScanInv, QuoteInv, [Tokenize]_tokenizerVars
        PROVE  [frame.in = "string" /\ frame'.in = "generic"
                => \A i \in tokenStart + 2..Length - 1 : CharAt(i) # frame.quote]_tokenizerVars
    <2> SUFFICES ASSUME Tokenize, frame.in = "string", frame'.in = "generic"
                 PROVE  \A i \in tokenStart + 2..Length - 1 : CharAt(i) # frame.quote
      BY <1>3
    <2>1. ScanString
      BY RunningScanner
    <2>2. AtEom
      <3>1. frame \in Frames
        BY <1>3 DEF ScanInv
      <3>2. CASE ~AtEom /\ NextChar = frame.quote
        BY <2>1, <3>2 DEF ScanString, EndToken, Top
      <3>3. CASE ~AtEom /\ NextChar # frame.quote
        <4>1. frame' = [frame EXCEPT !.sb = Add(frame.sb, NextChar)]
          BY <2>1, <3>3 DEF ScanString, Continue
        <4> QED
          BY <3>1, <4>1, FrameIs
      <3> QED
        BY <3>2, <3>3
    <2>3. index = Length /\ Length \in Nat
      BY <1>3, <2>2, TextIs DEF AtEom, ScanInv
    <2> QED
      BY <1>3, <2>3 DEF QuoteInv, ScanInv, CursorInv
  <1> QED
    BY <1>2, <1>3, ScanInvariant, PTL DEF TokenizerSpec, ClosedQuotesAreStrings

------------------------------------------------------------------------------
(* The order of the tokens *)

\* F are the mentions, one per character, from the bracket at `at` on.
Path(F, at, outer, n) ==
    /\ F \in [0..n -> Mentions] /\ F[0] = Mention(at, outer) /\ CharAt(at) = "<"
    /\ \A j \in 0..n : F[j].at = at /\ F[j].outer = outer
    /\ \A j \in 0..n - 1 :
        /\ ~MentionEnds(F[j], CharAt(at + j + 1))
        /\ MentionStep(F[j], CharAt(at + j + 1)) # None
        /\ F[j + 1] = MentionStep(F[j], CharAt(at + j + 1))

\* A mention is what its characters make of it.
PathInv ==
    frame.in = "mention" =>
        \E F : /\ Path(F, frame.at, frame.outer, index - frame.at)
               /\ F[index - frame.at] = frame

\* The scanner is in the loop over a mention that is closed inside of a generic
\* token: before its bracket, or at one of its characters.
LoopAt(F, at, outer, n) ==
    /\ at \in Nat /\ n \in Nat /\ outer \in Seq(Character) /\ outer # None
    /\ Path(F, at, outer, n)
    /\ MentionEnds(F[n], CharAt(at + n + 1))
    /\ \/ frame = Generic(outer) /\ index + 1 = at
       \/ \E j \in 0..n : index = at + j /\ frame = F[j]

InLoop == \E F, at, outer, n : LoopAt(F, at, outer, n)

LastSaved == scanned[Len(scanned)]

\* What may come behind the last token: one that begins where it ends or later,
\* or the mention that it is saved with, again.
TrailInv ==
    /\ TokensInOrder
    /\ Between => LastSaved.to <= index
    /\ ~Between => \/ LastSaved.to <= tokenStart
                   \/ LastSaved.from = tokenStart /\ LastSaved.kind = "Generic" /\ InLoop

\* The token b may be saved behind a.
Follows(a, b) ==
    b.from < a.to =>
        /\ b.from = a.from
        /\ {a.kind, b.kind} \in {{"Generic", k} : k \in MentionKind \union {"Emote"}}

\* The order of the tokens is kept by one that may follow the last.
LEMMA OrderAppended ==
  ASSUME scanned \in Seq(SavedToken), scanned # <<>>, TokensInOrder,
         NEW t \in SavedToken, Follows(LastSaved, t), scanned' = Append(scanned, t)
  PROVE  TokensInOrder' /\ LastSaved' = t
  <1>1. PICK n \in Nat \ {0} : n = Len(scanned)
    BY EmptySeq
  <1>2. /\ Len(scanned') = n + 1 /\ scanned'[n + 1] = t
        /\ \A i \in 1..n : scanned'[i] = scanned[i]
    BY <1>1, AppendIs
  <1>3. LastSaved' = t
    BY <1>2 DEF LastSaved
  <1>4. ASSUME NEW i \in 1..n
        PROVE  Follows(scanned'[i], scanned'[i + 1])
    <2>1. CASE i = n
      BY <1>1, <1>2, <2>1 DEF LastSaved
    <2>2. CASE i # n
      <3>1. i \in 1..n - 1 /\ i + 1 \in 1..n
        BY <1>1, <2>2
      <3>2. Follows(scanned[i], scanned[i + 1])
        BY <1>1, <3>1 DEF TokensInOrder, Follows
      <3> QED
        BY <1>2, <3>1, <3>2
    <2> QED
      BY <2>1, <2>2
  <1>5. Len(scanned') - 1 = n
    BY <1>1, <1>2
  <1>6. TokensInOrder'
    BY <1>4, <1>5 DEF TokensInOrder, Follows
  <1> QED
    BY <1>3, <1>6

LEMMA OrderAppendedTwo ==
  ASSUME scanned \in Seq(SavedToken), scanned # <<>>, TokensInOrder,
         NEW a \in SavedToken, Follows(LastSaved, a),
         NEW b \in SavedToken, Follows(a, b), scanned' = scanned \o <<a, b>>
  PROVE  TokensInOrder' /\ LastSaved' = b
  <1>1. PICK n \in Nat \ {0} : n = Len(scanned)
    BY EmptySeq
  <1>2. /\ Len(scanned') = n + 2 /\ scanned'[n + 1] = a /\ scanned'[n + 2] = b
        /\ \A i \in 1..n : scanned'[i] = scanned[i]
    BY <1>1, TwoAppended
  <1>3. LastSaved' = b
    BY <1>2 DEF LastSaved
  <1>4. ASSUME NEW i \in 1..n + 1
        PROVE  Follows(scanned'[i], scanned'[i + 1])
    <2>1. CASE i = n
      BY <1>1, <1>2, <2>1 DEF LastSaved
    <2>2. CASE i = n + 1
      <3>1. i + 1 = n + 2
        BY <1>1, <2>2
      <3> QED
        BY <1>2, <2>2, <3>1
    <2>3. CASE i # n /\ i # n + 1
      <3>1. i \in 1..n - 1 /\ i + 1 \in 1..n /\ i \in 1..n
        BY <1>1, <2>3
      <3>2. Follows(scanned[i], scanned[i + 1])
        BY <1>1, <3>1 DEF TokensInOrder, Follows
      <3> QED
        BY <1>2, <3>1, <3>2
    <2> QED
      BY <2>1, <2>2, <2>3
  <1>5. Len(scanned') - 1 = n + 1
    BY <1>1, <1>2
  <1>6. TokensInOrder'
    BY <1>4, <1>5 DEF TokensInOrder, Follows
  <1> QED
    BY <1>3, <1>6

\* The path of a mention is extended by the next character.
LEMMA PathGrows ==
  ASSUME message \in Message,
         NEW F, NEW at \in Nat, NEW outer, NEW n \in Nat, Path(F, at, outer, n),
         ~MentionEnds(F[n], CharAt(at + n + 1)), MentionStep(F[n], CharAt(at + n + 1)) # None
  PROVE  \E G : Path(G, at, outer, n + 1) /\ G[n + 1] = MentionStep(F[n], CharAt(at + n + 1))
  <1> DEFINE next == MentionStep(F[n], CharAt(at + n + 1))
             G == [j \in 0..n + 1 |-> IF j <= n THEN F[j] ELSE next]
  <1>1. F \in [0..n -> Mentions] /\ n \in 0..n /\ 0 \in 0..n
    BY DEF Path
  <1>2. F[n] \in Mentions /\ F[n].at = at /\ F[n].outer = outer
    BY <1>1 DEF Path
  <1>3. CharAt(at + n + 1) \in CharacterOrNone
    BY CharIs
  <1>4. next \in Mentions /\ next.at = at /\ next.outer = outer
    BY <1>2, <1>3, MentionGoesOn
  <1> HIDE DEF next
  <1>5. ASSUME NEW j \in 0..n + 1
        PROVE  (IF j <= n THEN F[j] ELSE next) \in Mentions
    <2>1. j <= n => j \in 0..n
      OBVIOUS
    <2> QED
      BY <1>1, <1>4, <2>1
  <1>6. /\ G \in [0..n + 1 -> Mentions] /\ \A j \in 0..n : G[j] = F[j]
        /\ G[n + 1] = next
    BY <1>5
  <1> HIDE DEF G
  <1>7. G[0] = Mention(at, outer) /\ CharAt(at) = "<"
    BY <1>1, <1>6 DEF Path
  <1>8. ASSUME NEW j \in 0..n + 1
        PROVE  G[j].at = at /\ G[j].outer = outer
    <2>1. CASE j = n + 1
      BY <1>4, <1>6, <2>1
    <2>2. CASE j # n + 1
      <3>1. j \in 0..n
        BY <2>2
      <3> QED
        BY <1>6, <3>1 DEF Path
    <2> QED
      BY <2>1, <2>2
  <1>9. ASSUME NEW j \in 0..n
        PROVE  /\ ~MentionEnds(G[j], CharAt(at + j + 1))
               /\ MentionStep(G[j], CharAt(at + j + 1)) # None
               /\ G[j + 1] = MentionStep(G[j], CharAt(at + j + 1))
    <2>1. CASE j = n
      BY <1>1, <1>6, <2>1 DEF next
    <2>2. CASE j # n
      <3>1. j \in 0..n - 1 /\ j + 1 \in 0..n
        BY <2>2
      <3> QED
        BY <1>6, <3>1 DEF Path
    <2> QED
      BY <2>1, <2>2
  <1>10. n + 1 - 1 = n
    OBVIOUS
  <1>11. Path(G, at, outer, n + 1)
    BY <1>6, <1>7, <1>8, <1>9, <1>10 DEF Path
  <1> QED
    BY <1>6, <1>11 DEF next

LEMMA PathBegins ==
  ASSUME NEW at \in Nat, NEW outer \in Seq(Character) \union {None}, CharAt(at) = "<"
  PROVE  \E F : Path(F, at, outer, 0) /\ F[0] = Mention(at, outer)
  <1> DEFINE F == [j \in 0..0 |-> Mention(at, outer)]
  <1>1. /\ F \in [0..0 -> Mentions] /\ F[0] = Mention(at, outer)
        /\ \A j \in 0..0 : F[j].at = at /\ F[j].outer = outer
    BY MentionBegins
  <1>2. 0..0 - 1 = {}
    OBVIOUS
  <1> HIDE DEF F
  <1> QED
    BY <1>1, <1>2 DEF Path

LEMMA PathStays ==
  ASSUME UNCHANGED message, NEW F, NEW at, NEW outer, NEW n
  PROVE  /\ Path(F, at, outer, n)' <=> Path(F, at, outer, n)
         /\ MentionEnds(F[n], CharAt(at + n + 1))' <=> MentionEnds(F[n], CharAt(at + n + 1))
  <1>1. \A i : CharAt(i)' = CharAt(i)
    BY TextStays
  <1> QED
    BY <1>1 DEF Path, MentionEnds

\* Which steps leave a mention behind.
LEMMA MentionSteps ==
  ASSUME ScanInv, Tokenize, frame'.in = "mention"
  PROVE  /\ ~AtEom /\ index' = index + 1 /\ UNCHANGED message
         /\ \/ /\ NextChar = "<"
               /\ \E outer \in Seq(Character) \union {None} : frame' = Mention(index + 1, outer)
            \/ /\ frame \in Mentions
               /\ ~MentionEnds(frame, NextChar)
               /\ MentionStep(frame, NextChar) # None
               /\ frame' = MentionStep(frame, NextChar)
  <1>1. CASE BeginMention
    BY <1>1 DEF BeginMention, Begin
  <1>2. CASE ScanGeneric
    <2>1. frame.in = "generic" /\ frame.sb \in Seq(Character)
      BY <1>2, FrameIs DEF ScanGeneric, ScanInv
    <2>2. ~AtEom /\ NextChar = "<" /\ Continue(Mention(index + 1, frame.sb))
      BY <1>2, <2>1 DEF ScanGeneric, EndToken, Continue, Top, Generic
    <2> QED
      BY <2>1, <2>2 DEF Continue
  <1>3. CASE ScanMention
    <2>1. frame \in Mentions
      BY <1>3, FrameIs DEF ScanMention, ScanInv
    <2>2. /\ ~AtEom /\ ~MentionEnds(frame, NextChar)
          /\ MentionStep(frame, NextChar) # None /\ Continue(MentionStep(frame, NextChar))
      BY <1>3 DEF ScanMention, EndToken, Resync, GiveUpMention, Top, Generic
    <2> QED
      BY <2>1, <2>2 DEF Continue
  <1>4. CASE SkipBlank \/ BeginNumber \/ BeginString \/ BeginBacktick \/ BeginDash
             \/ BeginGeneric \/ TokenizingDone
    BY <1>4 DEF SkipBlank, BeginNumber, BeginString, BeginBacktick, BeginDash, BeginGeneric,
                TokenizingDone, Begin, Top, Number, Quoted, CodeBlock, Generic
  <1>5. CASE ScanNumber
    <2> DEFINE next == [frame EXCEPT !.sb = Append(frame.sb, NextChar)]
    <2>1. frame.in = "number" /\ next.in = "number"
      BY <1>5, FrameIs DEF ScanNumber, ScanInv
    <2>2. \/ frame' = Top \/ frame' = Generic(frame.sb) \/ frame' = next
          \/ frame' = frame \/ frame' = Parameter(<<>>)
      BY <1>5 DEF ScanNumber, EndToken, Continue, Resync
    <2> HIDE DEF next
    <2> QED
      BY <2>1, <2>2 DEF Top, Generic, Parameter
  <1>6. CASE ScanParameter
    BY <1>6 DEF ScanParameter, EndToken, Continue, Top, Parameter
  <1>7. CASE ScanCodeBlock
    BY <1>7 DEF ScanCodeBlock, EndToken, Continue, Resync, Top, Generic, CodeBlock
  <1>8. CASE ScanString
    <2> DEFINE next == [frame EXCEPT !.sb = Add(frame.sb, NextChar)]
    <2>1. next.in = "string"
      BY <1>8, FrameIs DEF ScanString, ScanInv
    <2>2. frame' = Top \/ (\E sb : frame' = Generic(sb)) \/ frame' = next
      BY <1>8 DEF ScanString, EndToken, Continue, Resync
    <2> HIDE DEF next
    <2> QED
      BY <2>1, <2>2 DEF Top, Generic
  <1> QED
    BY <1>1, <1>2, <1>3, <1>4, <1>5, <1>6, <1>7, <1>8 DEF Tokenize

\* The mentions of the path grow by a character with every step.
LEMMA PathInvNext ==
  ASSUME ScanInv, PathInv, [Tokenize]_tokenizerVars
  PROVE  PathInv'
  <1>1. CASE UNCHANGED tokenizerVars
    BY <1>1 DEF tokenizerVars, PathInv, Path, CharAt, Length
  <1>2. CASE Tokenize /\ frame'.in = "mention"
    <2>1. ~AtEom /\ index' = index + 1 /\ UNCHANGED message
      BY <1>2, MentionSteps
    <2>2. index \in Nat /\ NextChar = CharAt(index + 1) /\ message \in Message
      BY <2>1, NextIs DEF NextChar, ScanInv
    <2>3. CASE /\ NextChar = "<"
               /\ \E outer \in Seq(Character) \union {None} : frame' = Mention(index + 1, outer)
      <3>1. PICK outer \in Seq(Character) \union {None} : frame' = Mention(index + 1, outer)
        BY <2>3
      <3>2. PICK at \in Nat : at = index + 1
        BY <2>2
      <3>3. PICK F : Path(F, at, outer, 0) /\ F[0] = Mention(at, outer)
        BY <2>2, <2>3, <3>2, PathBegins
      <3>4. frame'.at = at /\ frame'.outer = outer /\ index' - frame'.at = 0
        BY <2>1, <3>1, <3>2, MentionBegins
      <3>5. Path(F, at, outer, 0)'
        BY <2>1, <3>3, PathStays
      <3> QED
        BY <3>1, <3>2, <3>3, <3>4, <3>5 DEF PathInv
    <2>4. CASE /\ frame \in Mentions
               /\ ~MentionEnds(frame, NextChar)
               /\ MentionStep(frame, NextChar) # None
               /\ frame' = MentionStep(frame, NextChar)
      <3>1. frame.in = "mention" /\ frame.at \in tokenStart + 1..index
        BY <2>4 DEF Mentions, ScanInv, CursorInv
      <3>2. PICK at \in Nat, outer \in Seq(Character) \union {None}, n \in Nat :
                at = frame.at /\ outer = frame.outer /\ n = index - frame.at
        <4>1. /\ frame.at \in Nat /\ tokenStart \in Nat
              /\ frame.outer \in Seq(Character) \union {None}
          BY <2>1, <2>4, NextIs DEF Mentions
        <4>2. index - frame.at \in Nat
          BY <2>2, <3>1, <4>1
        <4> QED
          BY <4>1, <4>2
      <3>3. PICK F : Path(F, at, outer, n) /\ F[n] = frame
        BY <3>1, <3>2 DEF PathInv
      <3>4. at + n + 1 = index + 1
        BY <2>2, <3>2
      <3>5. PICK G : Path(G, at, outer, n + 1) /\ G[n + 1] = frame'
        BY <2>2, <2>4, <3>3, <3>4, PathGrows
      <3>6. frame'.at = at /\ frame'.outer = outer
        BY <2>1, <2>4, <3>2, MentionGoesOn, NextIs
      <3>7. index' - frame'.at = n + 1
        BY <2>1, <2>2, <3>2, <3>6
      <3>8. Path(G, at, outer, n + 1)'
        BY <2>1, <3>5, PathStays
      <3> QED
        BY <3>5, <3>6, <3>7, <3>8 DEF PathInv
    <2> QED
      BY <1>2, <2>3, <2>4, MentionSteps
  <1>3. CASE Tokenize /\ frame'.in # "mention"
    BY <1>3 DEF PathInv
  <1> QED
    BY <1>1, <1>2, <1>3

\* What is done when a mention is closed inside of a generic token.
LEMMA InsideStep ==
  ASSUME ScanMention, ~AtEom, ClosesInside
  PROVE  /\ index' = frame.at - 1 /\ frame' = Generic(frame.outer)
         /\ scanned' = IF Len(scanned) < MaxTokens
                       THEN scanned \o <<InnerMention, BeforeMention>> ELSE scanned
         /\ UNCHANGED <<message, tokenStart>>
  BY DEF ScanMention, InnerMention, BeforeMention, ClosesInside

\* From the loop there is no way out.
LEMMA LoopStep ==
  ASSUME ScanInv, InLoop, Tokenize
  PROVE  /\ InLoop' /\ UNCHANGED tokenStart
         /\ \/ UNCHANGED scanned
            \/ ScanMention /\ ~AtEom /\ ClosesInside
  <1>1. PICK F, at, outer, n : LoopAt(F, at, outer, n)
    BY DEF InLoop
  <1>2. /\ at \in Nat /\ n \in Nat /\ outer \in Seq(Character) /\ outer # None
        /\ Path(F, at, outer, n) /\ MentionEnds(F[n], CharAt(at + n + 1))
        /\ message \in Message /\ index \in 0..Length /\ Length \in Nat
    BY <1>1, TextIs DEF LoopAt, ScanInv, CursorInv
  <1>3. at + n + 1 < Length
    <2>1. CharAt(at + n + 1) = ">" /\ ">" \in Character /\ at + n + 1 \in Nat
      BY <1>2 DEF MentionEnds, Character
    <2> QED
      BY <1>2, <2>1, CharIs
  <1>4. CASE frame = Generic(outer) /\ index + 1 = at
    <2>1. index \in Nat /\ ~AtEom /\ NextChar = "<"
      BY <1>2, <1>3, <1>4 DEF AtEom, NextChar, Path
    <2>2. frame.in = "generic" /\ frame.sb = outer
      BY <1>4 DEF Generic
    <2>3. Continue(Mention(at, outer))
      BY <1>4, <2>1, <2>2, RunningScanner DEF ScanGeneric, Blank, WhiteSpace, NewLine
    <2>4. F[0] = Mention(at, outer) /\ 0 \in 0..n
      BY <1>2 DEF Path
    <2>5. /\ UNCHANGED <<message, tokenStart, scanned>>
          /\ index' = at + 0 /\ frame' = F[0]
      BY <1>2, <1>4, <2>3, <2>4 DEF Continue
    <2>6. LoopAt(F, at, outer, n)'
      BY <1>2, <2>4, <2>5, PathStays DEF LoopAt
    <2> QED
      BY <2>5, <2>6 DEF InLoop
  <1>5. CASE \E j \in 0..n : index = at + j /\ frame = F[j]
    <2>1. PICK j \in 0..n : index = at + j /\ frame = F[j]
      BY <1>5
    <2>2. /\ frame \in Mentions /\ frame.in = "mention"
          /\ frame.at = at /\ frame.outer = outer
      BY <1>2, <2>1 DEF Path, Mentions
    <2>3. ScanMention /\ ~AtEom /\ NextChar = CharAt(at + j + 1)
      <3>1. ScanMention
        BY <2>2, RunningScanner
      <3>2. index # Length
        BY <1>2, <1>3, <2>1
      <3> QED
        BY <2>1, <3>1, <3>2 DEF AtEom, NextChar
    <2>4. CASE j = n
      <3>1. ClosesInside
        BY <1>2, <2>1, <2>2, <2>3, <2>4 DEF ClosesInside
      <3>2. index' = at - 1 /\ frame' = Generic(outer) /\ UNCHANGED <<message, tokenStart>>
        BY <2>2, <2>3, <3>1, InsideStep
      <3>3. index' + 1 = at
        BY <1>2, <3>2
      <3>4. LoopAt(F, at, outer, n)'
        BY <1>2, <3>2, <3>3, PathStays DEF LoopAt
      <3> QED
        BY <2>3, <3>1, <3>2, <3>4 DEF InLoop
    <2>5. CASE j # n
      <3>1. j \in 0..n - 1 /\ j + 1 \in 0..n
        BY <1>2, <2>5
      <3>2. /\ ~MentionEnds(frame, NextChar) /\ MentionStep(frame, NextChar) # None
            /\ F[j + 1] = MentionStep(frame, NextChar)
        BY <1>2, <2>1, <2>3, <3>1 DEF Path
      <3>3. Continue(F[j + 1])
        BY <2>3, <3>2 DEF ScanMention
      <3>4. /\ UNCHANGED <<message, tokenStart, scanned>>
            /\ index' = at + (j + 1) /\ frame' = F[j + 1]
        BY <1>2, <2>1, <3>3 DEF Continue
      <3>5. LoopAt(F, at, outer, n)'
        BY <1>2, <3>1, <3>4, PathStays DEF LoopAt
      <3> QED
        BY <3>4, <3>5 DEF InLoop
    <2> QED
      BY <2>4, <2>5
  <1> QED
    BY <1>1, <1>4, <1>5 DEF LoopAt

\* A token that begins is saved at once if it is a dash, and later otherwise.
LEMMA BetweenSteps ==
  ASSUME ScanInv, Tokenize, Between
  PROVE  /\ index' >= index
         /\ (tokenStart' = index \/ (frame'.in = "done" /\ index' = index))
         /\ \/ UNCHANGED scanned
            \/ \E t \in SavedToken : /\ scanned' = Append(scanned, t) /\ frame' = Top
                                     /\ t.from = index /\ t.to = index'
  <1>1. frame.in \in {"top", "done"} /\ index \in Nat
    BY TextIs DEF ScanInv, CursorInv, Between
  <1>2. CASE TokenizingDone
    BY <1>1, <1>2 DEF TokenizingDone
  <1>3. CASE SkipBlank \/ BeginNumber \/ BeginString \/ BeginMention \/ BeginGeneric
    <2>1. index' = index + 1 /\ tokenStart' = index /\ UNCHANGED scanned
      BY <1>3, Zenon
         DEF SkipBlank, BeginNumber, BeginString, BeginMention, BeginGeneric, Begin
    <2> QED
      BY <1>1, <2>1
  <1>4. CASE BeginBacktick
    BY <1>1, <1>4 DEF BeginBacktick, Begin
  <1>5. CASE BeginDash
    <2>1. tokenStart' = index
      BY <1>5 DEF BeginDash, Begin
    <2>2. CASE CharAt(index + 2) \in WhiteSpace
      <3> DEFINE t == CommandToken("Generic", <<"-">>, index, index + 1)
      <3>1. index' = index + 1 /\ frame' = Top /\ scanned' = Append(scanned, t)
        BY <1>5, <2>2 DEF BeginDash
      <3>2. <<"-">> \in Seq(Character \union {"comma"}) /\ "Generic" \in TokenKind
            /\ index + 1 \in Nat
        BY <1>1 DEF Character, TokenKind
      <3>3. t \in SavedToken /\ t.from = index /\ t.to = index + 1
        BY <1>1, <3>2 DEF SavedToken, CommandToken
      <3> HIDE DEF t
      <3> QED
        BY <1>1, <2>1, <3>1, <3>3
    <2>3. CASE CharAt(index + 2) \notin WhiteSpace
      BY <1>1, <1>5, <2>1, <2>3 DEF BeginDash
    <2> QED
      BY <2>2, <2>3
  <1>6. ~(ScanNumber \/ ScanParameter \/ ScanString \/ ScanCodeBlock \/ ScanMention
            \/ ScanGeneric)
    BY <1>1 DEF ScanNumber, ScanParameter, ScanString, ScanCodeBlock, ScanMention, ScanGeneric
  <1> QED
    BY <1>2, <1>3, <1>4, <1>5, <1>6 DEF Tokenize

\* A scanner saves the token that it has begun, as its last step.
LEMMA ScannerSteps ==
  ASSUME ScanInv, Tokenize, ~Between, ~(ScanMention /\ ~AtEom /\ ClosesInside)
  PROVE  /\ UNCHANGED <<message, tokenStart>>
         /\ \/ UNCHANGED scanned
            \/ \E t \in SavedToken : /\ scanned' = Append(scanned, t) /\ frame' = Top
                                     /\ t.from = tokenStart /\ t.to = index'
                                     /\ \E kind \in TokenKind, sb \in Seq(Character) :
                                            EndToken(kind, sb, index')
  <1>1. ScanInv'
    BY ScanInvNext
  <1>2. index' \in Nat /\ tokenStart \in Nat /\ frame \in Frames
    BY <1>1, TextIs DEF ScanInv, CursorInv
  <1> DEFINE Stays == UNCHANGED <<message, tokenStart, scanned>>
             Ends == \E kind \in TokenKind, sb \in Seq(Character) : EndToken(kind, sb, index')
  <1>3. Stays \/ Ends
    <2>1. CASE ScanNumber
      <3>1. Stays \/ EndToken("Number", frame.sb, index')
        BY <2>1 DEF ScanNumber, Continue, Resync, EndToken
      <3>2. frame.sb \in Seq(Character) /\ "Number" \in TokenKind
        BY <1>2, <2>1, FrameIs DEF ScanNumber, TokenKind
      <3> QED
        BY <3>1, <3>2
    <2>2. CASE ScanParameter
      <3>1. Stays \/ EndToken("Generic", frame.sb, index')
        BY <2>2 DEF ScanParameter, Continue, EndToken
      <3>2. frame.sb \in Seq(Character) /\ "Generic" \in TokenKind
        BY <1>2, <2>2, FrameIs DEF ScanParameter, TokenKind
      <3> QED
        BY <3>1, <3>2
    <2>3. CASE ScanString
      <3>1. Stays \/ EndToken("StringLiteral", frame.sb, index')
        BY <2>3 DEF ScanString, Continue, Resync, EndToken
      <3>2. frame.sb \in Seq(Character) /\ "StringLiteral" \in TokenKind
        BY <1>2, <2>3, FrameIs DEF ScanString, TokenKind
      <3> QED
        BY <3>1, <3>2
    <2>4. CASE ScanCodeBlock
      <3> DEFINE text == frame.sb \o <<"tick", "tick">>
      <3>1. Stays \/ (~AtEom /\ EndToken("CodeBlock", text, index'))
        BY <2>4 DEF ScanCodeBlock, Continue, Resync, EndToken
      <3>2. frame.sb \in Seq(Character) /\ "CodeBlock" \in TokenKind
            /\ <<"tick", "tick">> \in Seq(Character)
        BY <1>2, <2>4, FrameIs DEF ScanCodeBlock, TokenKind, Character
      <3>3. text \in Seq(Character)
        BY <3>2, ConcatProperties
      <3> HIDE DEF text
      <3> QED
        BY <3>1, <3>2, <3>3
    <2>5. CASE ScanMention
      <3> DEFINE sb == Append(frame.sb, ">")
      <3>1. \/ Stays
            \/ ~AtEom /\ MentionEnds(frame, NextChar) /\ EndToken(frame.kind, sb, index')
        BY <2>5 DEF ScanMention, Continue, Resync, GiveUpMention, EndToken, ClosesInside
      <3>2. frame.in = "mention"
        BY <2>5 DEF ScanMention
      <3>3. ~AtEom /\ MentionEnds(frame, NextChar)
            => frame.kind \in TokenKind /\ sb \in Seq(Character)
        BY <3>2, ClosedMention
      <3> HIDE DEF sb
      <3> QED
        BY <3>1, <3>3
    <2>6. CASE ScanGeneric
      <3>1. Stays \/ EndToken("Generic", frame.sb, index')
        BY <2>6 DEF ScanGeneric, Continue, EndToken
      <3>2. frame.sb \in Seq(Character) /\ "Generic" \in TokenKind
        BY <1>2, <2>6, FrameIs DEF ScanGeneric, TokenKind
      <3> QED
        BY <3>1, <3>2
    <2>7. ~(SkipBlank \/ BeginNumber \/ BeginString \/ BeginBacktick \/ BeginMention
              \/ BeginDash \/ BeginGeneric \/ TokenizingDone)
      <3>1. frame # Top
        BY DEF Between, Top
      <3>2. \A cs : ~Begin(cs)
        BY <3>1 DEF Begin
      <3> QED
        BY <3>1, <3>2 DEF SkipBlank, BeginNumber, BeginString, BeginBacktick, BeginMention,
                          BeginDash, BeginGeneric, TokenizingDone
    <2> QED
      BY <2>1, <2>2, <2>3, <2>4, <2>5, <2>6, <2>7 DEF Tokenize
  <1>4. CASE Stays
    BY <1>4
  <1>5. CASE Ends
    <2>1. PICK kind \in TokenKind, sb \in Seq(Character) : EndToken(kind, sb, index')
      BY <1>5
    <2> DEFINE t == CommandToken(kind, Joined(sb), tokenStart, index')
    <2>2. Joined(sb) \in Seq(Character \union {"comma"})
      BY JoinedIs
    <2>3. t \in SavedToken /\ t.from = tokenStart /\ t.to = index'
      BY <1>2, <2>2 DEF SavedToken, CommandToken
    <2>4. frame' = Top /\ UNCHANGED <<message, tokenStart>>
          /\ (UNCHANGED scanned \/ scanned' = Append(scanned, t))
      BY <2>1 DEF EndToken, Save
    <2> HIDE DEF t
    <2> QED
      BY <1>5, <2>3, <2>4
  <1> QED
    BY <1>3, <1>4, <1>5

\* Every step keeps the tokens in order.
LEMMA TrailInvNext ==
  ASSUME ScanInv, PathInv, TrailInv, [Tokenize]_tokenizerVars
  PROVE  TrailInv'
  <1>1. CASE UNCHANGED tokenizerVars
    <2>1. /\ UNCHANGED <<index, tokenStart, scanned, frame, message>>
          /\ \A i : CharAt(i)' = CharAt(i)
      BY <1>1, TextStays DEF tokenizerVars
    <2>2. \A F, at, outer, n : LoopAt(F, at, outer, n)' <=> LoopAt(F, at, outer, n)
      BY <2>1, PathStays DEF LoopAt
    <2>3. InLoop' <=> InLoop
      BY <2>2 DEF InLoop
    <2> QED
      BY <2>1, <2>3 DEF TrailInv, TokensInOrder, LastSaved, Between
  <1>2. CASE Tokenize
    <2>1. /\ scanned \in Seq(SavedToken) /\ scanned # <<>> /\ TokensInOrder
          /\ index \in Nat /\ tokenStart \in Nat /\ LastSaved \in SavedToken
      <3>1. scanned \in Seq(SavedToken) /\ scanned # <<>>
        BY DEF ScanInv
      <3>2. LastSaved \in SavedToken
        BY <3>1 DEF LastSaved
      <3> QED
        BY <3>1, <3>2, TextIs DEF ScanInv, CursorInv, TrailInv
    <2>2. LastSaved.to \in Nat /\ LastSaved.from \in Nat
      BY <2>1 DEF SavedToken
    <2>3. ScanInv' /\ index' \in Nat /\ tokenStart' \in 0..index'
      BY <1>2, ScanInvNext, TextIs DEF ScanInv, CursorInv
    <2>4. UNCHANGED scanned => TokensInOrder' /\ LastSaved' = LastSaved
      BY <2>1 DEF TokensInOrder, LastSaved
    <2>5. CASE Between
      <3>1. LastSaved.to <= index
        BY <2>5 DEF TrailInv
      <3>2. /\ index' >= index
            /\ (tokenStart' = index \/ (frame'.in = "done" /\ index' = index))
            /\ \/ UNCHANGED scanned
               \/ \E t \in SavedToken : /\ scanned' = Append(scanned, t) /\ frame' = Top
                                        /\ t.from = index /\ t.to = index'
        BY <1>2, <2>5, BetweenSteps
      <3>3. CASE UNCHANGED scanned
        <4>1. LastSaved'.to <= index' /\ (~Between' => LastSaved'.to <= tokenStart')
          BY <2>1, <2>2, <2>3, <2>4, <3>1, <3>2, <3>3 DEF Between
        <4> QED
          BY <2>4, <3>3, <4>1 DEF TrailInv
      <3>4. CASE \E t \in SavedToken : /\ scanned' = Append(scanned, t) /\ frame' = Top
                                       /\ t.from = index /\ t.to = index'
        <4>1. PICK t \in SavedToken : /\ scanned' = Append(scanned, t) /\ frame' = Top
                                      /\ t.from = index /\ t.to = index'
          BY <3>4
        <4>2. Follows(LastSaved, t)
          BY <2>1, <2>2, <3>1, <4>1 DEF Follows
        <4>3. TokensInOrder' /\ LastSaved' = t
          BY <2>1, <4>1, <4>2, OrderAppended
        <4>4. Between' /\ LastSaved'.to <= index'
          BY <2>3, <4>1, <4>3 DEF Between, Top
        <4> QED
          BY <4>3, <4>4 DEF TrailInv
      <3> QED
        BY <3>2, <3>3, <3>4
    <2>6. CASE ~Between /\ ScanMention /\ ~AtEom /\ ClosesInside
      <3>1. frame.in = "mention" /\ MentionEnds(frame, NextChar) /\ frame.outer # None
        BY <2>6 DEF ScanMention, ClosesInside
      <3>2. /\ InnerMention \in SavedToken /\ BeforeMention \in SavedToken
            /\ InnerMention.from = tokenStart
            /\ InnerMention.kind \in MentionKind \union {"Emote"}
            /\ BeforeMention.from = tokenStart /\ BeforeMention.kind = "Generic"
            /\ frame.outer \in Seq(Character)
        BY <2>6, <3>1, ClosedMention
      <3>3. /\ index' = frame.at - 1 /\ frame' = Generic(frame.outer)
            /\ scanned' = IF Len(scanned) < MaxTokens
                          THEN scanned \o <<InnerMention, BeforeMention>> ELSE scanned
            /\ UNCHANGED <<message, tokenStart>>
        BY <2>6, InsideStep
      <3>4. InLoop'
        <4>1. frame \in Mentions /\ frame.at \in tokenStart + 1..index
          BY <3>1, FrameIs DEF ScanInv, CursorInv
        <4>2. frame.at \in Nat /\ index - frame.at \in Nat
          BY <2>1, <4>1 DEF Mentions
        <4>3. PICK at \in Nat, outer \in Seq(Character), n \in Nat :
                  at = frame.at /\ outer = frame.outer /\ n = index - frame.at
          BY <3>2, <4>2
        <4>4. PICK F : Path(F, at, outer, n) /\ F[n] = frame
          BY <3>1, <4>3 DEF PathInv
        <4>5. at + n + 1 = index + 1
          BY <2>1, <4>3
        <4>6. MentionEnds(F[n], CharAt(at + n + 1))
          BY <3>1, <4>4, <4>5 DEF NextChar
        <4>7. index' + 1 = at /\ frame' = Generic(outer) /\ outer # None
          BY <3>1, <3>3, <4>3
        <4>8. LoopAt(F, at, outer, n)'
          BY <3>3, <4>4, <4>6, <4>7, PathStays DEF LoopAt
        <4> QED
          BY <4>8 DEF InLoop
      <3>5. \/ LastSaved.to <= tokenStart
            \/ LastSaved.from = tokenStart /\ LastSaved.kind = "Generic"
        BY <2>6 DEF TrailInv
      <3>6. ~Between'
        BY <3>3 DEF Between, Generic
      <3>7. CASE ~(Len(scanned) < MaxTokens)
        <4>1. UNCHANGED scanned
          BY <3>3, <3>7
        <4> QED
          BY <2>4, <3>3, <3>4, <3>5, <3>6, <4>1 DEF TrailInv
      <3>8. CASE Len(scanned) < MaxTokens
        <4>1. scanned' = scanned \o <<InnerMention, BeforeMention>>
          BY <3>3, <3>8
        <4>2. Follows(LastSaved, InnerMention)
          <5>1. CASE LastSaved.to <= tokenStart
            BY <2>1, <2>2, <3>2, <5>1 DEF Follows
          <5>2. CASE LastSaved.from = tokenStart /\ LastSaved.kind = "Generic"
            BY <3>2, <5>2, Zenon DEF Follows
          <5> QED
            BY <3>5, <5>1, <5>2
        <4>3. Follows(InnerMention, BeforeMention)
          BY <3>2 DEF Follows
        <4>4. TokensInOrder' /\ LastSaved' = BeforeMention
          BY <2>1, <3>2, <4>1, <4>2, <4>3, OrderAppendedTwo
        <4> QED
          BY <3>2, <3>3, <3>4, <3>6, <4>4 DEF TrailInv
      <3> QED
        BY <3>7, <3>8
    <2>7. CASE ~Between /\ ~(ScanMention /\ ~AtEom /\ ClosesInside)
      <3>1. CASE InLoop
        <4>1. InLoop' /\ UNCHANGED <<tokenStart, scanned>>
          BY <1>2, <2>7, <3>1, LoopStep
        <4>2. ~Between'
          <5>1. PICK F, at, outer, n : LoopAt(F, at, outer, n)'
            BY <4>1 DEF InLoop
          <5>2. CASE frame' = Generic(outer)
            BY <5>2 DEF Between, Generic
          <5>3. CASE \E j \in 0..n : frame' = F[j]
            <6>1. frame' \in Mentions
              BY <5>1, <5>3 DEF LoopAt, Path
            <6> QED
              BY <6>1 DEF Between, Mentions
          <5> QED
            BY <5>1, <5>2, <5>3 DEF LoopAt
        <4> QED
          BY <2>4, <2>7, <4>1, <4>2 DEF TrailInv
      <3>2. CASE ~InLoop
        <4>1. LastSaved.to <= tokenStart
          BY <2>7, <3>2 DEF TrailInv
        <4>2. /\ UNCHANGED tokenStart
              /\ \/ UNCHANGED scanned
                 \/ \E t \in SavedToken : /\ scanned' = Append(scanned, t) /\ frame' = Top
                                          /\ t.from = tokenStart /\ t.to = index'
          BY <1>2, <2>7, ScannerSteps
        <4>3. CASE UNCHANGED scanned
          <5>1. LastSaved'.to <= tokenStart' /\ LastSaved'.to <= index'
            BY <2>1, <2>2, <2>3, <2>4, <4>1, <4>2, <4>3
          <5> QED
            BY <2>4, <4>3, <5>1 DEF TrailInv
        <4>4. CASE \E t \in SavedToken : /\ scanned' = Append(scanned, t) /\ frame' = Top
                                         /\ t.from = tokenStart /\ t.to = index'
          <5>1. PICK t \in SavedToken : /\ scanned' = Append(scanned, t) /\ frame' = Top
                                        /\ t.from = tokenStart /\ t.to = index'
            BY <4>4
          <5>2. Follows(LastSaved, t)
            BY <2>1, <2>2, <4>1, <5>1 DEF Follows
          <5>3. TokensInOrder' /\ LastSaved' = t
            BY <2>1, <5>1, <5>2, OrderAppended
          <5>4. Between' /\ LastSaved'.to <= index'
            BY <2>3, <5>1, <5>3 DEF Between, Top
          <5> QED
            BY <5>3, <5>4 DEF TrailInv
        <4> QED
          BY <4>2, <4>3, <4>4
      <3> QED
        BY <3>1, <3>2
    <2> QED
      BY <2>5, <2>6, <2>7
  <1> QED
    BY <1>1, <1>2

------------------------------------------------------------------------------
(* The words *)

\* No word goes on over the position p.
Boundary(p) == p = message.prefix \/ p = Length \/ CharAt(p) \in Blank

\* The words as they are read: maximal runs of other than blanks behind the prefix
\* and the one character that the first getChar passes over.
ReadWords ==
    LET inWord(i) == CharAt(i) \notin Blank
        first == message.prefix + 1
    IN  {w \in (first..Length) \X (first..Length) :
            /\ w[1] < w[2]
            /\ \A i \in w[1]..w[2] - 1 : inWord(i)
            /\ w[1] = first \/ ~inWord(w[1] - 1)
            /\ w[2] = Length \/ ~inWord(w[2])}

WordsUpTo(p) == {w \in ReadWords : w[2] <= p}

WordTokens(p) == {WordToken(w) : w \in WordsUpTo(p)}

\* The characters from the position a on that have been read with the cursor at i
ReadFrom(a, i) == SubSeq(message.text, a, IF i < Length THEN i + 1 ELSE Length)

\* A plain text is scanned word by word: the words before the token are saved,
\* and the token has the characters of a word that have been read.
PlainInv ==
    IsPlain /\ Len(scanned) < MaxTokens =>
        /\ frame.in \in {"top", "generic", "done"}
        /\ Between => /\ index >= message.prefix /\ Boundary(index)
                      /\ TextTokens = WordTokens(index)
        /\ frame.in = "generic" =>
            /\ tokenStart >= message.prefix /\ Boundary(tokenStart)
            /\ TextTokens = WordTokens(tokenStart)
            /\ \A i \in tokenStart + 1..index : CharAt(i) \notin Blank
            /\ frame.sb = ReadFrom(tokenStart + 2, index)

\* A word is a pair of positions.
LEMMA WordIs ==
  ASSUME NEW a, NEW b
  PROVE  <<a, b>> \in ReadWords <=>
            /\ a \in message.prefix + 1..Length /\ b \in message.prefix + 1..Length
            /\ a < b
            /\ \A i \in a..b - 1 : CharAt(i) \notin Blank
            /\ a = message.prefix + 1 \/ CharAt(a - 1) \in Blank
            /\ b = Length \/ CharAt(b) \in Blank
  BY DEF ReadWords

\* A word has a first and a last position.
LEMMA WordsArePairs ==
  ASSUME message \in Message, NEW w \in ReadWords
  PROVE  \E a \in Nat, b \in Nat : w = <<a, b>> /\ w[1] = a /\ w[2] = b
  <1>1. w \in (message.prefix + 1..Length) \X (message.prefix + 1..Length)
    BY DEF ReadWords
  <1>2. Length \in Nat /\ message.prefix \in Nat
    BY TextIs
  <1> QED
    BY <1>1, <1>2

\* They are the words of the text without the character that is lost.
LEMMA ReadWordsAre ==
  ASSUME message \in Message
  PROVE  ReadWords = {ReadPart(w) : w \in Words \ {LostWord}}
  <1> DEFINE first == message.prefix
  <1>1. Length \in Nat /\ first \in Nat
    BY TextIs
  <1>2. ASSUME NEW a \in Nat, NEW b \in Nat
        PROVE  <<a, b>> \in Words <=>
                  /\ a \in first..Length /\ b \in first..Length /\ a < b
                  /\ \A i \in a..b - 1 : CharAt(i) \notin Blank
                  /\ a = first \/ CharAt(a - 1) \in Blank
                  /\ b = Length \/ CharAt(b) \in Blank
    BY DEF Words
  <1>3. ASSUME NEW w \in ReadWords
        PROVE  \E v \in Words \ {LostWord} : w = ReadPart(v)
    <2>1. PICK a \in Nat, b \in Nat : w = <<a, b>>
      BY WordsArePairs
    <2>2. /\ a \in first + 1..Length /\ b \in first + 1..Length
          /\ a < b /\ \A i \in a..b - 1 : CharAt(i) \notin Blank
          /\ a = first + 1 \/ CharAt(a - 1) \in Blank
          /\ b = Length \/ CharAt(b) \in Blank
      BY <2>1, WordIs
    <2>3. CASE a = first + 1 /\ CharAt(first) \notin Blank
      <3>1. \A i \in first..b - 1 : CharAt(i) \notin Blank
        <4>1. ASSUME NEW i \in first..b - 1 PROVE i = first \/ i \in a..b - 1
          BY <1>1, <2>2, <2>3
        <4> QED
          BY <2>2, <2>3, <4>1
      <3>2. <<first, b>> \in Words
        BY <1>1, <1>2, <2>2, <3>1
      <3>3. <<first, b>> # LostWord /\ ReadPart(<<first, b>>) = w
        BY <1>1, <2>1, <2>2, <2>3 DEF LostWord, ReadPart
      <3> QED
        BY <3>2, <3>3
    <2>4. CASE ~(a = first + 1 /\ CharAt(first) \notin Blank)
      <3>1. CharAt(a - 1) \in Blank
        BY <1>1, <2>2, <2>4
      <3>2. w \in Words
        BY <1>1, <1>2, <2>1, <2>2, <3>1
      <3>3. w # LostWord /\ ReadPart(w) = w
        BY <1>1, <2>1, <2>2 DEF LostWord, ReadPart
      <3> QED
        BY <3>2, <3>3
    <2> QED
      BY <2>3, <2>4
  <1>4. ASSUME NEW v \in Words, v # LostWord
        PROVE  ReadPart(v) \in ReadWords
    <2>1. PICK a \in Nat, b \in Nat : v = <<a, b>>
      <3>1. v \in (first..Length) \X (first..Length)
        BY DEF Words
      <3> QED
        BY <1>1, <3>1
    <2>2. /\ a \in first..Length /\ b \in first..Length /\ a < b
          /\ \A i \in a..b - 1 : CharAt(i) \notin Blank
          /\ a = first \/ CharAt(a - 1) \in Blank
          /\ b = Length \/ CharAt(b) \in Blank
      BY <1>2, <2>1
    <2>3. CASE a = first
      <3>1. ReadPart(v) = <<first + 1, b>>
        BY <2>1, <2>3 DEF ReadPart
      <3>2. b # first + 1
        BY <1>4, <2>1, <2>3 DEF LostWord
      <3>3. first + 1 < b
        BY <1>1, <2>2, <2>3, <3>2
      <3>4. \A i \in first + 1..b - 1 : CharAt(i) \notin Blank
        <4>1. ASSUME NEW i \in first + 1..b - 1 PROVE i \in a..b - 1
          BY <1>1, <2>3
        <4> QED
          BY <2>2, <4>1
      <3>5. <<first + 1, b>> \in ReadWords
        BY <1>1, <2>2, <3>3, <3>4, WordIs
      <3> QED
        BY <3>1, <3>5
    <2>4. CASE a # first
      <3>1. ReadPart(v) = <<a, b>>
        BY <2>1, <2>4 DEF ReadPart
      <3>2. <<a, b>> \in ReadWords
        BY <1>1, <2>2, <2>4, WordIs
      <3> QED
        BY <3>1, <3>2
    <2> QED
      BY <2>3, <2>4
  <1> QED
    BY <1>3, <1>4

\* At a boundary no word goes on.
LEMMA NoWordEnds ==
  ASSUME message \in Message, NEW p \in Nat, p >= message.prefix, Boundary(p)
  PROVE  WordsUpTo(p + 1) = WordsUpTo(p)
  <1>1. Length \in Nat /\ message.prefix \in Nat
    BY TextIs
  <1>2. ASSUME NEW w \in ReadWords, w[2] <= p + 1
        PROVE  w[2] <= p
    <2>1. PICK a \in Nat, b \in Nat : w = <<a, b>> /\ w[2] = b
      BY WordsArePairs
    <2>2. /\ a \in message.prefix + 1..Length /\ b \in message.prefix + 1..Length
          /\ a < b /\ \A i \in a..b - 1 : CharAt(i) \notin Blank
      BY <2>1, WordIs
    <2> SUFFICES ASSUME b = p + 1 PROVE FALSE
      BY <1>2, <2>1
    <2>3. p \in a..b - 1 /\ p # message.prefix /\ p # Length
      BY <1>1, <2>2
    <2> QED
      BY <2>2, <2>3 DEF Boundary
  <1>3. \A w \in ReadWords : w[2] <= p => w[2] <= p + 1
    <2>1. \A w \in ReadWords : w[2] \in Nat
      BY WordsArePairs
    <2> QED
      BY <2>1
  <1> QED
    BY <1>2, <1>3 DEF WordsUpTo

\* Between two boundaries without a blank there is one word.
LEMMA OneWordEnds ==
  ASSUME message \in Message, NEW p \in Nat, p >= message.prefix, Boundary(p), p < Length,
         NEW q \in Nat, p + 1 < q, q <= Length,
         \A i \in p + 1..q - 1 : CharAt(i) \notin Blank,
         q = Length \/ CharAt(q) \in Blank
  PROVE  WordsUpTo(q) = WordsUpTo(p) \union {<<p + 1, q>>}
  <1>1. Length \in Nat /\ message.prefix \in Nat
    BY TextIs
  <1>2. p = message.prefix \/ CharAt(p) \in Blank
    BY <1>1 DEF Boundary
  <1>3. <<p + 1, q>> \in WordsUpTo(q)
    <2>1. /\ p + 1 \in message.prefix + 1..Length /\ q \in message.prefix + 1..Length
          /\ p + 1 - 1 = p /\ (p = message.prefix => p + 1 = message.prefix + 1)
      BY <1>1
    <2>2. <<p + 1, q>> \in ReadWords
      BY <1>2, <2>1, WordIs
    <2> QED
      BY <2>2 DEF WordsUpTo
  <1>4. ASSUME NEW w \in ReadWords, w[2] <= q
        PROVE  w[2] <= p \/ w = <<p + 1, q>>
    <2>1. PICK a \in Nat, b \in Nat : w = <<a, b>> /\ w[2] = b
      BY WordsArePairs
    <2>2. /\ a \in message.prefix + 1..Length /\ b \in message.prefix + 1..Length
          /\ a < b /\ \A i \in a..b - 1 : CharAt(i) \notin Blank
          /\ a = message.prefix + 1 \/ CharAt(a - 1) \in Blank
          /\ b = Length \/ CharAt(b) \in Blank
      BY <2>1, WordIs
    <2> SUFFICES ASSUME b > p PROVE a = p + 1 /\ b = q
      BY <2>1
    <2>3. a > p
      <3> SUFFICES ASSUME a <= p PROVE FALSE
        BY <1>1
      <3>1. p \in a..b - 1 /\ p # message.prefix
        BY <1>1, <2>2
      <3> QED
        BY <1>2, <2>2, <3>1
    <2>4. b = q
      <3> SUFFICES ASSUME b # q PROVE FALSE
        OBVIOUS
      <3>1. b \in p + 1..q - 1 /\ b # Length
        BY <1>1, <1>4, <2>1, <2>2
      <3> QED
        BY <2>2, <3>1
    <2>5. a = p + 1
      <3> SUFFICES ASSUME a # p + 1 PROVE FALSE
        OBVIOUS
      <3>1. a - 1 \in p + 1..q - 1 /\ a # message.prefix + 1
        BY <1>1, <2>2, <2>3, <2>4
      <3> QED
        BY <2>2, <3>1
    <2> QED
      BY <2>4, <2>5
  <1>5. \A w \in ReadWords : w[2] <= p => w[2] <= q
    <2>1. \A w \in ReadWords : w[2] \in Nat
      BY WordsArePairs
    <2> QED
      BY <2>1
  <1> QED
    BY <1>3, <1>4, <1>5 DEF WordsUpTo

\* The characters of a plain text behind the first that is read.
LEMMA PlainIs ==
  ASSUME message \in Message, IsPlain, NEW i \in Nat, i >= message.prefix + 1
  PROVE  CharAt(i) \in Identifier \union Blank \union {None}
  <1>1. Length \in Nat /\ message.prefix \in Nat /\ Length = Len(message.text)
    BY TextIs DEF Length
  <1>2. CASE i < Length
    <2>1. i + 1 \in message.prefix + 1..Length
      BY <1>1, <1>2
    <2> QED
      BY <1>2, <2>1 DEF IsPlain, CharAt
  <1>3. CASE ~(i < Length)
    BY <1>3 DEF CharAt
  <1> QED
    BY <1>2, <1>3

\* A saved token counts if it has a text.
LEMMA TextTokensGrow ==
  ASSUME scanned \in Seq(SavedToken), scanned # <<>>, NEW t \in SavedToken,
         scanned' = Append(scanned, t)
  PROVE  TextTokens' = TextTokens \union (IF t.text = <<>> THEN {} ELSE {t})
  <1>1. PICK n \in Nat \ {0} : n = Len(scanned)
    BY EmptySeq
  <1>2. /\ Len(scanned') = n + 1 /\ scanned'[n + 1] = t
        /\ \A i \in 1..n : scanned'[i] = scanned[i]
    BY <1>1, AppendIs
  <1> DEFINE Old == {j \in 2..n : scanned[j].text # <<>>}
             New == {j \in 2..n + 1 : scanned'[j].text # <<>>}
  <1>3. TextTokens = {scanned[i] : i \in Old} /\ TextTokens' = {scanned'[i] : i \in New}
    BY <1>1, <1>2 DEF TextTokens
  <1>4. \A i \in Old : i \in New /\ scanned'[i] = scanned[i]
    BY <1>1, <1>2
  <1>5. \A i \in New : i \in Old \/ i = n + 1
    BY <1>1, <1>2
  <1>6. n + 1 \in New <=> t.text # <<>>
    BY <1>1, <1>2
  <1> HIDE DEF Old, New
  <1>7. CASE t.text = <<>>
    <2>1. Old = New
      BY <1>4, <1>5, <1>6, <1>7
    <2>2. \A i \in Old : scanned'[i] = scanned[i]
      BY <1>4
    <2> QED
      BY <1>3, <1>7, <2>1, <2>2
  <1>8. CASE t.text # <<>>
    <2>1. New = Old \union {n + 1}
      BY <1>4, <1>5, <1>6, <1>8
    <2>2. \A x : x \in TextTokens' <=> x \in TextTokens \/ x = t
      BY <1>2, <1>3, <1>4, <2>1
    <2> QED
      BY <1>8, <2>2
  <1> QED
    BY <1>7, <1>8

\* No saved token is ever taken back.
LEMMA LenGrows ==
  ASSUME ScanInv, [Tokenize]_tokenizerVars
  PROVE  Len(scanned) \in Nat /\ Len(scanned') \in Nat /\ Len(scanned) <= Len(scanned')
  <1>1. scanned \in Seq(SavedToken) /\ Len(scanned) \in Nat
    BY DEF ScanInv
  <1>2. CASE UNCHANGED scanned
    BY <1>1, <1>2
  <1>3. CASE \E t \in SavedToken : scanned' = Append(scanned, t)
    <2>1. PICK t \in SavedToken : scanned' = Append(scanned, t)
      BY <1>3
    <2>2. Len(scanned') = Len(scanned) + 1
      BY <1>1, <2>1, AppendIs
    <2> QED
      BY <1>1, <2>2
  <1>4. CASE ScanMention /\ ~AtEom /\ ClosesInside /\ ~UNCHANGED scanned
    <2>1. scanned' = scanned \o <<InnerMention, BeforeMention>>
      BY <1>4, InsideStep
    <2>2. InnerMention \in SavedToken /\ BeforeMention \in SavedToken
      BY <1>4, ClosedMention DEF ScanMention, ClosesInside
    <2>3. Len(scanned') = Len(scanned) + 2
      BY <1>1, <2>1, <2>2, TwoAppended
    <2> QED
      BY <1>1, <2>3
  <1>5. CASE Tokenize /\ Between
    BY <1>2, <1>3, <1>5, BetweenSteps
  <1>6. CASE Tokenize /\ ~Between /\ ~(ScanMention /\ ~AtEom /\ ClosesInside)
    BY <1>2, <1>3, <1>6, ScannerSteps
  <1>7. CASE UNCHANGED tokenizerVars
    BY <1>2, <1>7 DEF tokenizerVars
  <1> QED
    BY <1>2, <1>4, <1>5, <1>6, <1>7

\* The text up to a position and the character behind it
LEMMA TextGrows ==
  ASSUME message \in Message, NEW a \in Nat, NEW i \in Nat, a >= 1, a <= i + 1, i < Length
  PROVE  /\ SubSeq(message.text, a, i) \in Seq(Character)
         /\ Append(SubSeq(message.text, a, i), CharAt(i)) = SubSeq(message.text, a, i + 1)
  <1>1. /\ message.text \in Seq(Character) /\ Length \in Nat /\ Length = Len(message.text)
        /\ CharAt(i) \in Character /\ CharAt(i) = message.text[i + 1]
    BY TextIs DEF Length, CharAt
  <1>2. \A j \in a..i : message.text[j] \in Character
    <2>1. \A j \in a..i : j \in 1..Len(message.text)
      BY <1>1
    <2> QED
      BY <1>1, <2>1
  <1>3. SubSeq(message.text, a, i) \in Seq(Character)
    <2>1. a \in Int /\ i \in Int
      OBVIOUS
    <2> QED
      BY <1>2, <2>1, SubSeqProperties
  <1>4. SubSeq(message.text, a, i + 1)
          = SubSeq(message.text, a, i) \o <<message.text[i + 1]>>
    <2>1. PICK n \in a..Len(message.text) : n = i + 1 /\ n - 1 = i
      BY <1>1
    <2>2. a \in 1..Len(message.text)
      BY <1>1
    <2>3. SubSeq(message.text, a, n) = SubSeq(message.text, a, n - 1) \o <<message.text[n]>>
      BY <1>1, <2>2, SubSeqRecursiveSecond
    <2> QED
      BY <2>1, <2>3
  <1> QED
    BY <1>1, <1>3, <1>4, AppendIsConcat

\* The next character is added to what has been read.
LEMMA ReadGrows ==
  ASSUME message \in Message, NEW a \in Nat, NEW i \in Nat, a >= 1, a <= i + 2, i < Length
  PROVE  /\ ReadFrom(a, i) = SubSeq(message.text, a, i + 1)
         /\ ReadFrom(a, i + 1) = Add(ReadFrom(a, i), CharAt(i + 1))
  <1>1. Length \in Nat /\ ReadFrom(a, i) = SubSeq(message.text, a, i + 1)
    BY TextIs DEF ReadFrom
  <1>2. CASE i + 1 < Length
    <2>1. ReadFrom(a, i + 1) = SubSeq(message.text, a, i + 1 + 1)
      BY <1>2 DEF ReadFrom
    <2>2. CharAt(i + 1) # None
      BY <1>2, TextIs
    <2>3. Append(SubSeq(message.text, a, i + 1), CharAt(i + 1))
            = SubSeq(message.text, a, i + 1 + 1)
      <3>1. i + 1 \in Nat /\ a <= i + 1 + 1
        OBVIOUS
      <3> QED
        BY <1>2, <3>1, TextGrows
    <2> QED
      BY <1>1, <2>1, <2>2, <2>3 DEF Add
  <1>3. CASE ~(i + 1 < Length)
    <2>1. i + 1 = Length
      BY <1>1, <1>3
    <2>2. ReadFrom(a, i + 1) = SubSeq(message.text, a, i + 1)
      BY <1>3, <2>1 DEF ReadFrom
    <2>3. CharAt(i + 1) = None
      BY <1>3 DEF CharAt
    <2> QED
      BY <1>1, <2>2, <2>3 DEF Add
  <1> QED
    BY <1>1, <1>2, <1>3

\* The token of a word that has been read up to q is the word's.
LEMMA WordSaved ==
  ASSUME ScanInv, UNCHANGED message, NEW p \in Nat, p >= message.prefix, Boundary(p),
         NEW q \in Nat, p < q, q <= Length,
         \A i \in p + 1..q - 1 : CharAt(i) \notin Blank,
         q = Length \/ CharAt(q) \in Blank,
         TextTokens = WordTokens(p),
         scanned' = Append(scanned,
                           CommandToken("Generic", Joined(SubSeq(message.text, p + 2, q)), p, q))
  PROVE  TextTokens' = WordTokens(q)
  <1> DEFINE w == <<p + 1, q>>
             sb == SubSeq(message.text, p + 2, q)
  <1>1. message \in Message /\ Length \in Nat /\ scanned \in Seq(SavedToken) /\ scanned # <<>>
    BY TextIs DEF ScanInv
  <1>2. WordToken(w) = CommandToken("Generic", Joined(sb), p, q)
    <2>1. w[1] + 1 = p + 2 /\ w[1] - 1 = p /\ w[2] = q
      OBVIOUS
    <2> QED
      BY <2>1 DEF WordToken
  <1>3. sb \in Seq(Character) /\ Len(sb) = IF p + 2 <= q THEN q - (p + 2) + 1 ELSE 0
    <2>1. \A j \in p + 2..q : message.text[j] \in Character
      <3>1. message.text \in Seq(Character) /\ Len(message.text) = Length
        BY <1>1, TextIs DEF Length
      <3>2. \A j \in p + 2..q : j \in 1..Len(message.text)
        BY <1>1, <3>1
      <3> QED
        BY <3>1, <3>2
    <2>2. p + 2 \in Int /\ q \in Int
      OBVIOUS
    <2> QED
      BY <2>1, <2>2, SubSeqProperties
  <1> HIDE DEF sb
  <1>4. sb = <<>> <=> q = p + 1
    <2>1. Len(sb) = 0 <=> q = p + 1
      BY <1>3
    <2> QED
      BY <1>3, <2>1, EmptySeq
  <1>5. /\ WordToken(w) \in SavedToken
        /\ WordToken(w).text = <<>> <=> q = p + 1
    <2>1. Joined(sb) \in Seq(Character \union {"comma"}) /\ (Joined(sb) = <<>> <=> sb = <<>>)
      BY <1>3, JoinedIs
    <2>2. "Generic" \in TokenKind /\ p \in Nat /\ q \in Nat
      BY DEF TokenKind
    <2>3. CommandToken("Generic", Joined(sb), p, q) \in SavedToken
      BY <2>1, <2>2 DEF SavedToken, CommandToken
    <2>4. CommandToken("Generic", Joined(sb), p, q).text = Joined(sb)
      BY DEF CommandToken
    <2> QED
      BY <1>2, <1>4, <2>1, <2>3, <2>4
  <1>6. scanned' = Append(scanned, WordToken(w))
    BY <1>2 DEF sb
  <1> HIDE DEF w
  <1>7. TextTokens' = WordTokens(p) \union (IF q = p + 1 THEN {} ELSE {WordToken(w)})
    BY <1>1, <1>5, <1>6, TextTokensGrow
  <1>8. CASE q = p + 1
    <2>1. WordsUpTo(q) = WordsUpTo(p)
      BY <1>1, <1>8, NoWordEnds
    <2> QED
      BY <1>7, <1>8, <2>1 DEF WordTokens
  <1>9. CASE q # p + 1
    <2>1. p + 1 < q /\ p < Length
      BY <1>1, <1>9
    <2>2. WordsUpTo(q) = WordsUpTo(p) \union {w}
      BY <1>1, <2>1, OneWordEnds DEF w
    <2> QED
      BY <1>7, <1>9, <2>2 DEF WordTokens
  <1> QED
    BY <1>8, <1>9

\* At a boundary a blank is skipped, a generic token begins, or the text ends.
LEMMA PlainBegins ==
  ASSUME ScanInv, PlainInv, Tokenize, Between, IsPlain, Len(scanned) < MaxTokens
  PROVE  SkipBlank \/ BeginGeneric \/ TokenizingDone
  <1>1. index \in Nat /\ index >= message.prefix /\ message \in Message
    BY TextIs DEF PlainInv, ScanInv, CursorInv
  <1>2. NextChar \in Identifier \union Blank \union {None}
    <2>1. index + 1 \in Nat /\ index + 1 >= message.prefix + 1
      BY <1>1, TextIs
    <2> QED
      BY <1>1, <2>1, PlainIs DEF NextChar
  <1>3. /\ NextChar \notin Digit /\ NextChar \notin StringQuote /\ NextChar # "tick"
        /\ NextChar # "<" /\ NextChar # "-"
    <2>1. /\ "<" \in Character /\ "tick" \in Character /\ "-" \in Character
          /\ \A c \in Digit \union StringQuote : c \in Character
      BY DEF Character
    <2>2. \A c \in Identifier \union Blank : /\ c \notin Digit \union StringQuote
                                             /\ c \notin {"tick", "<", "-"}
      BY DEF Identifier, Blank, WhiteSpace, NewLine, Digit, StringQuote
    <2> QED
      BY <1>2, <2>1, <2>2, TextAssumption
  <1>4. ~(BeginNumber \/ BeginString \/ BeginBacktick \/ BeginMention \/ BeginDash)
    BY <1>3, Zenon
       DEF BeginNumber, BeginString, BeginBacktick, BeginMention, BeginDash, Begin
  <1>5. ~(ScanNumber \/ ScanParameter \/ ScanString \/ ScanCodeBlock \/ ScanMention
            \/ ScanGeneric)
    BY DEF Between, ScanNumber, ScanParameter, ScanString, ScanCodeBlock, ScanMention,
           ScanGeneric
  <1> QED
    BY <1>4, <1>5 DEF Tokenize

\* Every step keeps to the words of a plain text.
LEMMA PlainInvNext ==
  ASSUME ScanInv, PlainInv, [Tokenize]_tokenizerVars
  PROVE  PlainInv'
  <1>1. CASE UNCHANGED tokenizerVars
    <2>1. UNCHANGED <<message, index, tokenStart, scanned, frame>>
      BY <1>1 DEF tokenizerVars
    <2>2. \A i : CharAt(i)' = CharAt(i)
      BY <2>1, TextStays
    <2>3. Between' <=> Between
      BY <2>1 DEF Between
    <2>4. TextTokens' = TextTokens
      BY <2>1 DEF TextTokens
    <2>5. /\ IsPlain' <=> IsPlain
          /\ Boundary(index)' <=> Boundary(index)
          /\ Boundary(tokenStart)' <=> Boundary(tokenStart)
          /\ WordTokens(index)' = WordTokens(index)
          /\ WordTokens(tokenStart)' = WordTokens(tokenStart)
          /\ ReadFrom(tokenStart + 2, index)' = ReadFrom(tokenStart + 2, index)
      BY <2>1 DEF IsPlain, Boundary, WordTokens, WordsUpTo, WordToken, ReadWords, ReadFrom,
                  CharAt, Length
    <2> QED
      BY <2>1, <2>2, <2>3, <2>4, <2>5 DEF PlainInv
  <1>2. ASSUME Tokenize
        PROVE  PlainInv'
    <2>1. UNCHANGED message
      <3>1. CASE TokenizingDone
        BY <3>1 DEF TokenizingDone
      <3>2. CASE Between /\ ~TokenizingDone
        <4>1. ASSUME NEW cs, Begin(cs)
              PROVE  UNCHANGED message
          BY <4>1 DEF Begin
        <4>2. ~(ScanNumber \/ ScanParameter \/ ScanString \/ ScanCodeBlock \/ ScanMention
                  \/ ScanGeneric)
          BY <3>2 DEF Between, ScanNumber, ScanParameter, ScanString, ScanCodeBlock,
                      ScanMention, ScanGeneric
        <4> QED
          BY <1>2, <3>2, <4>1, <4>2
             DEF Tokenize, SkipBlank, BeginNumber, BeginString, BeginBacktick, BeginMention,
                 BeginDash, BeginGeneric
      <3>3. CASE ~Between /\ ScanMention /\ ~AtEom /\ ClosesInside
        BY <3>3, InsideStep
      <3>4. CASE ~Between /\ ~(ScanMention /\ ~AtEom /\ ClosesInside)
        BY <1>2, <3>4, ScannerSteps
      <3> QED
        BY <3>1, <3>2, <3>3, <3>4
    <2>2. Len(scanned') < MaxTokens => Len(scanned) < MaxTokens
      BY <1>2, LenGrows, TextAssumption
    <2> SUFFICES ASSUME IsPlain, Len(scanned) < MaxTokens
                 PROVE  /\ frame'.in \in {"top", "generic", "done"}
                        /\ Between' => /\ index' >= message.prefix /\ Boundary(index')
                                       /\ TextTokens' = WordTokens(index')
                        /\ frame'.in = "generic" =>
                            /\ tokenStart' >= message.prefix /\ Boundary(tokenStart')
                            /\ TextTokens' = WordTokens(tokenStart')
                            /\ \A i \in tokenStart' + 1..index' : CharAt(i) \notin Blank
                            /\ frame'.sb = ReadFrom(tokenStart' + 2, index')
      <3>1. Length' = Length /\ message' = message /\ \A i : CharAt(i)' = CharAt(i)
        BY <2>1, TextStays
      <3>2. /\ IsPlain' <=> IsPlain
            /\ Boundary(index)' <=> Boundary(index')
            /\ Boundary(tokenStart)' <=> Boundary(tokenStart')
            /\ WordTokens(index)' = WordTokens(index')
            /\ WordTokens(tokenStart)' = WordTokens(tokenStart')
            /\ ReadFrom(tokenStart + 2, index)' = ReadFrom(tokenStart' + 2, index')
        BY <2>1 DEF IsPlain, Boundary, WordTokens, WordsUpTo, WordToken, ReadWords, ReadFrom,
                    CharAt, Length
      <3> QED
        BY <2>2, <3>1, <3>2 DEF PlainInv
    <2>3. /\ index \in Nat /\ tokenStart \in Nat /\ message \in Message /\ Length \in Nat
          /\ message.prefix \in Nat /\ index <= Length /\ tokenStart <= index
      BY TextIs DEF ScanInv, CursorInv
    <2>4. CASE Between
      <3>1. index >= message.prefix /\ Boundary(index) /\ TextTokens = WordTokens(index)
        BY <2>4 DEF PlainInv
      <3>2. CASE TokenizingDone
        <4>1. frame'.in = "done" /\ index' = index /\ UNCHANGED scanned
          BY <3>2 DEF TokenizingDone
        <4>2. TextTokens' = TextTokens
          BY <4>1 DEF TextTokens
        <4> QED
          BY <3>1, <4>1, <4>2
      <3>3. CASE SkipBlank
        <4>1. /\ frame = Top /\ frame' = frame /\ index' = index + 1 /\ UNCHANGED scanned
              /\ CharAt(index + 1) \in Blank
          BY <3>3 DEF SkipBlank, Begin, NextChar
        <4>2. TextTokens' = TextTokens /\ frame'.in = "top"
          BY <4>1 DEF TextTokens, Top
        <4>3. WordTokens(index + 1) = WordTokens(index)
          BY <2>3, <3>1, NoWordEnds DEF WordTokens
        <4>4. Boundary(index + 1) /\ index + 1 >= message.prefix
          BY <2>3, <3>1, <4>1 DEF Boundary
        <4> QED
          BY <3>1, <4>1, <4>2, <4>3, <4>4
      <3>4. CASE BeginGeneric
        <4>1. /\ ~AtEom /\ frame' = Generic(Add(<<>>, NextChar)) /\ index' = index + 1
              /\ tokenStart' = index /\ UNCHANGED scanned /\ NextChar \notin Blank
          BY <3>4 DEF BeginGeneric, Begin
        <4>2. TextTokens' = TextTokens /\ frame'.in = "generic" /\ ~Between'
          BY <4>1 DEF TextTokens, Generic, Between
        <4>3. ReadFrom(index + 2, index + 1) = Add(<<>>, NextChar)
          <5>1. index < Length /\ index + 2 \in Nat
            BY <2>3, <4>1, NextIs
          <5>2. /\ ReadFrom(index + 2, index) = SubSeq(message.text, index + 2, index + 1)
                /\ ReadFrom(index + 2, index + 1)
                     = Add(ReadFrom(index + 2, index), CharAt(index + 1))
            BY <2>3, <5>1, ReadGrows
          <5>3. SubSeq(message.text, index + 2, index + 1) = <<>>
            <6>1. index + 2 \in Int /\ index + 1 \in Int /\ index + 1 < index + 2
              BY <2>3
            <6> QED
              BY <6>1, SubSeqEmpty
          <5> QED
            BY <5>2, <5>3 DEF NextChar
        <4>4. \A i \in index + 1..index + 1 : CharAt(i) \notin Blank
          <5>1. \A i \in index + 1..index + 1 : i = index + 1
            BY <2>3
          <5> QED
            BY <4>1, <5>1 DEF NextChar
        <4>5. frame'.sb = Add(<<>>, NextChar)
          BY <4>1 DEF Generic
        <4> QED
          BY <3>1, <4>1, <4>2, <4>3, <4>4, <4>5
      <3> QED
        BY <1>2, <2>4, <3>2, <3>3, <3>4, PlainBegins
    <2>5. CASE frame.in = "generic"
      <3>1. PICK p \in Nat : p = tokenStart
        BY <2>3
      <3>2. /\ p >= message.prefix /\ Boundary(p) /\ TextTokens = WordTokens(p)
            /\ \A i \in p + 1..index : CharAt(i) \notin Blank
            /\ frame.sb = ReadFrom(p + 2, index) /\ p < index
        BY <2>5, <3>1 DEF PlainInv, ScanInv, CursorInv, Between
      <3>3. ScanGeneric
        BY <1>2, <2>5, RunningScanner
      <3>4. ASSUME NEW q \in Nat, p < q, q <= Length,
                   \A i \in p + 1..q - 1 : CharAt(i) \notin Blank,
                   q = Length \/ CharAt(q) \in Blank,
                   EndToken("Generic", SubSeq(message.text, p + 2, q), q)
            PROVE  /\ frame'.in = "top" /\ index' = q /\ q >= message.prefix /\ Boundary(q)
                   /\ TextTokens' = WordTokens(q)
        <4>1. /\ frame' = Top /\ index' = q
              /\ scanned' = Append(scanned,
                                   CommandToken("Generic",
                                       Joined(SubSeq(message.text, p + 2, q)), p, q))
          BY <3>1, <3>4 DEF EndToken, Save
        <4>2. q >= message.prefix /\ Boundary(q)
          BY <2>3, <3>2, <3>4 DEF Boundary
        <4>3. TextTokens' = WordTokens(q)
          BY <2>1, <3>2, <3>4, <4>1, WordSaved
        <4> QED
          BY <4>1, <4>2, <4>3 DEF Top
      <3>5. CASE AtEom
        <4>1. index = Length /\ EndToken("Generic", frame.sb, index)
          BY <3>3, <3>5 DEF AtEom, ScanGeneric
        <4>2. frame.sb = SubSeq(message.text, p + 2, index)
          BY <2>3, <3>2, <4>1 DEF ReadFrom
        <4>3. \A i \in p + 1..index - 1 : CharAt(i) \notin Blank
          BY <2>3, <3>2
        <4>4. /\ frame'.in = "top" /\ index' = index /\ index >= message.prefix
              /\ Boundary(index) /\ TextTokens' = WordTokens(index)
          BY <2>3, <3>2, <3>4, <4>1, <4>2, <4>3
        <4> QED
          BY <4>4
      <3>6. CASE ~AtEom
        <4>1. /\ index < Length /\ p + 2 \in Nat /\ p + 2 >= 1 /\ p + 2 <= index + 2
          BY <2>3, <3>2, <3>6, NextIs
        <4>2. /\ frame.sb = SubSeq(message.text, p + 2, index + 1)
              /\ ReadFrom(p + 2, index + 1) = Add(frame.sb, NextChar)
          BY <2>3, <3>2, <4>1, ReadGrows DEF NextChar
        <4>3. CASE NextChar \in Blank
          <5>1. EndToken("Generic", frame.sb, index + 1)
            BY <3>3, <3>6, <4>3 DEF ScanGeneric
          <5>2. PICK q \in Nat : q = index + 1 /\ p < q /\ q <= Length
            BY <2>3, <3>2, <4>1
          <5>3. \A i \in p + 1..q - 1 : CharAt(i) \notin Blank
            BY <2>3, <3>2, <5>2
          <5>4. CharAt(q) \in Blank
            BY <4>3, <5>2 DEF NextChar
          <5>5. /\ frame'.in = "top" /\ index' = q /\ q >= message.prefix /\ Boundary(q)
                /\ TextTokens' = WordTokens(q)
            BY <3>4, <4>2, <5>1, <5>2, <5>3, <5>4
          <5> QED
            BY <5>5
        <4>4. CASE NextChar \notin Blank
          <5>1. NextChar \in Identifier \union {None}
            <6>1. index + 1 \in Nat /\ index + 1 >= message.prefix + 1
              BY <2>3, <3>2
            <6> QED
              BY <2>3, <4>4, <6>1, PlainIs DEF NextChar
          <5>2. NextChar # "<" /\ NextChar # "tick"
            <6>1. "<" \in Character /\ "tick" \in Character
              BY DEF Character
            <6> QED
              BY <5>1, <6>1, TextAssumption DEF Identifier
          <5>3. Continue(Generic(Add(frame.sb, NextChar)))
            BY <3>3, <3>6, <4>4, <5>2 DEF ScanGeneric
          <5>4. /\ index' = index + 1 /\ tokenStart' = p /\ UNCHANGED scanned
                /\ frame'.in = "generic" /\ frame'.sb = Add(frame.sb, NextChar)
            BY <3>1, <5>3 DEF Continue, Generic
          <5>5. TextTokens' = TextTokens /\ ~Between'
            BY <5>4 DEF TextTokens, Between
          <5>6. \A i \in p + 1..index + 1 : CharAt(i) \notin Blank
            <6>1. \A i \in p + 1..index + 1 : i \in p + 1..index \/ i = index + 1
              BY <2>3
            <6> QED
              BY <3>2, <4>4, <6>1 DEF NextChar
          <5> QED
            BY <3>2, <4>2, <5>4, <5>5, <5>6
        <4> QED
          BY <4>3, <4>4
      <3> QED
        BY <3>5, <3>6
    <2> QED
      BY <2>4, <2>5 DEF PlainInv, Between
  <1> QED
    BY <1>1, <1>2

\* The prefix is the one token at first, and no word ends in it.
LEMMA TextInit ==
  ASSUME TokenizerInit
  PROVE  PathInv /\ TrailInv /\ PlainInv
  <1>1. message \in Message /\ Length \in Nat /\ message.prefix \in Nat
    BY TextIs DEF TokenizerInit
  <1>2. frame = Top /\ frame.in = "top" /\ index = message.prefix
    BY DEF TokenizerInit, Top
  <1>3. Len(scanned) = 1 /\ scanned[1].to = message.prefix
    BY DEF TokenizerInit, CommandToken
  <1>4. PathInv
    BY <1>2 DEF PathInv
  <1>5. TrailInv
    <2>1. TokensInOrder
      <3>1. 1..Len(scanned) - 1 = {}
        BY <1>3
      <3> QED
        BY <3>1 DEF TokensInOrder
    <2> QED
      BY <1>1, <1>2, <1>3, <2>1 DEF TrailInv, LastSaved, Between
  <1>6. TextTokens = {}
    <2>1. 2..Len(scanned) = {}
      BY <1>3
    <2> QED
      BY <2>1 DEF TextTokens
  <1>7. WordTokens(index) = {}
    <2>1. ASSUME NEW w \in ReadWords
          PROVE  ~(w[2] <= message.prefix)
      <3>1. PICK a \in Nat, b \in Nat : w = <<a, b>> /\ w[2] = b
        BY <1>1, WordsArePairs
      <3>2. b \in message.prefix + 1..Length
        BY <3>1, WordIs
      <3> QED
        BY <1>1, <3>1, <3>2
    <2> QED
      BY <1>2, <2>1 DEF WordTokens, WordsUpTo
  <1> QED
    BY <1>1, <1>2, <1>4, <1>5, <1>6, <1>7 DEF PlainInv, Boundary, Between

\* Tokens are in the order of the text, and two share a part of it only if one is a
\* mention that the other, generic one is saved with; and of a text of letters and
\* blanks every word is one generic token, but for the first character behind the
\* prefix, which `nextToken` loses.
THEOREM LettersKept == TokenizerSpec => []LettersAreKept
  <1> DEFINE TextInv == ScanInv /\ PathInv /\ TrailInv /\ PlainInv
  <1>1. TokenizerInit => TextInv
    BY ScanInvInit, TextInit
  <1>2. TextInv /\ [Tokenize]_tokenizerVars => TextInv'
    BY ScanInvNext, PathInvNext, TrailInvNext, PlainInvNext
  <1>3. TextInv => LettersAreKept
    <2> SUFFICES ASSUME TextInv, Done, IsPlain, Len(scanned) < MaxTokens
                 PROVE  TextTokens = {WordToken(ReadPart(w)) : w \in Words \ {LostWord}}
      BY DEF LettersAreKept, TrailInv, WordsAreTokens
    <2>1. index = Length /\ TextTokens = WordTokens(index) /\ message \in Message
      BY DEF PlainInv, Between, Done, ScanInv, CursorInv
    <2>2. \A w \in ReadWords : w[2] <= Length
      <3>1. ASSUME NEW w \in ReadWords
            PROVE  w[2] <= Length
        <4>1. PICK a \in Nat, b \in Nat : w = <<a, b>> /\ w[2] = b
          BY <2>1, WordsArePairs
        <4>2. b \in message.prefix + 1..Length
          BY <4>1, WordIs
        <4> QED
          BY <2>1, <4>1, <4>2, TextIs
      <3> QED
        BY <3>1
    <2>3. TextTokens = {WordToken(w) : w \in ReadWords}
      BY <2>1, <2>2 DEF WordTokens, WordsUpTo
    <2> QED
      BY <2>1, <2>3, ReadWordsAre
  <1> QED
    BY <1>1, <1>2, <1>3, PTL DEF TokenizerSpec

\* A mention that closes inside of a generic token is met for ever: the cursor
\* goes back to before its bracket with what the generic token had by then, so
\* that the tokenizer never ends (`scanGenericToken`).
THEOREM ClosedInsideNeverEnds ==
  TokenizerSpec => [](frame.in = "mention" /\ ClosesInside => []~Done)
  <1> DEFINE PathsHold == ScanInv /\ PathInv
  <1>1. TokenizerInit => PathsHold
    BY ScanInvInit, TextInit
  <1>2. PathsHold /\ [Tokenize]_tokenizerVars => PathsHold'
    BY ScanInvNext, PathInvNext
  <1>3. PathsHold /\ frame.in = "mention" /\ ClosesInside => InLoop
    <2> SUFFICES ASSUME ScanInv, PathInv, frame.in = "mention", ClosesInside
                 PROVE  InLoop
      OBVIOUS
    <2>1. frame \in Mentions /\ frame.at \in tokenStart + 1..index
          /\ frame.outer \in Seq(Character)
      BY FrameIs DEF ScanInv, CursorInv, Mentions, ClosesInside
    <2>2. frame.at \in Nat /\ index \in Nat /\ tokenStart \in Nat
      BY <2>1, TextIs DEF Mentions, ScanInv, CursorInv
    <2>3. PICK at \in Nat, outer \in Seq(Character), n \in Nat :
              at = frame.at /\ outer = frame.outer /\ n = index - frame.at
      <3>1. index - frame.at \in Nat
        BY <2>1, <2>2
      <3> QED
        BY <2>1, <2>2, <3>1
    <2>4. PICK F : Path(F, at, outer, n) /\ F[n] = frame
      BY <2>3 DEF PathInv
    <2>5. at + n + 1 = index + 1 /\ index = at + n /\ n \in 0..n
      <3>1. index = at + n
        BY <2>2, <2>3
      <3>2. n \in 0..n
        OBVIOUS
      <3> QED
        BY <3>1, <3>2
    <2>6. MentionEnds(F[n], CharAt(at + n + 1)) /\ outer # None
      BY <2>3, <2>4, <2>5 DEF ClosesInside, NextChar
    <2>7. \E j \in 0..n : index = at + j /\ frame = F[j]
      BY <2>4, <2>5
    <2>8. LoopAt(F, at, outer, n)
      BY <2>3, <2>4, <2>6, <2>7 DEF LoopAt
    <2> QED
      BY <2>8 DEF InLoop
  <1>4. PathsHold /\ InLoop /\ [Tokenize]_tokenizerVars => InLoop'
    <2>1. ASSUME InLoop, UNCHANGED tokenizerVars
          PROVE  InLoop'
      <3>1. PICK F, at, outer, n : LoopAt(F, at, outer, n)
        BY <2>1 DEF InLoop
      <3>2. UNCHANGED <<message, index, frame>>
        BY <2>1 DEF tokenizerVars
      <3>3. /\ Path(F, at, outer, n)'
            /\ MentionEnds(F[n], CharAt(at + n + 1))'
        BY <3>1, <3>2, PathStays, TextStays DEF LoopAt
      <3>4. LoopAt(F, at, outer, n)'
        BY <3>1, <3>2, <3>3 DEF LoopAt
      <3> QED
        BY <3>4 DEF InLoop
    <2> QED
      BY <2>1, LoopStep
  <1>5. InLoop => ~Done
    <2> SUFFICES ASSUME InLoop PROVE ~Done
      OBVIOUS
    <2>1. PICK F, at, outer, n : LoopAt(F, at, outer, n)
      BY DEF InLoop
    <2>2. CASE frame = Generic(outer)
      BY <2>2 DEF Done, Generic
    <2>3. CASE \E j \in 0..n : frame = F[j]
      <3>1. frame \in Mentions
        BY <2>1, <2>3 DEF LoopAt, Path
      <3> QED
        BY <3>1 DEF Done, Mentions
    <2> QED
      BY <2>1, <2>2, <2>3 DEF LoopAt
  <1> QED
    BY <1>1, <1>2, <1>3, <1>4, <1>5, PTL DEF TokenizerSpec
===============================================================================
