--------------------------- MODULE CommandTokenizer ---------------------------
(***************************************************************************)
(* The tokenizer of command messages: the scanners of `CommandTokenizer`   *)
(* over one message, one character per step.  A scanner is a loop around   *)
(* `getChar`, so the loop that is running, with what it has collected, is  *)
(* the state of the machine (`frame`).                                     *)
(*                                                                         *)
(* The cursor is the 0-based index of the character read last, as in the   *)
(* code: `getChar` advances it and reads, and gives null at the length of  *)
(* the text.  The end of the message is the equality of the two, so a      *)
(* cursor beyond the length would never be at the end.                     *)
(***************************************************************************)
EXTENDS Integers, Sequences, SequencesExt

CONSTANTS
    Message,    \* [text: Seq(character), prefix: Nat], the prefix its length
    MaxTokens,  \* bound: a longer list of tokens is not told apart
    None        \* null, the character at the end of the message

\* A character is a string of itself or of its name, the backtick is "tick".
Digit == {"0", "1"}

\* isWhiteSpace and isNewLine; the two differ after a dash only.
WhiteSpace == {"space", "tab"}

NewLine == {"newline"}

Blank == WhiteSpace \union NewLine

\* isIdentifier
Identifier == {"a", "b", "A", "underscore"}

\* The apostrophe is read as the quotation mark is.
StringQuote == {"quote"}

\* The characters of a message.
Character ==
    Digit \union Blank \union Identifier \union StringQuote
        \union {"tick", "<", ">", "@", "#", "&", ":", "-", ".", "!"}

\* What getChar returns.
CharacterOrNone == Character \union {None}

MentionKind == {"UserMention", "RoleMention", "ChannelMention"}

ASSUME TextAssumption ==
    /\ \A m \in Message :
        m.text \in Seq(Character) /\ m.prefix \in 0..Len(m.text)
    /\ MaxTokens \in Nat
    /\ None \notin Character

VARIABLES
    message,     \* the message being tokenized
    index,       \* _index, the cursor
    tokenStart,  \* _tokenStart
    scanned,     \* _tokens
    frame        \* the scanner that is running, with its local variables

tokenizerVars == <<message, index, tokenStart, scanned, frame>>

Length == Len(message.text)

\* What getChar returns once the cursor is at i.
CharAt(i) == IF i < Length THEN message.text[i + 1] ELSE None

NextChar == CharAt(index + 1)

\* isCodeBlockPattern, with the cursor at i
IsCodeBlockPattern(i) == CharAt(i + 1) = "tick" /\ CharAt(i + 2) = "tick"

\* StringBuilder.append: null is not appended.
Add(sb, c) == IF c = None THEN sb ELSE Append(sb, c)

\* StringBuilder.toString joins the characters with the default separator.
Joined(sb) ==
    [i \in 1..(IF sb = <<>> THEN 0 ELSE 2 * Len(sb) - 1) |->
        IF i % 2 = 1 THEN sb[(i + 1) \div 2] ELSE "comma"]

CommandToken(kind, text, from, to) ==
    [kind |-> kind, text |-> text, from |-> from, to |-> to]

\* The frames: the loop over the tokens, and one for the loop of each scanner.
Top == [in |-> "top"]

Generic(sb) == [in |-> "generic", sb |-> sb]

Number(sb, at, negative) ==
    [in |-> "number", sb |-> sb, at |-> at, negative |-> negative]

Quoted(sb, quote) == [in |-> "string", sb |-> sb, quote |-> quote]

CodeBlock(sb) == [in |-> "codeBlock", sb |-> sb]

Parameter(sb) == [in |-> "parameter", sb |-> sb]

\* `at` is the cursor to go back to; `outer` what the generic token around the
\* mention has collected, or None if the mention begins a token.
Mention(at, outer) ==
    [in |-> "mention", at |-> at, outer |-> outer, sb |-> <<"<">>,
     kind |-> None, colons |-> 0]

------------------------------------------------------------------------------

\* tokenize up to its loop: the prefix is the first token.
TokenizerInit ==
    /\ message \in Message
    /\ index = message.prefix
    /\ tokenStart = 0
    /\ scanned = <<CommandToken("Prefix", SubSeq(message.text, 1, message.prefix),
                                0, message.prefix)>>
    /\ frame = Top

\* saveToken, up to the bound.
Save(kind, sb, to) ==
    scanned' = IF Len(scanned) < MaxTokens
               THEN Append(scanned, CommandToken(kind, Joined(sb), tokenStart, to))
               ELSE scanned

\* The scanner goes on with the next character.
Continue(next) ==
    /\ index' = index + 1
    /\ frame' = next
    /\ UNCHANGED <<message, tokenStart, scanned>>

\* The scanner saves its token with the cursor at `to`.
EndToken(kind, sb, to) ==
    /\ index' = to
    /\ frame' = Top
    /\ Save(kind, sb, to)
    /\ UNCHANGED <<message, tokenStart>>

\* The scanner gives up: the cursor is set to `at` and another one takes over.
Resync(at, next) ==
    /\ index' = at
    /\ frame' = next
    /\ UNCHANGED <<message, tokenStart, scanned>>

\* Variant: the end of the message is seen once it is passed.
PastEom == index > Length

AtEom == index = Length

------------------------------------------------------------------------------
\* nextToken: the first character decides on the scanner.

\* Variant: the start of the token before is kept.
BeginWithoutStart(cs) ==
    /\ frame = Top
    /\ ~AtEom
    /\ NextChar \in cs
    /\ UNCHANGED <<message, tokenStart>>

\* The next token begins with one of the characters cs.
Begin(cs) ==
    /\ frame = Top
    /\ ~AtEom
    /\ NextChar \in cs
    /\ tokenStart' = index
    /\ UNCHANGED message

\* nextToken calls itself after a blank, which is never the end of the message.
SkipBlank ==
    /\ Begin(Blank)
    /\ index' = index + 1
    /\ UNCHANGED <<scanned, frame>>

BeginNumber ==
    /\ Begin(Digit)
    /\ index' = index + 1
    /\ frame' = Number(<<NextChar>>, index + 1, FALSE)
    /\ UNCHANGED scanned

BeginString ==
    /\ Begin(StringQuote)
    /\ index' = index + 1
    /\ frame' = Quoted(<<>>, NextChar)
    /\ UNCHANGED scanned

\* A backtick opens a code block if two more follow, and a template otherwise.
BeginBacktick ==
    /\ Begin({"tick"})
    /\ IF IsCodeBlockPattern(index + 1)
       THEN /\ index' = index + 3
            /\ frame' = CodeBlock(<<"tick", "tick", "tick">>)
       ELSE /\ index' = index + 1
            /\ frame' = Quoted(<<>>, "tick")
    /\ UNCHANGED scanned

BeginMention ==
    /\ Begin({"<"})
    /\ index' = index + 1
    /\ frame' = Mention(index + 1, None)
    /\ UNCHANGED scanned

\* A dash is a token of its own before white space; anything else makes a
\* negative number of it, since isNumber holds of every character.
BeginDash ==
    LET next == CharAt(index + 2)
    IN  /\ Begin({"-"})
        /\ IF next \in WhiteSpace
           THEN /\ index' = index + 1
                /\ scanned' = Append(scanned, CommandToken("Generic", <<"-">>,
                                                           index, index + 1))
                /\ frame' = Top
           ELSE /\ index' = index + 2
                /\ frame' = Number(Add(<<"-">>, next), index + 2, TRUE)
                /\ UNCHANGED scanned

\* Variant: the first character is looked at and read again by the scanner.
BeginGenericByPeeking ==
    /\ Begin(CharacterOrNone \ (Blank \union Digit \union StringQuote \union {"tick", "<", "-"}))
    /\ index' = index
    /\ frame' = Generic(Add(<<>>, NextChar))
    /\ UNCHANGED scanned

\* Everything else begins a generic token.  The pattern for an emoji needs two
\* code units and never matches the one it is tried on.
BeginGeneric ==
    /\ Begin(CharacterOrNone \ (Blank \union Digit \union StringQuote \union {"tick", "<", "-"}))
    /\ index' = index + 1
    /\ frame' = Generic(Add(<<>>, NextChar))
    /\ UNCHANGED scanned

TokenizingDone ==
    /\ frame = Top
    /\ AtEom
    /\ frame' = [in |-> "done"]
    /\ UNCHANGED <<message, index, tokenStart, scanned>>

------------------------------------------------------------------------------
\* scanNumber, scanParameter

ScanNumber ==
    LET c == NextChar
        sb == frame.sb
    IN  /\ frame.in = "number"
        /\ IF AtEom THEN EndToken("Number", sb, index)
           ELSE IF c \in Digit \union {"."}
           THEN Continue(IF c = "." /\ Contains(sb, ".") THEN Generic(sb)
                         ELSE [frame EXCEPT !.sb = Append(sb, c)])
           ELSE IF c \in Blank THEN EndToken("Number", sb, index + 1)
           ELSE IF ~frame.negative THEN Continue(Generic(sb))
           ELSE IF c \notin Identifier THEN Continue(frame)
           \* scanParameter begins with a look for the second dash.
           ELSE Resync(IF CharAt(frame.at + 1) = "-" THEN frame.at + 1 ELSE frame.at,
                       Parameter(<<>>))

\* The token of a parameter is made but not saved.
ScanParameter ==
    LET c == NextChar
        sb == frame.sb
    IN  /\ frame.in = "parameter"
        /\ IF AtEom THEN EndToken("Generic", sb, index)
           ELSE IF c \in Blank THEN Continue(Top)
           ELSE IF c \in Identifier THEN Continue(Parameter(Append(sb, c)))
           ELSE EndToken("Generic", sb, index + 1)

\* Variant: a string ends without a quote at the first blank.
ScanOneWordString ==
    /\ frame.in = "string"
    /\ IF AtEom \/ NextChar \in Blank
       THEN Resync(tokenStart + 1, Generic(<<CharAt(tokenStart + 1)>>))
       ELSE IF NextChar = frame.quote
       THEN EndToken("StringLiteral", frame.sb, index + 1)
       ELSE Continue([frame EXCEPT !.sb = Add(@, NextChar)])

\* scanStringExpandable, scanStringLiteral and scanStringTemplate: without the
\* closing quote the opening one begins a generic token.
ScanString ==
    /\ frame.in = "string"
    /\ IF AtEom THEN Resync(tokenStart + 1, Generic(<<CharAt(tokenStart + 1)>>))
       ELSE IF NextChar = frame.quote
       THEN EndToken("StringLiteral", frame.sb, index + 1)
       ELSE Continue([frame EXCEPT !.sb = Add(@, NextChar)])

\* scanCodeBlock: the text is kept, which gets two of the three closing backticks; its
\* division into language and code is not.
ScanCodeBlock ==
    LET text == Add(frame.sb, NextChar)
    IN  /\ frame.in = "codeBlock"
        /\ IF AtEom THEN Resync(index, Generic(frame.sb))
           ELSE IF NextChar = "tick" /\ IsCodeBlockPattern(index + 1)
           THEN EndToken("CodeBlock", frame.sb \o <<"tick", "tick">>, index + 3)
           ELSE Continue(CodeBlock(text))

------------------------------------------------------------------------------
\* scanDiscordToken

\* Variant: the cursor goes back to before the bracket.
GiveUpBeforeMention ==
    Resync(frame.at - 1, IF frame.outer = None THEN Generic(<<"<">>) ELSE Generic(frame.outer))

\* What was taken for a mention is not one: the cursor goes back, and the
\* character at it is part of a generic token of its own or is lost.
GiveUpMention ==
    Resync(frame.at, IF frame.outer = None THEN Generic(<<"<">>) ELSE Generic(frame.outer))

\* The character c of the mention f: the frame with it taken in, or None.
MentionStep(f, c) ==
    LET taken == [f EXCEPT !.sb = Append(@, c)]
        inEmote == f.kind = "Emote"
    IN  CASE c \in Digit -> taken
          [] c \in {"#", "@"} ->
                IF inEmote THEN taken
                ELSE IF Len(f.sb) > 1 THEN None
                ELSE [taken EXCEPT !.kind =
                        IF c = "@" THEN "UserMention" ELSE "ChannelMention"]
          [] c = "&" ->
                IF inEmote THEN taken
                ELSE IF Len(f.sb) # 2 \/ ~Contains(f.sb, "@") THEN None
                ELSE [taken EXCEPT !.kind = "RoleMention"]
          [] c = ":" ->
                IF f.colons > 1 THEN None
                ELSE [taken EXCEPT !.kind = "Emote", !.colons = @ + 1]
          [] c = ">" /\ inEmote /\ f.colons # 2 -> taken
          [] OTHER -> None

\* The character c closes the mention f.
MentionEnds(f, c) ==
    /\ c = ">"
    /\ f.kind # None
    /\ f.kind = "Emote" => f.colons = 2

\* Inside of a generic token the mention is saved, the generic token after it,
\* and the cursor goes back to before the mention, which is then met again.
ScanMention ==
    /\ frame.in = "mention"
    /\ IF AtEom THEN GiveUpMention
       ELSE IF ~MentionEnds(frame, NextChar)
       THEN IF MentionStep(frame, NextChar) = None THEN GiveUpMention
            ELSE Continue(MentionStep(frame, NextChar))
       ELSE IF frame.outer = None
       THEN EndToken(frame.kind, Append(frame.sb, ">"), index + 1)
       ELSE LET mention == CommandToken(frame.kind, Joined(Append(frame.sb, ">")),
                                        tokenStart, index + 1)
                before == CommandToken("Generic", Joined(frame.outer),
                                       tokenStart, frame.at - 1)
            IN  /\ index' = frame.at - 1
                /\ frame' = Generic(frame.outer)
                /\ scanned' = IF Len(scanned) < MaxTokens
                              THEN scanned \o <<mention, before>> ELSE scanned
                /\ UNCHANGED <<message, tokenStart>>

------------------------------------------------------------------------------
\* scanGenericToken

ScanGeneric ==
    LET c == NextChar
        sb == frame.sb
    IN  /\ frame.in = "generic"
        /\ IF AtEom THEN EndToken("Generic", sb, index)
           ELSE IF c \in Blank THEN EndToken("Generic", sb, index + 1)
           ELSE IF c = "<" THEN Continue(Mention(index + 1, sb))
           ELSE IF c = "tick" /\ IsCodeBlockPattern(index + 1)
           THEN EndToken("Generic", sb, index)
           ELSE IF c = "tick" THEN Continue(frame)
           ELSE Continue(Generic(Add(sb, c)))

Tokenize ==
    \/ SkipBlank \/ BeginNumber \/ BeginString \/ BeginBacktick
    \/ BeginMention \/ BeginDash \/ BeginGeneric
    \/ ScanNumber \/ ScanParameter \/ ScanString \/ ScanCodeBlock
    \/ ScanMention \/ ScanGeneric
    \/ TokenizingDone

\* tokenize is synchronous: nothing can stop it between two characters.
TokenizerSpec ==
    TokenizerInit /\ [][Tokenize]_tokenizerVars /\ WF_tokenizerVars(Tokenize)

------------------------------------------------------------------------------
\* Properties

Done == frame.in = "done"

TokenKind == {"Prefix", "Generic", "Number", "StringLiteral", "CodeBlock", "Emote"}
            \union MentionKind

\* The cursor is in the text or at its length: `atEom` compares for equality,
\* so a scanner that read past the end would never stop.
TokenizerTypeOK ==
    /\ message \in Message
    /\ index \in 0..Length
    /\ tokenStart \in 0..index
    /\ \A i \in DOMAIN scanned :
        /\ scanned[i].kind \in TokenKind
        /\ 0 <= scanned[i].from /\ scanned[i].from <= scanned[i].to
        /\ scanned[i].to <= Length
    /\ frame.in \in {"top", "generic", "number", "string", "codeBlock",
                     "parameter", "mention", "done"}

\* A token begins where the one before it ends or later.  Two that overlap are
\* a generic token and a mention inside of it, saved as if it began there too
\* (`scanGenericToken`).
TokensInOrder ==
    \A i \in 1..Len(scanned) - 1 :
        scanned[i + 1].from < scanned[i].to =>
            /\ scanned[i + 1].from = scanned[i].from
            /\ {scanned[i].kind, scanned[i + 1].kind}
                    \in {{"Generic", k} : k \in MentionKind \union {"Emote"}}

\* Where the words of the message are: the maximal runs of other than blanks behind
\* the prefix.
Words ==
    LET inWord(i) == CharAt(i) \notin Blank
        first == message.prefix
    IN  {w \in (first..Length) \X (first..Length) :
            /\ w[1] < w[2]
            /\ \A i \in w[1]..w[2] - 1 : inWord(i)
            /\ w[1] = first \/ ~inWord(w[1] - 1)
            /\ w[2] = Length \/ ~inWord(w[2])}

\* What getChar reads of a word: it advances before it reads, so that the character
\* behind the prefix is lost.
ReadPart(w) == IF w[1] = message.prefix THEN <<w[1] + 1, w[2]>> ELSE w

\* The word that is lost with it, if it has no other character.
LostWord == <<message.prefix, message.prefix + 1>>

IsPlain ==
    \A i \in message.prefix + 1..Length : message.text[i] \in Identifier \union Blank

\* The generic token of the characters w, which begins at the one before them.  Its
\* text has a comma between any two characters.
WordToken(w) ==
    CommandToken("Generic", Joined(SubSeq(message.text, w[1] + 1, w[2])), w[1] - 1, w[2])

\* The tokens after the prefix that have a text
TextTokens ==
    {scanned[i] : i \in {j \in 2..Len(scanned) : scanned[j].text # <<>>}}

\* Of a text of letters and blanks every word is one generic token, and no other
\* token has a text; but the first word, if it follows directly on the prefix, lacks
\* its first character (`getChar` in `nextToken`), and the characters of a token are
\* joined by commas (`StringBuilder.toString`).
WordsAreTokens ==
    Done /\ IsPlain /\ Len(scanned) < MaxTokens =>
        TextTokens = {WordToken(ReadPart(w)) : w \in Words \ {LostWord}}

\* Tokens are in the order of the text and share no part of it, except a mention
\* and the generic token around it; and of a text of letters and blanks nothing is
\* lost, added or divided but for the first character behind the prefix, which is
\* lost, and the commas (`tokenize`).
LettersAreKept ==
    /\ TokensInOrder
    /\ WordsAreTokens

\* Every word behind the prefix is a generic token with that text, as `ban` is in
\* `!ban` according to CommandTokenKind.
EveryWordIsAToken ==
    Done /\ IsPlain /\ Len(scanned) < MaxTokens =>
        \A w \in Words : \E t \in TextTokens :
            t.kind = "Generic" /\ t.text = SubSeq(message.text, w[1] + 1, w[2])

\* What follows in the text on an opening character decides: a quote that is
\* closed makes a string, whatever the characters between (`scanStringIdentifier`).
ClosedQuotesAreStrings ==
    [][frame.in = "string" /\ frame'.in = "generic"
        => \A i \in tokenStart + 2..Length - 1 : CharAt(i) # frame.quote]_tokenizerVars

\* The tokenizer comes to an end, unless it finds one mention inside of a
\* generic token over and over (`scanGenericToken`, the loop in `tokenize`).
TokenizingEnds ==
    <>Done \/ []<>(frame.in = "mention" /\ frame.outer # None
                          /\ MentionEnds(frame, NextChar))

===============================================================================
