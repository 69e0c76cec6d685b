--------------------------------- MODULE GqlLexer --------------------------------
(***************************************************************************)
(* The lexer of synaptica-gql (lexer.rs).                                  *)
(*                                                                         *)
(* A text is a sequence of characters, each a string of length one; "\n"   *)
(* ends a line.  The state of Lexer is the record lx: the input, the       *)
(* position of the next character, its line and its column.  A routine     *)
(* returns the state after it, the token and whether it succeeded.  The    *)
(* text of a token is a sequence of characters, of an integer its value.   *)
(***************************************************************************)
EXTENDS GqlAst, Integers, FiniteSets

CONSTANTS Letters,       \* the letters and _
          KeywordOf,     \* word (sequence of letters, any case) -> keyword, where it is one
          MaxLiteral     \* i64::MAX, the largest integer literal

Digits == {"0", "1", "2", "3", "4", "5", "6", "7", "8", "9"}
DigitValue == [d \in Digits |-> CHOOSE v \in 0..9 : ToString(v) = d]
Whitespace == {" ", "\t", "\n", "\f", "\r"}

NewLexer(text) == [input |-> text, pos |-> 1, line |-> 1, column |-> 1]

char(lx, k) == IF lx.pos + k <= Len(lx.input) THEN lx.input[lx.pos + k] ELSE "eof"
is_eof(lx)  == lx.pos > Len(lx.input)

NoLineReset(lx) ==                                 \* fault: the column runs on across lines
    [lx EXCEPT !.pos = IF is_eof(lx) THEN @ ELSE @ + 1,
               !.line = IF char(lx, 0) = "\n" THEN @ + 1 ELSE @,
               !.column = IF is_eof(lx) THEN @ ELSE @ + 1]
step(lx) ==
    IF is_eof(lx) THEN lx
    ELSE [lx EXCEPT !.pos = @ + 1,
                    !.line = IF char(lx, 0) = "\n" THEN @ + 1 ELSE @,
                    !.column = IF char(lx, 0) = "\n" THEN 1 ELSE @ + 1]

current_span(lx) == [line |-> lx.line, column |-> lx.column, offset |-> lx.pos - 1]

Steps(lx, n) ==
    LET at[i \in 0..n] == IF i = 0 THEN lx ELSE step(at[i - 1])
    IN at[n]

(* A loop of advance() that ends at the nearest of some distances, or with *)
(* the text.                                                               *)
Ahead(lx) == 0..(Len(lx.input) + 1 - lx.pos)
Nearest(ns) == CHOOSE n \in ns : \A m \in ns : n <= m
Goto(lx, stops) == Steps(lx, Nearest(stops \cup {Len(lx.input) + 1 - lx.pos}))

SkipWhile(lx, S) == Goto(lx, {k \in Ahead(lx) : char(lx, k) \notin S})
skip_whitespace(lx) == SkipWhile(lx, Whitespace)
Slice(from, to) == SubSeq(from.input, from.pos, to.pos - 1)

Lexed(lx, kind, text) == [lx |-> lx, ok |-> TRUE, token |-> <<kind, text>>]
LexError(lx)          == [lx |-> lx, ok |-> FALSE, token |-> <<"error", <<>>>>]

lex_single_line_comment(lx) ==
    LET body == Steps(lx, 2)
        end  == Goto(body, {k \in Ahead(body) : char(body, k) = "\n"})
    IN Lexed(end, "comment", Slice(body, end))

lex_multi_line_comment(lx) ==
    LET body == Steps(lx, 2)
        end  == Goto(body, {k \in Ahead(body) : char(body, k) = "*" /\ char(body, k + 1) = "/"})
    IN IF is_eof(end) THEN LexError(end)
       ELSE Lexed(Steps(end, 2), "comment", Slice(body, end))

(* A turn of the loop over the characters of a string: a doubled quote     *)
(* stands for one quote.                                                   *)
BothQuotes(b) ==                                   \* fault: the escape stays in the string
    IF b.closed \/ is_eof(b.lx) THEN b
    ELSE IF char(b.lx, 0) # "'"
         THEN [lx |-> step(b.lx), text |-> Append(b.text, char(b.lx, 0)), closed |-> FALSE]
    ELSE IF char(b.lx, 1) = "'"
         THEN [lx |-> Steps(b.lx, 2), text |-> b.text \o <<"'", "'">>, closed |-> FALSE]
    ELSE [lx |-> step(b.lx), text |-> b.text, closed |-> TRUE]
StringTurn(b) ==
    IF b.closed \/ is_eof(b.lx) THEN b
    ELSE IF char(b.lx, 0) # "'"
         THEN [lx |-> step(b.lx), text |-> Append(b.text, char(b.lx, 0)), closed |-> FALSE]
    ELSE IF char(b.lx, 1) = "'"
         THEN [lx |-> Steps(b.lx, 2), text |-> Append(b.text, "'"), closed |-> FALSE]
    ELSE [lx |-> step(b.lx), text |-> b.text, closed |-> TRUE]

lex_string(lx) ==
    LET body[i \in Ahead(lx)] ==
            IF i = 0 THEN [lx |-> step(lx), text |-> <<>>, closed |-> FALSE]
            ELSE StringTurn(body[i - 1])
        end == body[Len(lx.input) + 1 - lx.pos]
    IN IF end.closed THEN Lexed(end.lx, "string", end.text) ELSE LexError(end.lx)

(* digits [. digits] [e [sign] digits]; a dot without a digit after it is  *)
(* not part of the number, an e without one is an error.  An integer must  *)
(* fit 64 bits.                                                            *)
IntegerOf(ds) ==
    LET value[n \in 0..Len(ds)] ==
            IF n = 0 THEN 0 ELSE 10 * value[n - 1] + DigitValue[ds[n]]
    IN value[Len(ds)]

lex_number(lx) ==
    LET int   == SkipWhile(lx, Digits)
        dot   == char(int, 0) = "." /\ char(int, 1) \in Digits
        frac  == IF dot THEN SkipWhile(step(int), Digits) ELSE int
        exp   == char(frac, 0) \in {"e", "E"}
        sign  == IF char(step(frac), 0) \in {"+", "-"} THEN Steps(frac, 2) ELSE step(frac)
        end   == IF exp THEN SkipWhile(sign, Digits) ELSE frac
    IN IF exp /\ char(sign, 0) \notin Digits THEN LexError(sign)
       ELSE IF dot \/ exp THEN Lexed(end, "float", Slice(lx, end))
       ELSE IF IntegerOf(Slice(lx, end)) > MaxLiteral THEN LexError(end)
       ELSE Lexed(end, "int", IntegerOf(Slice(lx, end)))

Word(lx) == SkipWhile(lx, Letters \cup Digits)

lex_identifier(lx) ==
    LET word == Slice(lx, Word(lx))
    IN IF word \in DOMAIN KeywordOf THEN Lexed(Word(lx), KeywordOf[word], <<>>)
       ELSE Lexed(Word(lx), "ident", word)

lex_parameter(lx) ==
    IF char(lx, 1) \notin Letters THEN LexError(step(lx))
    ELSE Lexed(Word(step(lx)), "parameter", Slice(step(lx), Word(step(lx))))

(* Of two symbols the longer one wins; != is written <> below.             *)
Pairs == {<<".", ".">>, <<"|", "|">>, <<"!", "=">>, <<"<", "=">>, <<"<", ">">>, <<"<", "-">>,
          <<">", "=">>, <<"-", ">">>}
Singles == {"+", "-", "*", "/", "%", "~", "(", ")", "[", "]", "{", "}", ",", ":", ";", "@", "=",
            ".", "<", ">"}
PairKind(a, b) == IF a = "!" THEN "<>" ELSE a \o b

lex_operator_or_delimiter(lx) ==
    LET a == char(lx, 0)
        b == char(lx, 1)
    IN IF <<a, b>> \in Pairs THEN Lexed(Steps(lx, 2), PairKind(a, b), <<>>)
       ELSE IF a \in Singles THEN Lexed(step(lx), a, <<>>)
       ELSE LexError(step(lx))

TokenAt(lx) ==
    LET a  == char(lx, 0)
        b  == char(lx, 1)
    IN IF is_eof(lx) THEN Lexed(lx, "eof", <<>>)
       ELSE IF a = "-" /\ b = "-" THEN lex_single_line_comment(lx)
       ELSE IF a = "/" /\ b = "*" THEN lex_multi_line_comment(lx)
       ELSE IF a = "'" THEN lex_string(lx)
       ELSE IF a \in Digits THEN lex_number(lx)
       ELSE IF a \in Letters THEN lex_identifier(lx)
       ELSE IF a = "$" THEN lex_parameter(lx)
       ELSE lex_operator_or_delimiter(lx)

next_token(lx) == TokenAt(skip_whitespace(lx))

(* A turn of tokenize: the next token and its span, up to the end of the   *)
(* text or an error.                                                       *)
TokenTurn(acc) ==
    LET t == next_token(acc.lx)
        st == [token |-> t.token, span |-> current_span(skip_whitespace(acc.lx))]
    IN IF acc.state # "lex" THEN acc
       ELSE IF ~t.ok THEN [lx |-> t.lx, tokens |-> acc.tokens, state |-> "error"]
       ELSE [lx |-> t.lx, tokens |-> Append(acc.tokens, st),
             state |-> IF t.token[1] = "eof" THEN "ok" ELSE "lex"]

tokenize(text) ==
    LET turn[i \in 0..(Len(text) + 1)] ==
            IF i = 0 THEN [lx |-> NewLexer(text), tokens |-> <<>>, state |-> "lex"]
            ELSE TokenTurn(turn[i - 1])
    IN turn[Len(text) + 1]

--------------------------------------------------------------------------------
(* The line and the column of every token are where its first character    *)
(* stands in the text, and the tokens come in the order of the text.       *)
Breaks(text, n) == {j \in 1..n : text[j] = "\n"}
LastBreak(text, n) == CHOOSE m \in {0} \cup Breaks(text, n) : \A j \in Breaks(text, n) : j <= m
SpanRight(span, text) ==
    /\ span.line = Cardinality(Breaks(text, span.offset)) + 1
    /\ span.column = span.offset - LastBreak(text, span.offset) + 1
SpansRight(tokens, text) ==
    \A i \in 1..Len(tokens) :
        /\ SpanRight(tokens[i].span, text)
        /\ i > 1 => tokens[i].span.offset > tokens[i - 1].span.offset
================================================================================
