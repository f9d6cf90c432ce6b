------------------------------ MODULE SqlLexer ------------------------------
(***************************************************************************)
(* The scanner of a query (src/parser/sql.lex), for the words and the      *)
(* signs of QueryText.  As flex does it takes the longest match, and of    *)
(* two that are equal the rule that comes first.                           *)
(***************************************************************************)
EXTENDS QueryText

\* A token, what is left of its text, where the scan goes on, and the callbacks of
\* parser.cpp that its rule makes.  Comments, blanks and other symbols make no token.
Lexeme(kind, text, next, calls) ==
    [kind |-> kind, text |-> text, next |-> next, calls |-> calls]

Nothing(next, calls) == Lexeme("none", <<>>, next, calls)

SignToken ==
    {[text |-> <<"&", "&">>, kind |-> "AND"],     [text |-> <<"|", "|">>, kind |-> "OR"],
     [text |-> <<"=">>, kind |-> "EQUAL"],        [text |-> <<"<", "=", ">">>, kind |-> "EQUAL"],
     [text |-> <<"!", "=">>, kind |-> "N_EQUAL"], [text |-> <<"<", ">">>, kind |-> "N_EQUAL"],
     [text |-> <<">", "=">>, kind |-> "N_EQUAL"], [text |-> <<"<", "=">>, kind |-> "N_EQUAL"],
     [text |-> <<">">>, kind |-> "N_EQUAL"],      [text |-> <<"<">>, kind |-> "N_EQUAL"],
     [text |-> <<">", ">">>, kind |-> "SHIFT"],   [text |-> <<"<", "<">>, kind |-> "SHIFT"],
     [text |-> <<"*">>, kind |-> "MULTIPLY"],     [text |-> <<"/">>, kind |-> "DIVIDE"],
     [text |-> <<"^">>, kind |-> "POWER"],        [text |-> <<"|">>, kind |-> "BIT_OR"],
     [text |-> <<"&">>, kind |-> "BIT_AND"],      [text |-> <<"(">>, kind |-> "O_BRACE"],
     [text |-> <<")">>, kind |-> "C_BRACE"],      [text |-> <<Comma>>, kind |-> "COMMA"],
     [text |-> <<".">>, kind |-> "DOT"]}

Starts(s, i, text) == \A k \in DOMAIN text : At(s, i + k - 1) = text[k]

-----------------------------------------------------------------------------
\* [a-z_][a-z0-9\._]*, or a keyword of the same length.
Word(s, i) ==
    LET end == After(s, i + 1, WordSymbols \cup {"."})
        text == SubSeq(s, i, end - 1)
        calls == CASE text = <<"or">> -> {"or"} [] text = <<"union">> -> {"union"} [] OTHER -> {}
    IN  Lexeme(IF Len(text) = 1 /\ s[i] \in DOMAIN WordToken THEN WordToken[s[i]] ELSE "STRING",
               text, end, calls)

\* 0x[0-9a-f]+ or [0-9]+
Number(s, i) ==
    LET hex == Starts(s, i, <<"0", "x">>) /\ At(s, i + 2) \in Digits \cup HexLetters
        end == IF hex THEN After(s, i + 2, Digits \cup HexLetters) ELSE After(s, i, Digits)
    IN  Lexeme("INTEGER", <<>>, end, {})

\* get_q_string: to the first quote that no escape precedes and no quote follows.  What
\* is not closed, like a comment, goes to one place past the end.
StringEnd(s, i) ==
    LET Doubled(j) == s[i] # BackQuote /\ At(s, j + 1) = s[i]
        scan[j \in (i + 1)..(Len(s) + 2)] ==
          IF j > Len(s) THEN Len(s) + 1
          ELSE IF s[j] = s[i] /\ ~Doubled(j) THEN j
          ELSE scan[IF s[j] \in {s[i], Escape} THEN j + 2 ELSE j + 1]
    IN  scan[i + 1]

get_q_string(s, i) ==
    LET end == StringEnd(s, i)
        kind == CASE s[i] = "'" -> "Q_STRING" [] s[i] = "\"" -> "DQ_STRING" [] OTHER -> "NAME"
    IN  Lexeme(kind, SubSeq(s, i + 1, end - 1), end + 1, {})

\* From /* to the first */.
Comment(s, i) ==
    LET ends == {j \in (i + 2)..(Len(s) - 1) : s[j] = "*" /\ s[j + 1] = "/"}
    IN  Nothing(Min({j + 2 : j \in ends} \cup {Len(s) + 2}), {"comment"})

LineComment(s, i) ==
    LET eol == Min({j \in i..Len(s) : s[j] = Newline} \cup {Len(s) + 1})
    IN  Nothing(After(s, eol, {Newline}), {"comment"})

OpSigns == {"%", "+", "-", "~", "!"}

BasicOp(s, i) == Lexeme("BASIC_OP", <<>>, After(s, i, OpSigns \cup Spaces), {})

\* The longer of a comment and an operator that begin with two dashes.
Dashes(s, i) ==
    IF BasicOp(s, i).next > LineComment(s, i).next THEN BasicOp(s, i) ELSE LineComment(s, i)

\* A separator is told from the end of the query by the symbols read so far.
Separator(s, i) == Lexeme("END", <<>>, i + 1, IF i < Len(s) - 1 THEN {"separator"} ELSE {})

Sign(s, i) ==
    LET fits == {t \in SignToken : Starts(s, i, t.text)}
        longest == CHOOSE t \in fits : \A u \in fits : Len(u.text) <= Len(t.text)
    IN  IF fits = {} THEN Nothing(i + 1, {})
        ELSE Lexeme(longest.kind, <<>>, i + Len(longest.text),
                    IF longest.text = <<"|", "|">> THEN {"or"} ELSE {})

\* yylex at a place of the query.
yylex(s, i) ==
    CASE s[i] \in Keywords \cup OwnTables \cup Names -> Word(s, i)
      [] s[i] \in Digits -> Number(s, i)
      [] s[i] \in Quotes \cup {BackQuote} -> get_q_string(s, i)
      [] s[i] = ";" -> Separator(s, i)
      [] s[i] = "#" -> LineComment(s, i)
      [] Starts(s, i, <<"/", "*">>) -> Comment(s, i)
      [] Starts(s, i, <<"-", "-">>) -> Dashes(s, i)
      [] s[i] \in OpSigns /\ ~Starts(s, i, <<"-", "-">>) /\ ~Starts(s, i, <<"!", "=">>) ->
           BasicOp(s, i)
      [] OTHER -> Sign(s, i)

\* The actions that read symbols for themselves, get_q_string and the one of a comment,
\* have read past the end of the query.
ReadsPastEnd(s, x) ==
    \/ x.next > Len(s) + 1
    \/ x.next = Len(s) + 1 /\ x.kind \in {"Q_STRING", "DQ_STRING"}

\* All lexemes of a query, in order.
Lexemes(s) ==
    LET from[i \in 1..(Len(s) + 2)] ==
          IF i > Len(s) THEN <<>> ELSE <<yylex(s, i)>> \o from[yylex(s, i).next]
    IN  from[1]

\* Its tokens, in order.
TokensOf(s) ==
    LET from[i \in 1..(Len(s) + 2)] ==
          IF i > Len(s) THEN <<>>
          ELSE LET x == yylex(s, i)
               IN  (IF x.kind = "none" THEN <<>> ELSE <<x>>) \o from[x.next]
    IN  from[1]

Values == {"INTEGER", "Q_STRING", "DQ_STRING"}

\* The shape of a query: its tokens, but for the values and the blanks.
Shape(s) ==
    LET tokens == SelectSeq(Lexemes(s), LAMBDA x : x.kind \notin Values \cup {"none"})
    IN  [i \in DOMAIN tokens |-> <<tokens[i].kind, tokens[i].text>>]

\* A query with a question mark for each of its values.
Skeleton(s) ==
    LET from[i \in 1..(Len(s) + 2)] ==
          IF i > Len(s) THEN <<>>
          ELSE LET x == yylex(s, i)
               IN  (IF x.kind \in Values THEN <<"?">> ELSE SubSeq(s, i, x.next - 1)) \o from[x.next]
    IN  from[1]
=============================================================================
