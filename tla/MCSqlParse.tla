----------------------------- MODULE MCSqlParse -----------------------------
(***************************************************************************)
(* SqlParse for TLC: the queries, and a file whose section block does not  *)
(* compile.                                                                *)
(***************************************************************************)
EXTENDS SqlParse

Upto(n, set) == UNION {[1..k -> set] : k \in 1..n}

Where(c) == <<"select", " ", "x", " ", "from", " ", "y", " ", "where", " ">> \o c

\* Short texts of any kind, and longer ones of quotes.
MCShort == Upto(4, {"x", "1", "'", Escape, " ", Newline, ",", "(", "=", "or"})
           \cup [1..5 -> {"'", "\"", Escape, "x", "=", "1"}]

MCConditions == {Where(c) : c \in Upto(4, {"x", "1", "+", "=", "("})}

MCSides == {<<"x">>, <<"1">>, <<"true">>, <<"a">>, <<BackQuote, "a", BackQuote>>, <<"pwd">>,
            <<"'", "'">>, <<"\"", "x", "\"">>, <<"a", "(", ")">>, <<"x", "(", "*", ")">>,
            <<"y", "(", "1", ",", "x", ")">>, <<"(", "x", ")">>, <<"x", ".", "y">>,
            <<"1", "+", "x">>, <<"+", "x">>}

MCEqualities ==
    {Where(l \o <<s>> \o r) : l, r \in MCSides, s \in {"=", "<"}}

MCOther ==
    {Where(c) : c \in
       {<<"x", " ", "in", " ", "(", "1", ",", "x", ")", " ", "or", " ", "1">>,
        <<"x", " ", "not", " ", "in", " ", "(", "x", ")">>,
        <<"x", " ", "not", " ", "in", "(", "select", " ", "x", " ", "from", " ", "x", ")">>,
        <<"not", " ", "(", "x", "=", "1", ")", " ", "and", " ", "x", " ", "not", " ", "1">>,
        <<"x", " ", "in", "(", "select", " ", "x", ")", " ", "and", " ", "x", " ", "not", "=", "1">>,
        <<"x", "=", "1", "<", "x">>,
        <<"x", " ", "not", " ", "=", "1", " ", "not", " ", "=", "x">>,
        <<"case", " ", "when", " ", "x", " ", "then", " ", "1", " ", "when", " ", "x", " ", "then", " ",
          "y", "(", ")", " ", "end">>,
        <<"case", " ", "when", " ", "x", " ", "then", " ", "1", " ", "else", " ", "x", " ", "end">>,
        <<"case", " ", "x", " ", "when", " ", "1", " ", "then", " ", "1", " ", "end">>,
        <<"case", " ", "x", " ", "when", " ", "1", " ", "then", " ", "1", " ", "else", " ", "x",
          " ", "end">>,
        <<"x", ";", "select", " ", "x">>,
        <<"x", " ", "union", " ", "select", " ", "1">>,
        <<"x", "/", "*", "x", "*", "/", "=", "1">>,
        <<"x", "/", "*", "x">>,
        <<"x", "*", "1", "^", "x", "/", "1", "|", "x", "&", "1", "<", "<", "x">>}}
    \cup
    {<<"delete", " ", "from", " ", "x", " ", "where", " ", "x">>,
     <<"delete", " ", "from", " ", "x", ",", BackQuote, "a", BackQuote, ";">>,
     <<"select", " ", "*", ",", "x", " ", ".", "*", " ", "from", " ", "y", " ", "union", " ",
       "select", " ", "x", " ", ".", "y", ";">>,
     <<"select", " ", "*", ",", "x", ".", "*">>,
     <<"select", " ", "x", " ", "not", "=", "1", ",", "x", "=", "1", " ", "in", "(", "1", ")">>,
     <<"select", " ", "(", "select", " ", "x", ")", " ", "from", " ", "(", "select", " ", "x", ")">>,
     <<"select", " ", "case", " ", "when", " ", "x", " ", "then", " ", "1", " ", "end">>,
     <<"select", " ", BackQuote, "a", BackQuote, ".", "x", " ", "from", " ", "x", ";">>,
     <<"select", " ", "'", " ", "where", " ", "1", "=", "1">>,
     Where(<<"x", "-", "-", "=", "x", "-", "-">>),
     Where(<<"x", "+", "'", "=", "x", "+", "'">>),
     Where(<<"(", "(", "select", " ", "y", " ", "from", " ", "y", " ", "where", " ", "x", ")", "=",
             "x", ")">>),
     Where(<<"y", " ", "(", "x", ")", "<", "=", ">", "y", "(", " ", "x", ")">>)}

\* A text from its words, with a blank behind each.
Spaced(words) == FlattenSeq([i \in DOMAIN words |-> <<words[i], " ">>])

\* The clauses, joins and functions.
MCClauses ==
    {Where(Spaced(c)) : c \in
       {<<"x", "between", "x", "and", "1">>,
        <<"x", "between", "1", "and", "x", "xor", "1", "like", "1">>,
        <<"x", "is", "null", "group", "by", "x", ",", "y", "asc", "having", "x", "=", "1">>,
        <<"x", "is", "not", "null", "order", "by", "x", ",", "y", "(", ")", "limit", "1", ",", "1">>,
        <<"exists", "(", "select", "1", ")", "procedure", "y", "(", "1", ")">>,
        <<"cast", "(", "x", "as", "int", ")", "=", "1">>,
        <<"binary", "x", "or", "cast", "(", "x", "as", "char", "(", "1", ")", ")">>,
        <<"y", "(", "distinct", "x", "order", "by", "x", ")", "=", "y", "(", "x", ")">>,
        <<"char", "(", "1", ")", "=", "char", "(", ")">>}}
    \cup {Spaced(c) : c \in
       {<<"select", "all", "distinct", "x", "as", "y", ",", "1", "'", "x", "'", "from", "x", "y">>,
        <<"select", "x", "between", "1", "and", "1", "is", "null", "from", "a", ".", "x">>,
        <<"select", "binary", "x", "from", "x", "left", "join", "y", "on", "x", "=", "x">>,
        <<"select", "x", "from", "x", "join", "y", "using", "(", "x", ")", "where", "false">>,
        <<"select", "a", ".", "y", ".", "*", "from", "x", "union", "select", "1", ";">>,
        <<"insert", "into", "x">>, <<"show">>,
        <<"delete", "ignore", "x", ",", "y", ".", "*", "from", "x", "where", "1", "=", "1">>,
        <<"delete", "a", ".", "y", ".", "*", "from", "x", "limit", "1">>,
        <<"update", "x", "set", "x", "=", "x", ",", "y", "=", "default", "where", "x", "=", "x">>}}

MCTexts == MCClauses \cup MCShort \cup MCConditions \cup MCEqualities \cup MCOther

MCFile == <<Section("bruteforce functions"), PatternLine(<<"y">>, TRUE),
            Section("true constants"), PatternLine(<<"a">>, TRUE),
            Section("sensitive tables"), PatternLine(<<"x">>, TRUE),
            Section("block"), PatternLine(<<"x">>, TRUE), PatternLine(<<"a">>, FALSE)>>
=============================================================================
