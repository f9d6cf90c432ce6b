------------------------------ MODULE SqlParse ------------------------------
(***************************************************************************)
(* The search for risks in a query (src/parser): query_parse scans and     *)
(* parses it, and the actions of the grammar compute expressions, compare  *)
(* them and call back.  The objects that the actions make are kept in two  *)
(* lists until an action deletes them; the rest goes when the parser is    *)
(* done, whether or not it has read the query to its end.                  *)
(*                                                                         *)
(* The grammar is the whole one, but for the hints of indices and tokens   *)
(* that take the place of another in its rules.  The table of bison is not *)
(* modelled: the parser may reduce a right-hand side whenever the symbol   *)
(* that replaces it can follow what is below, and may give up at any       *)
(* token.  Where the scanner's input function meets the end of the query   *)
(* it returns EOF in some versions of flex, which the actions look for,    *)
(* and zero in others, and the next read ends the program: either may      *)
(* happen.                                                                 *)
(***************************************************************************)
EXTENDS SqlLexer, Normalization, Patterns

CONSTANTS Texts,        \* queries
          PatternFile   \* lines of the patterns' file

ASSUME SqlParseAssumption == Texts \subseteq Seq(STRING) /\ Load(PatternFile).loaded

VARIABLES
    text,     \* the query
    place,    \* where its scan is
    stack,    \* of the parser: symbols with their values
    objects,  \* Expression::expressions and SQLString::sql_strings: those alive
    made,     \* objects made so far
    risk,     \* query_risk: what was found
    state     \* "parsing", "accepted", "failed", "returned", or "crashed"

\* Named for this module, which CheckQueryProofs uses beside CheckQuery.
parseVars == <<text, place, stack, objects, made, risk, state>>

NoValue == 0

\* What an action works on.
Memory == [objects |-> objects, made |-> made, risk |-> risk, value |-> NoValue]

-----------------------------------------------------------------------------
\* expression.hpp.  The operators take a memory and return the changed one.

New(m, object) ==
    LET x    == m.made + 1
        kept == [o \in DOMAIN m.objects \cup {x} |-> IF o = x THEN object ELSE m.objects[o]]
    IN  [objects |-> kept, made |-> x, risk |-> m.risk, value |-> x]

NewExpression(m) == New(m, [fields |-> {}, has_const |-> FALSE, const_type |-> "Undef",
                            str_length |-> 0])

NewString(m, s) == New(m, [str_value |-> s])

Delete(m, o) == [m EXCEPT !.objects = [i \in DOMAIN @ \ {o} |-> @[i]]]

AddField(m, e, s) ==
    Delete([m EXCEPT !.objects[e].fields = @ \cup {m.objects[s].str_value}], s)

AddInteger(m, e) ==
    [m EXCEPT !.objects[e] = [@ EXCEPT !.has_const = TRUE, !.const_type = "Integer"]]

\* AddConst of a string, of a length.
AddString(m, e, length) ==
    LET x == m.objects[e]
    IN  [m EXCEPT !.objects[e] =
          [x EXCEPT !.has_const = TRUE,
                    !.const_type = IF @ = "Undef" THEN "String" ELSE @,
                    !.str_length = CASE x.const_type = "Undef" -> length
                                     [] x.const_type = "String" -> @ + length
                                     [] OTHER -> @]]

\* Add: the second expression goes into the first.
Add(m, e, f) ==
    LET x == m.objects[e]
        y == m.objects[f]
    IN  Delete([m EXCEPT !.value = e, !.objects[e] =
                  [x EXCEPT !.fields = @ \cup y.fields,
                            !.has_const = @ \/ y.has_const,
                            !.str_length = IF y.const_type = "String" /\ y.str_length > @
                                             THEN y.str_length ELSE @]], f)

\* Mutant: two constants are equal if they are of one type.
Comp_SameType(x, y) ==
    /\ x.fields = y.fields
    /\ x.fields # {} => x.has_const = y.has_const
    /\ x.const_type = y.const_type /\ x.const_type # "Undef"

Comp(x, y) == x.fields = y.fields /\ (x.fields # {} => x.has_const = y.has_const)

IsTrue(x) == x.fields = {} /\ x.has_const

\* The names of columns for passwords: of three names, one.
Passwords == {<<"pwd">>}

IsEmptyPwd(x, y) ==
    /\ y.const_type = "String" /\ y.str_length = 0 /\ y.fields = {}
    /\ x.const_type = "Undef" /\ \E p \in Passwords : x.fields = {p}

-----------------------------------------------------------------------------
\* The callbacks of parser.cpp, and cmp_fn of sql.ypp.

Found(m, what) == [m EXCEPT !.risk = @ \cup {what}]

FoundIf(m, condition, what) == IF condition THEN Found(m, what) ELSE m

cmp_fn(m, e, f) ==
    LET x == m.objects[e]
        y == m.objects[f]
    IN  IF Comp(x, y) THEN Found(m, "tautology")
        ELSE FoundIf(m, IsEmptyPwd(x, y), "empty_pwd")

NameOf(m, s) == m.objects[s].str_value

clb_found_table(m, s) ==
    FoundIf(m, Match(PatternFile, "sensitive tables", NameOf(m, s)), "s_table")

clb_check_true_constant(m, s) == Match(PatternFile, "true constants", NameOf(m, s))

clb_check_bruteforce_function(m, s) ==
    FoundIf(m, Match(PatternFile, "bruteforce functions", NameOf(m, s)), "bruteforce")

-----------------------------------------------------------------------------
\* The rules of the grammar, each with its action.

Rule(lhs, rhs, action) == [lhs |-> lhs, rhs |-> rhs, action |-> action]

\* The rules of a symbol that share an action.
Each(lhs, alternatives, action) == {Rule(lhs, rhs, action) : rhs \in alternatives}

CommandRules ==
    Each("command", {<<>>, <<"select_cmd">>, <<"insert_cmd">>, <<"show_cmd">>, <<"delete_cmd">>,
                     <<"update_cmd">>}, "none")
    \cup Each("select_cmd",
           {<<"SELECT", "select_options", "select_exps">>,
            <<"SELECT", "select_options", "select_exps", "FROM", "table_references", "where_cond",
              "group_cond", "having_cond", "order_cond", "limit_cond", "procedure_cond",
              "union_cond", "end_cond">>}, "3")
    \cup {Rule("insert_cmd", <<"INSERT", "INTO">>, "none"),
          Rule("show_cmd", <<"SHOW">>, "none"),
          Rule("delete_cmd",
               <<"DELETE", "delete_option_list", "delete_table_list", "FROM", "table_references",
                 "where_cond", "order_cond", "limit_cond", "end_cond">>, "none"),
          Rule("update_cmd",
               <<"UPDATE", "delete_option_list", "table_references", "SET", "set_cond",
                 "where_cond", "order_cond", "limit_cond", "end_cond">>, "none")}
    \cup Each("select_options", {<<>>, <<"select_opts">>}, "none")
    \cup Each("select_opts", {<<"SELECT_OPT">>, <<"DISTINCT">>, <<"select_opts", "SELECT_OPT">>,
                              <<"select_opts", "DISTINCT">>}, "none")
    \cup Each("delete_option_list", {<<>>, <<"delete_option_list", "IGNORE">>}, "none")
    \cup Each("delete_table_list", {<<>>, <<"delete_table">>,
                                    <<"delete_table_list", "COMMA", "delete_table">>}, "none")
    \cup Each("delete_table",
           {<<"simple_table">>, <<"simple_table", "DOT", "simple_table">>,
            <<"simple_table", "DOT", "MULTIPLY">>,
            <<"simple_table", "DOT", "simple_table", "DOT", "MULTIPLY">>}, "none")
    \cup {Rule("select_exps", <<"select_exp">>, "1"),
          Rule("select_exps", <<"select_exps", "COMMA", "select_exp">>, "add_3"),
          Rule("select_exp", <<"math_op", "alias">>, "1"),
          Rule("select_exp", <<"MULTIPLY">>, "new")}
    \cup Each("select_exp", {<<n, "DOT", "MULTIPLY">> : n \in {"STRING", "NAME"}}, "table_1")
    \cup Each("select_exp",
           {<<n, "DOT", o, "DOT", "MULTIPLY">> : n, o \in {"STRING", "NAME"}}, "table_3")

TableRules ==
    Each("table_references", {<<"table_reference">>,
                              <<"table_references", "COMMA", "table_reference">>}, "none")
    \cup Each("table_reference", {<<"table_factor">>, <<"join_table">>}, "none")
    \cup {Rule("join_table", <<"table_reference", "join_ops", "table_factor", "join_cond">>, "none")}
    \cup Each("join_ops", {<<"JOIN">>, <<"join_types", "JOIN">>}, "none")
    \cup Each("join_types", {<<"JOIN_TYPE">>, <<"join_types", "JOIN_TYPE">>}, "none")
    \cup Each("join_cond", {<<>>, <<"ON", "logical_exp_list">>,
                            <<"USING", "O_BRACE", "math_exp", "C_BRACE">>}, "none")
    \cup Each("table_factor", {<<"simple_table", "alias">>,
                               <<"simple_table", "DOT", "simple_table", "alias">>}, "none")
    \cup Each("simple_table", {<<"STRING">>, <<"NAME">>}, "table_1")
    \cup {Rule("simple_table", <<"O_BRACE", "select_cmd", "C_BRACE">>, "2")}
    \cup Each("alias", {<<>>, <<"alias_str">>, <<"AS", "alias_str">>}, "none")
    \cup Each("alias_str", {<<"STRING">>, <<"NAME">>, <<"Q_STRING">>, <<"DQ_STRING">>}, "none")

ClauseRules ==
    Each("where_cond", {<<>>, <<"WHERE", "logical_exp_list">>}, "none")
    \cup Each("group_cond", {<<>>, <<"GROUP", "BY", "groupby_column_list", "sort_order">>}, "none")
    \cup Each("groupby_column_list", {<<"table_field">>,
                                      <<"groupby_column_list", "COMMA", "table_field">>}, "none")
    \cup Each("sort_order", {<<>>, <<"ASC">>}, "none")
    \cup Each("having_cond", {<<>>, <<"HAVING", "logical_exp_list">>}, "none")
    \cup Each("order_cond", {<<>>, <<"ORDER", "BY", "orderby_column_list", "sort_order">>}, "none")
    \cup Each("orderby_column_list",
           {<<"table_field">>, <<"simple_fn">>, <<"NULLX">>,
            <<"orderby_column_list", "COMMA", "orderby_column_list">>}, "none")
    \cup Each("limit_cond", {<<>>, <<"LIMIT", "INTEGER">>,
                             <<"LIMIT", "INTEGER", "COMMA", "INTEGER">>}, "none")
    \cup Each("procedure_cond", {<<>>, <<"PROCEDURE", "fn">>}, "none")
    \cup Each("union_cond", {<<>>, <<"UNION", "select_cmd">>}, "none")
    \cup Each("end_cond", {<<>>, <<"END">>}, "none")
    \cup Each("set_cond",
           {<<"table_field", "EQUAL", v>> : v \in {"math_exp", "DEFAULT"}}
           \cup {<<"set_cond", "COMMA", "field", "EQUAL", v>> : v \in {"math_exp", "DEFAULT"}},
           "none")

MathOperators == {"BASIC_OP", "MULTIPLY", "DIVIDE", "SHIFT", "BIT_OR", "BIT_AND", "POWER"}

ExpressionRules ==
    Each("math_op", {<<"math_exp">>, <<"case_fn">>, <<"cast_fn">>,
                     <<"math_op", "BETWEEN", "math_exp", "AND", "math_exp">>,
                     <<"math_op", "IN", "O_BRACE", "fn_args", "C_BRACE">>}, "1")
    \cup {Rule("math_op", <<"math_op", "comp_operator", "math_exp">>, "add_3"),
          Rule("math_op", <<"math_op", "NOT", "comp_operator", "math_exp">>, "add_4"),
          Rule("math_exp", <<"field">>, "1"),
          Rule("math_exp", <<"BASIC_OP", "field">>, "2")}
    \cup Each("math_exp", {<<"math_exp", o, "field">> : o \in MathOperators}, "add_3")
    \cup Each("math_exp", {<<"O_BRACE", "math_exp", "C_BRACE">>,
                           <<"O_BRACE", "select_cmd", "C_BRACE">>}, "2")
    \cup {Rule("field", <<"table_field">>, "field"),
          Rule("field", <<"simple_fn">>, "no_args")}
    \cup Each("field", {<<"const_value">>, <<"fn">>}, "1")
    \cup Each("table_field", {<<n>> : n \in {"STRING", "NAME"}}, "1")
    \cup Each("table_field", {<<n, "DOT", o>> : n, o \in {"STRING", "NAME"}}, "3")
    \cup Each("const_value", {<<"INTEGER">>, <<"NULLX">>, <<"TRUEX">>, <<"FALSEX">>}, "integer")
    \cup Each("const_value", {<<"Q_STRING">>, <<"DQ_STRING">>}, "string")

FunctionRules ==
    {Rule("fn", <<"STRING", "O_BRACE", "fn_args", "C_BRACE">>, "function_3"),
     Rule("fn", <<"STRING", "O_BRACE", "DISTINCT", "fn_args", "order_cond", "C_BRACE">>,
          "function_4"),
     Rule("fn", <<"CHAR_TYPE", "O_BRACE", "fn_args", "C_BRACE">>, "3"),
     Rule("simple_fn", <<"CHAR_TYPE", "O_BRACE", "C_BRACE">>, "none"),
     Rule("fn_args", <<"math_exp">>, "1"),
     Rule("fn_args", <<"fn_args", "COMMA", "fn_args">>, "add_3")}
    \cup Each("simple_fn", {<<"STRING", "O_BRACE", "MULTIPLY", "C_BRACE">>,
                            <<"STRING", "O_BRACE", "C_BRACE">>}, "no_value")

ConditionRules ==
    {Rule("logical_exp", <<"math_exp">>, "true"),
     Rule("logical_exp", <<"math_exp", "BETWEEN", "math_exp", "AND", "math_exp">>, "compare_3_5")}
    \cup Each("logical_exp", {<<"math_exp", "comp_operator", "math_exp">>,
                              <<"math_exp", "NOT", "math_exp">>}, "compare_3")
    \cup Each("logical_exp",
           {<<"math_exp", "NOT", "comp_operator", "math_exp">>}
           \cup {<<"math_exp", "IN", "O_BRACE", a, "C_BRACE">> : a \in {"fn_args", "select_cmd"}},
           "compare_4")
    \cup Each("logical_exp",
           {<<"math_exp", "NOT", "IN", "O_BRACE", a, "C_BRACE">> : a \in {"fn_args", "select_cmd"}},
           "compare_5")
    \cup Each("logical_exp",
           {<<"math_exp">> \o n \o <<"comp_operator", "math_exp">> \o p
              \o <<"comp_operator", "math_exp">> : n, p \in {<<>>, <<"NOT">>}}, "tautology")
    \cup Each("logical_exp", {<<"O_BRACE", "logical_exp", "C_BRACE">>, <<"case_fn">>, <<"cast_fn">>,
                              <<"EXISTS", "O_BRACE", "select_cmd", "C_BRACE">>}, "none")
    \cup Each("logical_operator", {<<"AND">>, <<"OR">>, <<"XOR">>}, "none")
    \cup Each("logical_exp_list",
           {<<"logical_exp">>, <<"NOT", "logical_exp">>,
            <<"logical_exp_list", "logical_operator", "logical_exp">>}, "none")
    \cup Each("comp_operator", {<<"EQUAL">>, <<"N_EQUAL">>, <<"LIKE">>, <<"IS">>, <<"IS", "NOT">>},
              "none")

CaseRules ==
    {Rule("case_fn", <<"CASE", "case_cases", "END_CASE">>, "2"),
     Rule("case_fn", <<"CASE", "case_cases", "ELSE", "math_exp", "END_CASE">>, "case_else"),
     Rule("case_fn", <<"CASE", "math_exp", "case_cases", "END_CASE">>, "case_of"),
     Rule("case_fn", <<"CASE", "math_exp", "case_cases", "ELSE", "math_exp", "END_CASE">>,
          "case_of_else"),
     Rule("case_cases", <<"case_case">>, "1"),
     Rule("case_cases", <<"case_cases", "case_case">>, "add_2"),
     Rule("case_case", <<"WHEN", "math_op", "THEN", "math_exp">>, "2"),
     Rule("cast_fn", <<"BINARY", "math_exp">>, "2")}
    \cup Each("cast_fn", {<<"CAST", "O_BRACE", "math_exp", "AS", t, "C_BRACE">> :
                            t \in {"DATA_TYPE", "CHAR_TYPE", "BINARY"}}, "3")
    \cup Each("cast_fn",
           {<<"CAST", "O_BRACE", "math_exp", "AS", t, "O_BRACE", "fn_args", "C_BRACE", "C_BRACE">> :
              t \in {"DATA_TYPE", "CHAR_TYPE", "BINARY"}}, "3")

Rules == CommandRules \cup TableRules \cup ClauseRules \cup ExpressionRules \cup FunctionRules
         \cup ConditionRules \cup CaseRules

\* Mutant: the actions of fn leave the value to bison, as those of simple_fn do.
Value_Default(action, v) == v[1]

\* The value of fn and simple_fn.  bison sets the value of a rule to that of its first
\* symbol, and the actions of simple_fn leave it so: to a name where an expression is due.
Value(action, v) ==
    CASE action = "function_3" -> v[3] [] action = "function_4" -> v[4] [] OTHER -> v[1]

\* The action of a rule, with the values of its right-hand side.
Act(action, v, m) ==
    LET new == NewExpression(m)
        x   == m.made + 1
    IN  CASE action = "none" -> m
          [] action = "1" -> [m EXCEPT !.value = v[1]]
          [] action = "2" -> [m EXCEPT !.value = v[2]]
          [] action = "3" -> [m EXCEPT !.value = v[3]]
          [] action = "add_2" -> Add(m, v[1], v[2])
          [] action = "add_3" -> Add(m, v[1], v[3])
          [] action = "add_4" -> Add(m, v[1], v[4])
          [] action = "new" -> new
          [] action = "table_1" -> AddField(clb_found_table(new, v[1]), x, v[1])
          [] action = "table_3" -> AddField(clb_found_table(new, v[3]), x, v[3])
          [] action = "field" -> IF clb_check_true_constant(m, v[1])
                                   THEN AddString(new, x, 4) ELSE AddField(new, x, v[1])
          [] action = "integer" -> AddInteger(new, x)
          [] action = "string" -> Delete(AddString(new, x, Len(NameOf(m, v[1]))), v[1])
          [] action = "no_args" -> AddString(new, x, 4)
          [] action \in {"function_3", "function_4", "no_value"} ->
               [clb_check_bruteforce_function(m, v[1]) EXCEPT !.value = Value(action, v)]
          [] action = "true" -> FoundIf(m, IsTrue(m.objects[v[1]]), "tautology")
          [] action = "tautology" -> Found(m, "tautology")
          [] action = "compare_3" -> cmp_fn(m, v[1], v[3])
          [] action = "compare_4" -> cmp_fn(m, v[1], v[4])
          [] action = "compare_3_5" -> cmp_fn(cmp_fn(m, v[1], v[3]), v[1], v[5])
          [] action = "compare_5" -> cmp_fn(m, v[1], v[5])
          [] action = "case_else" -> Add(m, v[2], v[4])
          [] action = "case_of" -> [cmp_fn(m, v[2], v[3]) EXCEPT !.value = v[2]]
          [] action = "case_of_else" -> Add(cmp_fn(cmp_fn(m, v[2], v[3]), v[2], v[5]), v[2], v[5])

-----------------------------------------------------------------------------
\* Which symbol may stand where in the parser's stack.

Symbols == {r.lhs : r \in Rules} \cup UNION {Range(r.rhs) : r \in Rules}

\* The symbols that the text of a symbol may begin with: after eight rules, all of them.
Begins ==
    LET one == [s \in Symbols |->
                  {s} \cup {Head(r.rhs) : r \in {q \in Rules : q.lhs = s /\ q.rhs # <<>>}}]
        Twice(begins) == [s \in Symbols |-> UNION {begins[t] : t \in begins[s]}]
        two  == Twice(one)
        four == Twice(two)
    IN  Twice(four)

\* The symbols that may stand on a symbol.
Above ==
    [s \in Symbols |->
       UNION {UNION {Begins[r.rhs[i + 1]] : i \in {j \in 1..(Len(r.rhs) - 1) : r.rhs[j] = s}} :
                r \in Rules}]

Fits(below, symbol) ==
    symbol \in (IF below = <<>> THEN Begins["command"] ELSE Above[Last(below).symbol])

Item(symbol, value) == [symbol |-> symbol, value |-> value]

ParseInit ==
    /\ text \in Texts
    /\ place = 1
    /\ stack = <<>>
    /\ objects = <<>>
    /\ made = 0
    /\ risk = {}
    /\ state = "parsing"

\* The scanner goes on by a lexeme.  A token that has a name or a text makes a string;
\* the parser takes it if it fits.
Shift ==
    /\ state = "parsing" /\ place <= Len(text)
    /\ LET x == yylex(text, place)
           named == x.kind \in {"STRING", "NAME", "Q_STRING", "DQ_STRING"}
           m == IF named THEN NewString(Memory, x.text) ELSE Memory
       IN  /\ place' = x.next
           /\ risk' = risk \cup x.calls
           /\ objects' = m.objects /\ made' = m.made
           /\ \/ x.kind # "none" /\ Fits(stack, x.kind)
                   /\ stack' = Append(stack, Item(x.kind, m.value)) /\ state' = state
              \/ x.kind # "none" /\ state' = "failed" /\ stack' = stack
              \/ x.kind = "none" /\ UNCHANGED <<stack, state>>
              \/ ReadsPastEnd(text, x) /\ state' = "crashed" /\ stack' = stack
    /\ UNCHANGED text

\* A right-hand side on the stack becomes its symbol.
Reduce(r) ==
    LET below == SubSeq(stack, 1, Len(stack) - Len(r.rhs))
        top   == SubSeq(stack, Len(below) + 1, Len(stack))
    IN  /\ state = "parsing" /\ Len(r.rhs) <= Len(stack)
        /\ \A i \in DOMAIN r.rhs : top[i].symbol = r.rhs[i]
        /\ Fits(below, r.lhs)
        /\ LET m == Act(r.action, [i \in DOMAIN top |-> top[i].value], Memory)
           IN  /\ stack' = Append(below, Item(r.lhs, m.value))
               /\ objects' = m.objects /\ made' = m.made /\ risk' = m.risk
        /\ UNCHANGED <<text, place, state>>

\* The end of the query.
EndOfQuery ==
    /\ state = "parsing" /\ place > Len(text)
    /\ \/ /\ [i \in DOMAIN stack |-> stack[i].symbol] = <<"command">>
          /\ state' = "accepted"
       \/ state' = "failed"
    /\ UNCHANGED <<text, place, stack, objects, made, risk>>

\* free_sql_strings and free_expressions.
ParseReturn ==
    /\ state \in {"accepted", "failed"}
    /\ objects' = <<>>
    /\ stack' = <<>>
    /\ state' = "returned"
    /\ UNCHANGED <<text, place, made, risk>>

ParseNext ==
    \/ Shift
    \/ \E r \in Rules : Reduce(r)
    \/ EndOfQuery
    \/ ParseReturn

ParseSpec == ParseInit /\ [][ParseNext]_parseVars

-----------------------------------------------------------------------------
\* The symbols that %type says have an expression, but for simple_fn.
Expressions == {"fn", "fn_args", "const_value", "field", "math_exp", "select_exp", "math_op",
                "simple_table", "select_exps", "select_cmd", "case_fn", "case_case",
                "case_cases", "cast_fn"}
Strings     == {"STRING", "NAME", "Q_STRING", "DQ_STRING", "table_field"}

\* A value of the stack has its object, of the kind that is declared for the symbol, and no
\* other value is the same object.
StackOwns ==
    \A i, j \in DOMAIN stack :
      LET x == stack[i]
          Kind(field) == x.value \in DOMAIN objects /\ field \in DOMAIN objects[x.value]
      IN  /\ x.symbol \in Expressions => Kind("fields")
          /\ x.symbol \in Strings => Kind("str_value")
          /\ x.value = stack[j].value => i = j \/ x.value = NoValue

\* expression.hpp and %type of sql.ypp, with the types of the variables: whatever rules
\* apply, in whatever order, an action that uses a value of the parser's stack finds its
\* object: none is deleted while it is needed, or twice.
ValuesAreOwned ==
    /\ text \in Texts
    /\ risk \subseteq {"or", "union", "comment", "separator", "tautology", "empty_pwd",
                       "s_table", "bruteforce"}
    /\ state \in {"parsing", "accepted", "failed", "returned", "crashed"}
    /\ StackOwns

\* The tokens that an expression without a subquery is made of.
ExpressionTokens == {"STRING", "NAME", "INTEGER", "Q_STRING", "DQ_STRING", "NULLX", "TRUEX",
                     "FALSEX", "CHAR_TYPE", "DOT", "COMMA", "O_BRACE", "C_BRACE"}
                    \cup MathOperators

\* Two tokens, each with its place in the query, are the same.
SameToken(x, y) == x.kind = y.kind /\ x.text = y.text

\* How many braces the first tokens of a query leave open.
Opened(tokens, n) ==
    LET Braces(kind) == Cardinality({i \in 1..n : tokens[i].kind = kind})
    IN  Braces("O_BRACE") - Braces("C_BRACE")

\* All that follows a token is a comparison of two expressions of the same tokens, neither
\* of which closes a brace that it does not open.
ComparesFrom(tokens, w, e, n) ==
    /\ w < e /\ e <= n /\ tokens[e].kind = "EQUAL"
    /\ e - w = n + 1 - e
    /\ Opened(tokens, e) = Opened(tokens, w)
    /\ \A i \in 1..(n - e) :
         /\ SameToken(tokens[w + i], tokens[e + i])
         /\ tokens[w + i].kind \in ExpressionTokens

\* The condition of a query, to its end, compares an expression with itself.
ComparesEquals ==
    LET tokens == TokensOf(text)
    IN  \E w, e \in DOMAIN tokens :
          tokens[w].kind = "WHERE" /\ ComparesFrom(tokens, w, e, Len(tokens))

\* docs/tautology.txt, "num SIGN num": a condition that compares an expression with
\* itself is found, however the expression is made of fields, values and functions.
SameSidesAreFound ==
    state = "accepted" /\ ComparesEquals => "tautology" \in risk

\* The lines of a section that compiles list a name.
Listed(section, name) ==
    LET lines == Range(Load(PatternFile).list[section])
    IN  (\E l \in lines : l.name = name) /\ \A l \in lines : l.compiles

\* patterns.cpp and clb_check_bruteforce_function: a call of a function that is listed in
\* a section that compiles is found, whatever the other sections are, wherever it is
\* called, and whatever it is called with.
ListedIsFound ==
    state = "accepted" =>
        \A i \in 1..(Len(TokensOf(text)) - 1) :
            LET x == TokensOf(text)[i]
            IN  (/\ x.kind = "STRING" /\ TokensOf(text)[i + 1].kind = "O_BRACE"
                 /\ Listed("bruteforce functions", x.text))
                => "bruteforce" \in risk

\* Where a lexeme begins that the two readers of a query do not agree about: a comment,
\* a sign, a hexadecimal number, a point, or a symbol that the scanner ignores.
Disputed(s) ==
    \E i \in {1} \cup {x.next : x \in Range(Lexemes(s))} :
        \/ At(s, i) \in {"#", "-", ".", "?", Escape}
        \/ Starts(s, i, <<"/", "*">>) \/ Starts(s, i, <<"0", "x">>)

ShapeIsKept == Shape(normalizeQuery(text)) = Shape(text)

\* A number that follows a symbol that does not end a name is left in the pattern.
Glued(s) ==
    \E i \in {1} \cup {x.next : x \in Range(Lexemes(s))} :
        At(s, i) \in Digits /\ At(s, i - 1) \notin BeforeNumber

ValuesAreForgotten == normalizeQuery(Skeleton(text)) = normalizeQuery(text)

\* normalization.cpp against sql.lex: the pattern of a query has the shape of the query,
\* and is the pattern of every query that differs in its values only, although each of
\* the two reads quotes and escapes, and finds numbers, in its own way.
PatternIsTheShape ==
    place = 1 /\ text # <<>> /\ ~Disputed(text) =>
        ShapeIsKept /\ (Glued(text) \/ ValuesAreForgotten)
=============================================================================
