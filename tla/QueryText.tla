----------------------------- MODULE QueryText -----------------------------
(***************************************************************************)
(* The text of a query, and what the firewall looks for in it.  A text is  *)
(* a sequence of symbols: a character that is not a letter is a symbol of  *)
(* its own, and so is a letter that stands alone, but a word of SQL is one *)
(* symbol, and is in lower case already.                                   *)
(***************************************************************************)
EXTENDS Integers, Sequences, FiniteSets, SequencesExt

Digits  == {"0", "1"}
Newline == "\n"
Spaces  == {" ", Newline}
Quotes  == {"'", "\""}
Escape  == "\\"
BackQuote == "back quote"
Comma   == ","

Commands == {"select", "delete", "update", "insert", "drop", "truncate", "create",
             "grant", "revoke"}

\* The tables of the firewall itself.
OwnTables == {"admin", "info", "alert", "query", "alert_group", "proxy", "db_perm"}

\* Words of SQL that are a token of their own; all other words are a STRING.
WordToken ==
    [select |-> "SELECT", insert |-> "INSERT", update |-> "UPDATE", delete |-> "DELETE",
     show |-> "SHOW", into |-> "INTO", set |-> "SET", default |-> "DEFAULT",
     from |-> "FROM", where |-> "WHERE", group |-> "GROUP", order |-> "ORDER", by |-> "BY",
     asc |-> "ASC", having |-> "HAVING", limit |-> "LIMIT", procedure |-> "PROCEDURE",
     union |-> "UNION", all |-> "SELECT_OPT", distinct |-> "DISTINCT", ignore |-> "IGNORE",
     join |-> "JOIN", left |-> "JOIN_TYPE", on |-> "ON", using |-> "USING", as |-> "AS",
     and |-> "AND", or |-> "OR", xor |-> "XOR", not |-> "NOT", in |-> "IN", exists |-> "EXISTS",
     between |-> "BETWEEN", like |-> "LIKE", is |-> "IS", null |-> "NULLX", true |-> "TRUEX",
     false |-> "FALSEX", case |-> "CASE", when |-> "WHEN", then |-> "THEN", else |-> "ELSE",
     end |-> "END_CASE", cast |-> "CAST", binary |-> "BINARY", char |-> "CHAR_TYPE",
     int |-> "DATA_TYPE"]

Keywords == Commands \cup DOMAIN WordToken

\* Names: letters that stand alone, and the name of a column for passwords.  A
\* hexadecimal number begins with 0x and goes on with letters of HexLetters.
Names == {"a", "x", "y", "pwd"}
HexLetters == {"a"}

\* What a regular expression calls a word.
WordSymbols == Keywords \cup OwnTables \cup Names \cup Digits

\* The symbol at a place; a C++ string ends with a zero, which is in no class.
Nul == ""
At(s, i) == IF i \in DOMAIN s THEN s[i] ELSE Nul

\* std::string::erase of the symbols from one place up to another, exclusive.
Erase(s, from, to) == SubSeq(s, 1, from - 1) \o SubSeq(s, to, Len(s))

\* The first place from i on that holds a symbol outside of a class.
After(s, i, class) == Min({j \in i..Len(s) : s[j] \notin class} \cup {Len(s) + 1})

Has(s, class) == \E i \in DOMAIN s : s[i] \in class

-----------------------------------------------------------------------------
\* The checks of riskengine.cpp.

\* The regular expression \bw\b.
HasWord(s, w) ==
    \E i \in DOMAIN s :
        s[i] = w /\ At(s, i - 1) \notin WordSymbols /\ At(s, i + 1) \notin WordSymbols

SpecialChars == {"'", "_", "-", "+", "/", "=", "<", ">", "(", ")", ",", ".", "?", ":", "|",
                 "[", "]", "{", "}", "@", "#", "$", "%", "&", "!", "^"}

check_comments(s) == Has(s, SpecialChars)

Conditions == {"not", "true", "or", "union", "in", "and"}

\* check_not_token, check_true_token and so on.
HasCondition(s) == \E w \in Conditions : HasWord(s, w)

\* check_token.  The check for sensitive tables looks at a list that is empty.
check_token(s) == check_comments(s) \/ \E w \in Conditions \ {"true"} : HasWord(s, w)

check_command(s) == At(s, 1) \in Commands /\ At(s, 2) \notin WordSymbols

check_white_space(s) == Has(s, {" "})

\* Mutant: the privilege is asked for the log's text only.
BlockReason_AnyUser(s, permitted) ==
    IF check_comments(s) THEN "BLOCKED"
    ELSE IF ~check_command(s) \/ ~check_white_space(s) THEN "SQL_ERROR"
    ELSE IF HasCondition(s) THEN "BLOCKED"
    ELSE "WARN"

\* Connection::block_reason: the level of a query, as the last check leaves it.
BlockReason(s, permitted) ==
    IF check_comments(s) THEN "BLOCKED"
    ELSE IF ~check_command(s) \/ ~check_white_space(s) THEN "SQL_ERROR"
    ELSE IF ~permitted \/ HasCondition(s) THEN "BLOCKED"
    ELSE "WARN"

-----------------------------------------------------------------------------
\* search_table and search_per of misc.cpp: the first match, or the empty string.
FirstOf(s, class) ==
    IF Has(s, class) THEN s[Min({i \in DOMAIN s : s[i] \in class})] ELSE Nul

search_table(s) == FirstOf(s, OwnTables)
search_per(s)   == FirstOf(s, Commands \ {"grant", "revoke"})
=============================================================================
