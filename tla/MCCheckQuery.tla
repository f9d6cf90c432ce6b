---------------------------- MODULE MCCheckQuery ----------------------------
(***************************************************************************)
(* CheckQuery for TLC: two queries that differ in a value, one with a      *)
(* doubled quote, and one without special characters.                      *)
(***************************************************************************)
EXTENDS CheckQuery, SqlLexer, Normalization

Where(value) ==
    <<"select", " ", "x", " ", "from", " ", "admin", " ", "where", " ", "x", " ", "=", " ">> \o value

MCText == "text"   :> Where(<<"'", "a", "'", "'", "1", "'">>) @@
          "number" :> Where(<<"1">>) @@
          "delete" :> <<"delete", " ", "from", " ", "info">>

MCQueries == DOMAIN MCText

\* What a function of the text is for each query.
ForEach(Op(_)) ==
    "text" :> Op(MCText["text"]) @@ "number" :> Op(MCText["number"]) @@
    "delete" :> Op(MCText["delete"])

\* A pattern is named by the query that has it.
PatternName(s) ==
    CHOOSE q \in MCQueries :
        /\ normalizeQuery(MCText[q]) = normalizeQuery(s)
        /\ q = "number" => normalizeQuery(MCText["text"]) # normalizeQuery(s)

\* The tables have names of their own, by which TLC evaluates them once.
NormalTable == ForEach(PatternName)
LevelTable  == ForEach(LAMBDA s : TRUE :> BlockReason(s, TRUE) @@ FALSE :> BlockReason(s, FALSE))
TokenSet    == {q \in MCQueries : check_token(MCText[q])}
AskedTable  == ForEach(LAMBDA s : <<search_table(s), search_per(s)>>)
AlikeSet    == {pair \in MCQueries \X MCQueries :
                  Skeleton(MCText[pair[1]]) = Skeleton(MCText[pair[2]])}
PatternSet  == {NormalTable[q] : q \in MCQueries}

MCNormal   == NormalTable
MCLevel    == LevelTable
MCTokens   == TokenSet
MCAsked    == AskedTable
MCAlike    == AlikeSet
MCPatterns == PatternSet

\* Databases of one name behind two proxies share an object.
MCTwins == "shop1" :> "1,shop" @@ "shop2" :> "1,shop"
=============================================================================
