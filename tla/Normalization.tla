--------------------------- MODULE Normalization ---------------------------
(***************************************************************************)
(* src/normalization.cpp: the pattern of a query.  Each pass goes through  *)
(* the places of a text once, in order, and edits the text at the place it *)
(* has reached.  A query has a symbol at least: of an empty one the passes *)
(* compute the length minus one.                                           *)
(***************************************************************************)
EXTENDS QueryText

\* A loop over the places of a text that the body edits.
Pass(Edit(_, _), s) ==
    FoldLeft(LAMBDA t, i : IF i <= Len(t) THEN Edit(t, i) ELSE t, s, [i \in 1..Len(s) |-> i])

\* The flag quoted of both loops: the symbol at i follows an odd number of escapes.
Escaped(s, i) ==
    Cardinality({k \in 1..(i - 1) : \A m \in k..(i - 1) : s[m] = Escape}) % 2 = 1

\* Mutant: a doubled quote ends the text.
lookForChar_NotDoubled(s, i) ==
    Min({j \in (i + 1)..Len(s) : s[j] = s[i] /\ ~Escaped(s, j)} \cup {Len(s) + 1})

\* lookForChar: where the text that the quote at i begins ends, past doubled quotes;
\* past the end of the query if it does not.
lookForChar(s, i) ==
    LET close[j \in (i + 1)..(Len(s) + 1)] ==
          IF j > Len(s) THEN j
          ELSE IF s[j] # s[i] \/ Escaped(s, j) THEN close[j + 1]
          ELSE IF At(s, j + 1) = s[i] THEN close[j + 2]
          ELSE j
    IN  close[i + 1]

removeQuotedText(s) ==
    LET Edit(t, i) ==
          IF t[i] \in Quotes /\ ~Escaped(t, i)
            THEN Erase([t EXCEPT ![i] = "?"], i + 1, lookForChar(t, i) + 1) ELSE t
    IN  Pass(Edit, s)

-----------------------------------------------------------------------------
\* The opener of a comment stays.  The search for the end of a comment in C++ style
\* stops at the first star, or before the first slash; if that is not the end, three
\* more symbols go.
removeCppComment(s) ==
    LET Stops(t, i) == {j \in (i + 2)..Len(t) : j = Len(t) \/ t[j] = "*" \/ t[j + 1] = "/"}
        Edit(t, i) ==
          LET j == Min(Stops(t, i) \cup {Max({Len(t), i + 2})})
          IN  IF t[i] # "/" \/ At(t, i + 1) # "*" THEN t
              ELSE IF At(t, j) # "*" \/ At(t, j + 1) # "/" THEN Erase(t, i + 2, j + 4)
              ELSE IF j = i + 2 THEN t
              ELSE Erase([t EXCEPT ![i + 2] = " "], i + 3, j)
    IN  Pass(Edit, s)

\* A comment to the end of its line, with the line's end.
EndOfLine(t, i) ==
    LET eol == Min({j \in i..Len(t) : t[j] = Newline} \cup {Len(t) + 1})
    IN  After(t, eol, {Newline})

removeHashComment(s) ==
    LET Edit(t, i) == IF t[i] = "#" THEN Erase(t, i + 1, EndOfLine(t, i + 1)) ELSE t
    IN  Pass(Edit, s)

removeDashComment(s) ==
    LET Edit(t, i) == IF t[i] = "-" /\ At(t, i + 1) = "-"
                        THEN Erase(t, i + 2, EndOfLine(t, i + 2)) ELSE t
    IN  Pass(Edit, s)

removeComments(s) == removeDashComment(removeHashComment(removeCppComment(s)))

-----------------------------------------------------------------------------
\* What precedes a number.
BeforeNumber == Spaces \cup {",", "!", "(", "+", "-", "*", "/", "=", "~", "<", ">", "^", "%",
                             "|", "&"}

\* The end of the number that begins at i: hexadecimal, or decimal with a fraction.
NumberEnd(t, i) ==
    LET j == After(t, i + 1, Digits)
    IN  IF t[i] = "0" /\ At(t, i + 1) = "x" THEN After(t, i + 2, Digits \cup HexLetters)
        ELSE IF At(t, j) = "." THEN After(t, j + 1, Digits)
        ELSE j

\* Mutant: a word that ends with digits loses them.
removeNumbers_InWords(s) ==
    LET Edit(t, i) == IF t[i] \in Digits
                        THEN Erase([t EXCEPT ![i] = "?"], i + 1, NumberEnd(t, i)) ELSE t
    IN  Pass(Edit, s)

removeNumbers(s) ==
    LET Edit(t, i) == IF At(t, i - 1) \in BeforeNumber /\ t[i] \in Digits
                        THEN Erase([t EXCEPT ![i] = "?"], i + 1, NumberEnd(t, i)) ELSE t
    IN  Pass(Edit, s)

\* Spaces become one, none before a comma or a closing bracket, none after a comma or
\* an opening bracket, none at the end.
removeSpaces(s) ==
    LET Collapse(t, i) == IF t[i] \in Spaces
                            THEN Erase([t EXCEPT ![i] = " "], i + 1, After(t, i + 1, Spaces))
                            ELSE t
        Before(t, i) == IF t[i] = " " /\ At(t, i + 1) \in {")", ","} THEN Erase(t, i, i + 1) ELSE t
        Behind(t, i) == IF At(t, i) \in {"(", ","} /\ At(t, i + 1) = " "
                          THEN Erase(t, i + 1, i + 2) ELSE t
        Around(t, i) == Behind(Before(t, i), i)
        t == Pass(Around, Pass(Collapse, s))
    IN  IF At(t, Len(t)) = " " THEN Front(t) ELSE t

\* A minus before a value goes, with a space, after a bracket, a comma, or one of
\* these words on its own.
fixNegativeNumbers(s) ==
    LET Delimiters == {" ", ",", "("}
        Signed(t, i) ==
          \/ t[i] \in {",", "("}
          \/ /\ t[i] = " " /\ At(t, i - 1) \in {"select", "where", "and", "or", "not"}
             /\ i = 2 \/ At(t, i - 2) \in Delimiters
        Edit(t, i) ==
          IF ~Signed(t, i) \/ At(t, i + 1) # "-" THEN t
          ELSE IF At(t, i + 2) = "?" THEN Erase(t, i + 1, i + 2)
          ELSE IF At(t, i + 2) \in Spaces /\ At(t, i + 3) = "?" THEN Erase(t, i + 1, i + 3)
          ELSE t
    IN  Pass(Edit, s)

\* The pattern of a query.
normalizeQuery(s) ==
    fixNegativeNumbers(removeSpaces(removeNumbers(removeComments(removeQuotedText(s)))))
=============================================================================
