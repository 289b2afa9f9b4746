--------------------------- MODULE MCCommentFences ---------------------------
(***************************************************************************)
(* Sources for CommentFences, made of the tokens the scanner tells apart.  *)
(***************************************************************************)
EXTENDS CommentFences

\* the concatenations of at most n fragments
Files(fragments, n) ==
    LET files(f) == LET upto[k \in 0 .. n] == IF k = 0 THEN <<>> ELSE upto[k - 1] \o f[k]
                    IN upto[n]
    IN {files(f) : f \in [1 .. n -> fragments \cup {<<>>}]}

\* every token, with a character literal that holds a quote and the prime of
\* an identifier
Tokens ==
    {<<"/", "-">>, <<"-", "/">>, <<"-", "-">>, <<Quote>>, <<Backslash>>, <<NL>>,
     <<"{">>, <<"}">>, <<"s", "!">>, <<"x">>, <<" ">>, <<"r", "#", Quote>>,
     <<Quote, "#">>, <<"«">>, <<"»">>, <<"'", Quote, "'">>, <<"x", "'">>}

\* what can happen inside an interpolated string
Interpolated ==
    {<<"s", "!", Quote>> \o f :
        f \in Files({<<"{">>, <<"}">>, <<Quote>>, <<Backslash>>, <<NL>>,
                     <<"/", "-">>, <<"-", "/">>, <<"s", "!", Quote>>}, 4)}

\* a comment at the left margin and what may follow it
Margin ==
    {<<"/", "-">> \o f :
        f \in Files({<<"/", "-">>, <<"-", "/">>, <<"-", "-">>, <<NL>>, <<" ">>,
                     <<"x">>}, 5)}

AllTokens == Files(Tokens, 3) \cup Interpolated \cup Margin

\* character literals and what can be in them
Characters == Files({<<"'">>, <<Backslash>>, <<NL>>, <<"x">>, <<"/", "-">>}, 4)
=============================================================================
