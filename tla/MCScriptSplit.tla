---------------------------- MODULE MCScriptSplit ----------------------------
(* Instances of Lexer and ScriptSplit for TLC: every short text over the    *)
(* characters that matter to quoted tokens, to comments and to statements.  *)
EXTENDS ScriptSplit

CONSTANTS QuotedLength, CommentLength   \* bounds on the lengths of texts

Strings(S, n) == UNION {[1..k -> S] : k \in 0..n}

MCTexts ==
    Strings({"Quote", "Backslash", "Escape", "Letter", "Newline"}, QuotedLength)
    \cup {<<"Quote", "Backslash", "u">> \o t : t \in
            Strings({"Quote", "Backslash", "Hex", "Surrogate", "Semicolon"}, QuotedLength)}
    \cup Strings({"Tick", "Quote", "DoubleQuote", "Space"}, QuotedLength)
    \cup Strings({"Slash", "Star", "Quote", "Newline"}, CommentLength)
    \cup {<<"Slash", "Star">> \o t \o <<"Other">> : t \in Strings({"Slash", "Star", "Letter"}, CommentLength)}

MCScripts ==
    Strings({"Quote", "Backslash", "Semicolon", "Newline", "Letter"}, QuotedLength)
    \cup Strings({"Tick", "DoubleQuote", "Semicolon", "Newline"}, QuotedLength)
    \cup Strings({"Tick", "Backslash", "Quote", "Semicolon"}, QuotedLength)
    \cup {t \o <<"Semicolon">> : t \in Strings({"Slash", "Star", "Semicolon", "Newline"}, QuotedLength)}
    \cup {<<"Slash", "Star">> \o t : t \in Strings({"Slash", "Star", "Semicolon"}, CommentLength)}

AllTexts == MCTexts \cup MCScripts

=============================================================================
