----------------------------- MODULE MCMentions -----------------------------
EXTENDS Mentions

Alphabet == {Tick, Backslash, At, " ", "b", "1"}

Over(chars, n) == [1..n -> chars]

\* All texts of up to five characters, and a mention after three to seven
\* backticks and letters.
ShortTexts ==
    UNION {Over(Alphabet, n) : n \in 0..5}
      \cup {t \o <<" ", At, "b">> : t \in UNION {Over({Tick, "b"}, n) : n \in 3..7}}
=============================================================================
