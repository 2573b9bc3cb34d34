------------------------------ MODULE Mentions ------------------------------
(* parseMentions (broker/src/mentions.ts), one iteration of its loop per    *)
(* step, and a definition of what it finds: a text is cut into segments,    *)
(* and a mention counts if it is a segment of its own. Positions count from *)
(* 1, one more than in the code.                                            *)
EXTENDS Naturals, Sequences

CONSTANTS Letters,        \* what a name may start with
          NameChars,      \* what it may go on with
          Whitespace,     \* what \s matches
          Texts           \* the messages parsed

Tick == "backtick"
Backslash == "backslash"
At == "at"

ASSUME MentionsAssumption ==
    /\ Letters \subseteq NameChars
    /\ NameChars \cap (Whitespace \cup {Tick, Backslash, At}) = {}
    /\ Whitespace \cap {Tick, Backslash, At} = {}
    /\ \A t \in Texts : /\ Len(t) \in Nat
                        /\ DOMAIN t = 1..Len(t)

VARIABLES text,           \* the message
          i,              \* the index, 1-based
          inFencedCode,
          inInlineCode,
          found           \* names of the mentions met so far

vars == <<text, i, inFencedCode, inInlineCode, found>>
-----------------------------------------------------------------------------
\* text.startsWith('```', p)
FenceAt(t, p) ==
    p + 2 <= Len(t) /\ t[p] = Tick /\ t[p + 1] = Tick /\ t[p + 2] = Tick

\* An `@` that starts the text or follows whitespace, and then a letter.
MentionAt(t, p) ==
    /\ t[p] = At
    /\ p > 1 => t[p - 1] \in Whitespace
    /\ p + 1 <= Len(t) /\ t[p + 1] \in Letters

\* Position e follows the longest name that starts after p.
NameEnds(t, p, e) ==
    /\ p + 1 < e /\ e <= Len(t) + 1
    /\ \A k \in (p + 1)..(e - 1) : t[k] \in NameChars
    /\ e <= Len(t) => t[e] \notin NameChars

Name(t, p, e) == SubSeq(t, p + 1, e - 1)
-----------------------------------------------------------------------------
Init == /\ text \in Texts
        /\ i = 1
        /\ inFencedCode = FALSE
        /\ inInlineCode = FALSE
        /\ found = {}

Scanning == i <= Len(text)
Plain == ~inFencedCode /\ ~inInlineCode

\* A mutation: a fence counts inside inline code too.
FenceAnywhere == FenceAt(text, i)

FenceHere == ~inInlineCode /\ FenceAt(text, i)

TickHere == ~FenceHere /\ ~inFencedCode /\ text[i] = Tick

EscapeHere == /\ text[i] = Backslash
              /\ i + 1 <= Len(text) /\ text[i + 1] = At

ToggleFence ==
    /\ Scanning
    /\ FenceHere
    /\ inFencedCode' = ~inFencedCode
    /\ i' = i + 3
    /\ UNCHANGED <<text, inInlineCode, found>>

ToggleInline ==
    /\ Scanning
    /\ TickHere
    /\ inInlineCode' = ~inInlineCode
    /\ i' = i + 1
    /\ UNCHANGED <<text, inFencedCode, found>>

SkipCode ==
    /\ Scanning
    /\ ~FenceHere /\ ~TickHere
    /\ ~Plain
    /\ i' = i + 1
    /\ UNCHANGED <<text, inFencedCode, inInlineCode, found>>

SkipEscaped ==
    /\ Scanning
    /\ ~FenceHere /\ ~TickHere /\ Plain
    /\ EscapeHere
    /\ i' = i + 2
    /\ UNCHANGED <<text, inFencedCode, inInlineCode, found>>

TakeMention ==
    /\ Scanning
    /\ ~FenceHere /\ ~TickHere /\ Plain /\ ~EscapeHere
    /\ MentionAt(text, i)
    /\ \E e \in 1..(Len(text) + 1) :
          /\ NameEnds(text, i, e)
          /\ found' = found \cup {Name(text, i, e)}
          /\ i' = e
    /\ UNCHANGED <<text, inFencedCode, inInlineCode>>

SkipOther ==
    /\ Scanning
    /\ ~FenceHere /\ ~TickHere /\ Plain /\ ~EscapeHere
    /\ ~MentionAt(text, i)
    /\ i' = i + 1
    /\ UNCHANGED <<text, inFencedCode, inInlineCode, found>>

Next == \/ ToggleFence \/ ToggleInline
        \/ SkipCode \/ SkipEscaped \/ TakeMention \/ SkipOther

Spec == Init /\ [][Next]_vars
-----------------------------------------------------------------------------
(* The definition. A segment of t from p up to e is a fenced block, an      *)
(* inline span, a mention or a single character. Code that is not closed    *)
(* extends to the end of the text.                                          *)
Fenced(t, p, e) ==
    /\ FenceAt(t, p)
    /\ \/ /\ p + 6 <= e /\ FenceAt(t, e - 3)
          /\ \A r \in (p + 3)..(e - 4) : ~FenceAt(t, r)
       \/ e = Len(t) + 1 /\ \A r \in (p + 3)..Len(t) : ~FenceAt(t, r)

Span(t, p, e) ==
    /\ t[p] = Tick /\ ~FenceAt(t, p)
    /\ \/ /\ p + 2 <= e /\ t[e - 1] = Tick
          /\ \A r \in (p + 1)..(e - 2) : t[r] # Tick
       \/ e = Len(t) + 1 /\ \A r \in (p + 1)..Len(t) : t[r] # Tick

Mention(t, p, e) == MentionAt(t, p) /\ NameEnds(t, p, e)

Character(t, p, e) == t[p] # Tick /\ ~MentionAt(t, p) /\ e = p + 1

Segment(t, p, e) ==
    Fenced(t, p, e) \/ Span(t, p, e) \/ Mention(t, p, e) \/ Character(t, p, e)

Places(t) == 1..(Len(t) + 1)

\* With every cut a set holds the end of the segment that starts there.
Closed(t, S) ==
    /\ 1 \in S
    /\ \A p \in S : p <= Len(t) =>
          \A e \in Places(t) : Segment(t, p, e) => e \in S

\* Where the segments of t start, and its end.
Cuts(t) ==
    LET closed == {S \in SUBSET Places(t) : Closed(t, S)}
    IN  {p \in Places(t) : \A S \in closed : p \in S}

NamesAt(t, p) == {Name(t, p, e) : e \in {f \in Places(t) : Mention(t, p, f)}}

MentionedBefore(t, k) == UNION {NamesAt(t, p) : p \in {q \in Cuts(t) : q < k}}

Mentioned(t) == MentionedBefore(t, Len(t) + 1)

TypeOK == /\ text \in Texts
          /\ i \in Places(text)
          /\ inFencedCode \in BOOLEAN
          /\ inInlineCode \in BOOLEAN
          /\ ~(inFencedCode /\ inInlineCode)

(* "Mentions inside backtick code spans (`...`) and fenced code blocks      *)
(* (```...```) are skipped, and the escape sequence `\@name` is treated as  *)
(* literal text" (mentions.ts:4-5): the scan, with its two flags and its    *)
(* jumps, ends with exactly the mentions outside all code, whatever the     *)
(* backticks, fences and escapes before them.                               *)
ScanExact == i = Len(text) + 1 => found = Mentioned(text)
=============================================================================
