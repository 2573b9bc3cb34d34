--------------------------- MODULE MentionsProofs ---------------------------
(* The scan finds the mentions of the definition, in texts of any length    *)
(* over any alphabet. The invariant says where the current segment began,   *)
(* that it is not over yet, and that every segment before it is.            *)
EXTENDS Mentions, TLAPS

\* A segment starts at q, and every segment that starts before q ends by q.
CutAt(q) == /\ q \in Cuts(text)
            /\ \A s \in Cuts(text) : \A e \in Places(text) :
                  (s < q /\ Segment(text, s, e)) => e <= q

InFence(q) == /\ q + 3 <= i /\ FenceAt(text, q)
              /\ \A r \in (q + 3)..(i - 1) : ~FenceAt(text, r)

InSpan(q) == /\ q < i /\ text[q] = Tick /\ ~FenceAt(text, q)
             /\ \A r \in (q + 1)..(i - 1) : text[r] # Tick

Segmented ==
    /\ Plain => CutAt(i)
    /\ inFencedCode => \E q \in Places(text) : CutAt(q) /\ InFence(q)
    /\ inInlineCode => \E q \in Places(text) : CutAt(q) /\ InSpan(q)

FoundSoFar == found = MentionedBefore(text, i)

\* Every segment at q ends at k or later; no cut lies in between then.
EndsFrom(q, k) == \A e \in Places(text) : Segment(text, q, e) => k <= e
EndsAt(q, k) == \A e \in Places(text) : Segment(text, q, e) <=> e = k
-----------------------------------------------------------------------------
LEMMA Characters ==
    /\ Tick # At /\ Tick # Backslash /\ At # Backslash
    /\ Tick \notin NameChars /\ Backslash \notin Whitespace
    /\ \A t \in Texts : Len(t) \in Nat
  BY MentionsAssumption DEF Tick, At, Backslash

LEMMA MentionedMember ==
    ASSUME NEW t, NEW k, NEW n
    PROVE  n \in MentionedBefore(t, k) <=>
              \E p \in Cuts(t), e \in Places(t) :
                 p < k /\ Mention(t, p, e) /\ n = Name(t, p, e)
  BY DEF MentionedBefore, NamesAt

LEMMA CutFacts ==
    ASSUME NEW t \in Texts
    PROVE  /\ Cuts(t) \subseteq Places(t)
           /\ 1 \in Cuts(t)
           /\ \A p \in Cuts(t), e \in Places(t) :
                 p <= Len(t) /\ Segment(t, p, e) => e \in Cuts(t)
  <1>1. Len(t) \in Nat
    BY Characters
  <1>2. 1 \in Places(t)
    BY <1>1 DEF Places
  <1>3. QED BY <1>2 DEF Cuts, Closed

\* A set of places that is closed holds all cuts.
LEMMA CutsLeast ==
    ASSUME NEW t, NEW S \in SUBSET Places(t), Closed(t, S)
    PROVE  Cuts(t) \subseteq S
  BY DEF Cuts

LEMMA SegmentForward ==
    ASSUME NEW t \in Texts, NEW p \in Places(t), p <= Len(t),
           NEW e \in Places(t), Segment(t, p, e)
    PROVE  p < e
  <1>1. Len(t) \in Nat
    BY Characters
  <1>2. CASE Fenced(t, p, e)     BY <1>1, <1>2 DEF Fenced, Places
  <1>3. CASE Span(t, p, e)       BY <1>1, <1>3 DEF Span, Places
  <1>4. CASE Mention(t, p, e)    BY <1>1, <1>4 DEF Mention, NameEnds, Places
  <1>5. CASE Character(t, p, e)  BY <1>1, <1>5 DEF Character, Places
  <1>6. QED BY <1>2, <1>3, <1>4, <1>5 DEF Segment

LEMMA Gap ==
    ASSUME text \in Texts, NEW q \in Places(text), CutAt(q),
           NEW k \in Places(text), EndsFrom(q, k)
    PROVE  \A s \in Cuts(text) : s <= q \/ k <= s
  <1> DEFINE S == {s \in Cuts(text) : s <= q \/ k <= s}
  <1>1. Len(text) \in Nat
    BY Characters
  <1>2. 1 \in S
    BY <1>1, CutFacts DEF Places
  <1>3. ASSUME NEW p \in S, p <= Len(text), NEW e \in Places(text),
               Segment(text, p, e)
        PROVE  e \in S
    <2>1. e \in Cuts(text)
      BY <1>3, CutFacts
    <2>2. p \in Places(text) /\ p < e
      BY <1>3, CutFacts, SegmentForward
    <2>3. CASE p < q
      BY <1>3, <2>1, <2>3 DEF CutAt
    <2>4. CASE p = q
      BY <1>3, <2>1, <2>4 DEF EndsFrom
    <2>5. CASE q < p
      BY <1>1, <2>1, <2>2, <2>5 DEF Places
    <2>6. QED BY <1>1, <2>2, <2>3, <2>4, <2>5 DEF Places
  <1>4. S \in SUBSET Places(text) /\ Closed(text, S)
    BY <1>2, <1>3, CutFacts DEF Closed
  <1>5. QED BY <1>4, CutsLeast

\* Where the one segment at a cut ends is the next cut.
LEMMA NextCut ==
    ASSUME text \in Texts, NEW q \in Places(text), q <= Len(text), CutAt(q),
           NEW k \in Places(text), EndsAt(q, k)
    PROVE  /\ q < k
           /\ CutAt(k)
           /\ \A s \in Cuts(text) : s <= q \/ k <= s
  <1>1. Len(text) \in Nat
    BY Characters
  <1>2. Segment(text, q, k) /\ q < k
    BY SegmentForward DEF EndsAt
  <1>3. EndsFrom(q, k)
    BY <1>1 DEF EndsAt, EndsFrom, Places
  <1>4. \A s \in Cuts(text) : s <= q \/ k <= s
    BY <1>3, Gap
  <1>5. k \in Cuts(text)
    BY <1>2, CutFacts DEF CutAt
  <1>6. ASSUME NEW s \in Cuts(text), NEW e \in Places(text),
               s < k, Segment(text, s, e)
        PROVE  e <= k
    <2>1. s \in Places(text)
      BY CutFacts
    <2>2. CASE s < q
      BY <1>1, <1>2, <1>6, <2>1, <2>2 DEF CutAt, Places
    <2>3. CASE s = q
      BY <1>1, <1>6, <2>3 DEF EndsAt, Places
    <2>4. QED BY <1>1, <1>4, <1>6, <2>1, <2>2, <2>3 DEF Places
  <1>7. QED BY <1>2, <1>4, <1>5, <1>6 DEF CutAt

\* Without a mention at a cut from i up to k there is nothing new.
LEMMA NothingNew ==
    ASSUME text \in Texts, NEW k \in Places(text), NEW j \in Places(text), j <= k,
           \A s \in Cuts(text), e \in Places(text) :
              (j <= s /\ s < k) => ~Mention(text, s, e)
    PROVE  MentionedBefore(text, k) = MentionedBefore(text, j)
  <1>1. Len(text) \in Nat /\ Cuts(text) \subseteq Places(text)
    BY Characters, CutFacts
  <1>2. ASSUME NEW n
        PROVE  n \in MentionedBefore(text, k) <=> n \in MentionedBefore(text, j)
    <2>1. \A s \in Cuts(text), e \in Places(text) :
             s < k /\ Mention(text, s, e) <=> s < j /\ Mention(text, s, e)
      BY <1>1 DEF Places
    <2>2. QED BY <2>1, MentionedMember
  <1>3. QED BY <1>2
-----------------------------------------------------------------------------
Inv == TypeOK /\ Segmented /\ FoundSoFar

\* What one iteration does at a cut, by what is there.
LEMMA AtFence ==
    ASSUME text \in Texts, NEW q \in Places(text), q <= Len(text),
           FenceAt(text, q)
    PROVE  /\ q + 3 \in Places(text)
           /\ EndsFrom(q, q + 3)
           /\ \A e \in Places(text) : ~Mention(text, q, e)
  BY Characters DEF FenceAt, Places, EndsFrom, Segment, Fenced, Span, Mention,
                    MentionAt, Character

LEMMA AtTick ==
    ASSUME text \in Texts, NEW q \in Places(text), q <= Len(text),
           text[q] = Tick, ~FenceAt(text, q)
    PROVE  /\ q + 1 \in Places(text)
           /\ EndsFrom(q, q + 1)
           /\ \A e \in Places(text) : ~Mention(text, q, e)
  BY Characters DEF Places, EndsFrom, Segment, Fenced, Span, Mention,
                    MentionAt, Character

LEMMA AtCharacter ==
    ASSUME text \in Texts, NEW q \in Places(text), q <= Len(text),
           text[q] # Tick, ~MentionAt(text, q)
    PROVE  /\ q + 1 \in Places(text)
           /\ EndsAt(q, q + 1)
           /\ \A e \in Places(text) : ~Mention(text, q, e)
  BY Characters DEF Places, EndsAt, Segment, Fenced, FenceAt, Span, Mention,
                    Character

LEMMA AtMention ==
    ASSUME text \in Texts, NEW q \in Places(text), q <= Len(text),
           MentionAt(text, q), NEW e \in Places(text), NameEnds(text, q, e)
    PROVE  EndsAt(q, e) /\ Mention(text, q, e)
  <1>1. Len(text) \in Nat
    BY Characters
  <1>2. ASSUME NEW f \in Places(text), NameEnds(text, q, f) PROVE f = e
    <2>1. ~(f < e)
      BY <1>1, <1>2 DEF NameEnds, Places
    <2>2. ~(e < f)
      BY <1>1, <1>2 DEF NameEnds, Places
    <2>3. QED BY <1>1, <2>1, <2>2 DEF Places
  <1>3. text[q] # Tick
    BY Characters DEF MentionAt
  <1>4. QED
    BY <1>2, <1>3 DEF EndsAt, Segment, Fenced, FenceAt, Span, Mention, Character

\* From inside a fenced block or an inline span that began at q.
LEMMA InsideFence ==
    ASSUME text \in Texts, i \in Places(text), i <= Len(text),
           NEW q \in Places(text), InFence(q)
    PROVE  /\ q < i /\ EndsFrom(q, i)
           /\ ~FenceAt(text, i) => EndsFrom(q, i + 1)
           /\ FenceAt(text, i) => EndsAt(q, i + 3) /\ i + 3 \in Places(text)
  <1>1. Len(text) \in Nat
    BY Characters
  <1>2. \A e \in Places(text) : Segment(text, q, e) <=> Fenced(text, q, e)
    BY Characters DEF InFence, FenceAt, Segment, Span, Mention, MentionAt, Character
  <1>3. /\ q < i /\ q + 3 <= i
        /\ \A r \in (q + 3)..(i - 1) : ~FenceAt(text, r)
        /\ FenceAt(text, q)
    BY <1>1 DEF InFence, Places
  <1>4. ASSUME NEW e \in Places(text), Fenced(text, q, e)
        PROVE  \/ e - 3 \in Nat /\ i <= e - 3 /\ FenceAt(text, e - 3)
                  /\ \A r \in (q + 3)..(e - 4) : ~FenceAt(text, r)
               \/ e = Len(text) + 1 /\ \A r \in (q + 3)..Len(text) : ~FenceAt(text, r)
    BY <1>1, <1>3, <1>4 DEF Fenced, Places
  <1>5. EndsFrom(q, i)
    BY <1>1, <1>2, <1>4 DEF EndsFrom, Places
  <1>6. ASSUME ~FenceAt(text, i) PROVE EndsFrom(q, i + 1)
    <2>1. ASSUME NEW e \in Places(text), Fenced(text, q, e) PROVE i + 1 <= e
      BY <1>1, <1>4, <1>6, <2>1 DEF Places
    <2>2. QED BY <1>2, <2>1 DEF EndsFrom
  <1>7. ASSUME FenceAt(text, i)
        PROVE  EndsAt(q, i + 3) /\ i + 3 \in Places(text)
    <2>1. i + 3 \in Places(text)
      BY <1>1, <1>7 DEF FenceAt, Places
    <2>2. Fenced(text, q, i + 3)
      <3>1. (i + 3) - 3 = i /\ (i + 3) - 4 = i - 1 /\ q + 6 <= i + 3
        BY <1>1, <1>3 DEF Places
      <3>2. QED BY <1>3, <1>7, <3>1 DEF Fenced
    <2>3. ASSUME NEW e \in Places(text), Fenced(text, q, e) PROVE e = i + 3
      <3>1. i \in (q + 3)..Len(text)
        BY <1>1, <1>3 DEF Places
      <3>2. CASE e - 3 # i
        BY <1>1, <1>3, <1>4, <1>7, <2>3, <3>1, <3>2 DEF Places
      <3>3. QED BY <1>1, <3>2 DEF Places
    <2>4. QED BY <1>2, <2>1, <2>2, <2>3 DEF EndsAt
  <1>8. QED BY <1>3, <1>5, <1>6, <1>7

LEMMA InsideSpan ==
    ASSUME text \in Texts, i \in Places(text), i <= Len(text),
           NEW q \in Places(text), InSpan(q)
    PROVE  /\ q < i /\ EndsFrom(q, i)
           /\ text[i] # Tick => EndsFrom(q, i + 1)
           /\ text[i] = Tick => EndsAt(q, i + 1)
           /\ i + 1 \in Places(text)
  <1>1. Len(text) \in Nat /\ i + 1 \in Places(text)
    BY Characters DEF Places
  <1>2. \A e \in Places(text) : Segment(text, q, e) <=> Span(text, q, e)
    BY Characters DEF InSpan, Segment, Fenced, Mention, MentionAt, Character
  <1>3. /\ q < i /\ text[q] = Tick /\ ~FenceAt(text, q)
        /\ \A r \in (q + 1)..(i - 1) : text[r] # Tick
    BY DEF InSpan
  <1>4. ASSUME NEW e \in Places(text), Span(text, q, e)
        PROVE  \/ e - 1 \in Nat /\ i <= e - 1 /\ text[e - 1] = Tick
                  /\ \A r \in (q + 1)..(e - 2) : text[r] # Tick
               \/ e = Len(text) + 1 /\ \A r \in (q + 1)..Len(text) : text[r] # Tick
    BY <1>1, <1>3, <1>4 DEF Span, Places
  <1>5. EndsFrom(q, i)
    BY <1>1, <1>2, <1>4 DEF EndsFrom, Places
  <1>6. ASSUME text[i] # Tick PROVE EndsFrom(q, i + 1)
    <2>1. ASSUME NEW e \in Places(text), Span(text, q, e) PROVE i + 1 <= e
      BY <1>1, <1>4, <1>6, <2>1 DEF Places
    <2>2. QED BY <1>2, <2>1 DEF EndsFrom
  <1>7. ASSUME text[i] = Tick PROVE EndsAt(q, i + 1)
    <2>1. Span(text, q, i + 1)
      <3>1. (i + 1) - 1 = i /\ (i + 1) - 2 = i - 1 /\ q + 2 <= i + 1
        BY <1>1, <1>3 DEF Places
      <3>2. QED BY <1>3, <1>7, <3>1 DEF Span
    <2>2. ASSUME NEW e \in Places(text), Span(text, q, e) PROVE e = i + 1
      <3>1. i \in (q + 1)..Len(text)
        BY <1>1, <1>3 DEF Places
      <3>2. CASE e - 1 # i
        BY <1>1, <1>3, <1>4, <1>7, <2>2, <3>1, <3>2 DEF Places
      <3>3. QED BY <1>1, <3>2 DEF Places
    <2>3. QED BY <1>1, <1>2, <2>1, <2>2 DEF EndsAt
  <1>8. QED BY <1>1, <1>3, <1>5, <1>6, <1>7
-----------------------------------------------------------------------------
LEMMA InitInv == Init => Inv
  <1> SUFFICES ASSUME Init PROVE Inv
    OBVIOUS
  <1>1. Len(text) \in Nat /\ 1 \in Places(text) /\ Cuts(text) \subseteq Places(text)
        /\ 1 \in Cuts(text)
    BY Characters, CutFacts DEF Init, Places
  <1>2. \A s \in Cuts(text) : ~(s < 1)
    BY <1>1 DEF Places
  <1>3. TypeOK /\ Segmented
    BY <1>1, <1>2 DEF Init, TypeOK, Segmented, CutAt
  <1>4. FoundSoFar
    <2>1. \A n : n \notin MentionedBefore(text, 1)
      BY <1>2, MentionedMember
    <2>2. QED BY <2>1 DEF Init, FoundSoFar
  <1>5. QED BY <1>3, <1>4 DEF Inv

\* A step that opens or stays in code: the segment at q lasts beyond the new
\* index, so that nothing is found.
LEMMA CodeGoesOn ==
    ASSUME text \in Texts, i \in Places(text), FoundSoFar,
           NEW q \in Places(text), q <= i, CutAt(q),
           NEW k \in Places(text), i <= k, EndsFrom(q, k),
           \A e \in Places(text) : q = i => ~Mention(text, q, e)
    PROVE  found = MentionedBefore(text, k)
  <1>1. Len(text) \in Nat /\ Cuts(text) \subseteq Places(text)
    BY Characters, CutFacts
  <1>2. \A s \in Cuts(text) : s <= q \/ k <= s
    BY Gap
  <1>3. \A s \in Cuts(text), e \in Places(text) :
           (i <= s /\ s < k) => ~Mention(text, s, e)
    BY <1>1, <1>2 DEF Places
  <1>4. QED BY <1>3, NothingNew DEF FoundSoFar

LEMMA FenceStep == ASSUME Inv, ToggleFence PROVE Inv'
  <1> USE DEF Inv, TypeOK
  <1>1. /\ Len(text) \in Nat /\ i <= Len(text) /\ FenceAt(text, i) /\ ~inInlineCode
        /\ i' = i + 3 /\ inFencedCode' = ~inFencedCode
        /\ text' = text /\ inInlineCode' = inInlineCode /\ found' = found
    BY Characters DEF ToggleFence, FenceHere, Scanning
  <1>2. i + 3 \in Places(text)
    BY <1>1, AtFence
  <1>3. CASE ~inFencedCode
    <2>1. PICK q \in Places(text) : q = i
      OBVIOUS
    <2>2. CutAt(q) /\ EndsFrom(q, i + 3) /\ \A e \in Places(text) : ~Mention(text, q, e)
      BY <1>1, <1>3, <2>1, AtFence DEF Segmented, Plain
    <2>3. found = MentionedBefore(text, i + 3)
      <3>1. q <= i /\ i <= i + 3
        BY <1>1, <2>1 DEF Places
      <3>2. QED BY <1>2, <2>2, <3>1, CodeGoesOn
    <2>4. InFence(q)'
      BY <1>1, <1>2, <2>1 DEF InFence, Places
    <2>5. CutAt(q)'
      BY <1>1, <2>2 DEF CutAt
    <2>6. QED BY <1>1, <1>2, <1>3, <2>3, <2>4, <2>5 DEF Segmented, FoundSoFar, Plain
  <1>4. CASE inFencedCode
    <2>1. PICK q \in Places(text) : CutAt(q) /\ InFence(q)
      BY <1>4 DEF Segmented
    <2>2. q < i /\ EndsAt(q, i + 3) /\ q <= Len(text)
      BY <1>1, <2>1, InsideFence DEF Places
    <2>3. CutAt(i + 3) /\ EndsFrom(q, i + 3)
      <3>1. CutAt(i + 3)
        BY <1>2, <2>1, <2>2, NextCut
      <3>2. EndsFrom(q, i + 3)
        BY <1>1, <2>2 DEF EndsFrom, EndsAt, Places
      <3>3. QED BY <3>1, <3>2
    <2>4. found = MentionedBefore(text, i + 3)
      BY <1>1, <1>2, <2>1, <2>2, <2>3, CodeGoesOn DEF Places
    <2>5. QED BY <1>1, <1>2, <1>4, <2>3, <2>4 DEF Segmented, FoundSoFar, Plain, CutAt
  <1>5. QED BY <1>3, <1>4

LEMMA InlineStep == ASSUME Inv, ToggleInline PROVE Inv'
  <1> USE DEF Inv, TypeOK
  <1>1. /\ Len(text) \in Nat /\ i <= Len(text) /\ text[i] = Tick /\ ~inFencedCode
        /\ ~inInlineCode => ~FenceAt(text, i)
        /\ i' = i + 1 /\ inInlineCode' = ~inInlineCode
        /\ text' = text /\ inFencedCode' = inFencedCode /\ found' = found
    BY Characters DEF ToggleInline, TickHere, FenceHere, Scanning
  <1>2. i + 1 \in Places(text)
    BY <1>1 DEF Places
  <1>3. CASE ~inInlineCode
    <2>1. PICK q \in Places(text) : q = i
      OBVIOUS
    <2>2. CutAt(q) /\ EndsFrom(q, i + 1) /\ \A e \in Places(text) : ~Mention(text, q, e)
      BY <1>1, <1>3, <2>1, AtTick DEF Segmented, Plain
    <2>3. found = MentionedBefore(text, i + 1)
      <3>1. q <= i /\ i <= i + 1
        BY <1>1, <2>1 DEF Places
      <3>2. QED BY <1>2, <2>2, <3>1, CodeGoesOn
    <2>4. InSpan(q)'
      BY <1>1, <1>2, <1>3, <2>1 DEF InSpan, Places
    <2>5. CutAt(q)'
      BY <1>1, <2>2 DEF CutAt
    <2>6. QED BY <1>1, <1>2, <1>3, <2>3, <2>4, <2>5 DEF Segmented, FoundSoFar, Plain
  <1>4. CASE inInlineCode
    <2>1. PICK q \in Places(text) : CutAt(q) /\ InSpan(q)
      BY <1>4 DEF Segmented
    <2>2. q < i /\ EndsAt(q, i + 1) /\ q <= Len(text)
      BY <1>1, <2>1, InsideSpan DEF Places
    <2>3. CutAt(i + 1) /\ EndsFrom(q, i + 1)
      <3>1. CutAt(i + 1)
        BY <1>2, <2>1, <2>2, NextCut
      <3>2. EndsFrom(q, i + 1)
        BY <1>1, <2>2 DEF EndsFrom, EndsAt, Places
      <3>3. QED BY <3>1, <3>2
    <2>4. found = MentionedBefore(text, i + 1)
      BY <1>1, <1>2, <2>1, <2>2, <2>3, CodeGoesOn DEF Places
    <2>5. QED BY <1>1, <1>2, <1>4, <2>3, <2>4 DEF Segmented, FoundSoFar, Plain, CutAt
  <1>5. QED BY <1>3, <1>4

LEMMA CodeStep == ASSUME Inv, SkipCode PROVE Inv'
  <1> USE DEF Inv, TypeOK
  <1>1. /\ Len(text) \in Nat /\ i <= Len(text) /\ ~Plain
        /\ ~FenceHere /\ ~TickHere
        /\ i' = i + 1 /\ UNCHANGED <<text, inInlineCode, inFencedCode, found>>
    BY Characters DEF SkipCode, Scanning
  <1>2. i + 1 \in Places(text)
    BY <1>1 DEF Places
  <1>3. CASE inFencedCode
    <2>1. PICK q \in Places(text) : CutAt(q) /\ InFence(q)
      BY <1>3 DEF Segmented
    <2>2. ~FenceAt(text, i) /\ ~inInlineCode
      BY <1>1, <1>3 DEF FenceHere
    <2>3. q < i /\ EndsFrom(q, i + 1)
      BY <1>1, <2>1, <2>2, InsideFence
    <2>4. found = MentionedBefore(text, i + 1)
      BY <1>1, <1>2, <2>1, <2>3, CodeGoesOn DEF Places
    <2>5. InFence(q)' /\ CutAt(q)'
      BY <1>1, <1>2, <2>1, <2>2 DEF InFence, CutAt, Places
    <2>6. QED BY <1>1, <1>2, <1>3, <2>2, <2>4, <2>5 DEF Segmented, FoundSoFar, Plain
  <1>4. CASE inInlineCode
    <2>1. PICK q \in Places(text) : CutAt(q) /\ InSpan(q)
      BY <1>4 DEF Segmented
    <2>2. text[i] # Tick /\ ~inFencedCode
      BY <1>1, <1>4 DEF FenceHere, TickHere
    <2>3. q < i /\ EndsFrom(q, i + 1)
      BY <1>1, <2>1, <2>2, InsideSpan
    <2>4. found = MentionedBefore(text, i + 1)
      BY <1>1, <1>2, <2>1, <2>3, CodeGoesOn DEF Places
    <2>5. InSpan(q)' /\ CutAt(q)'
      BY <1>1, <1>2, <2>1, <2>2 DEF InSpan, CutAt, Places
    <2>6. QED BY <1>1, <1>2, <1>4, <2>2, <2>4, <2>5 DEF Segmented, FoundSoFar, Plain
  <1>5. QED BY <1>1, <1>3, <1>4 DEF Plain

\* The three steps outside code: the scan is at a cut and not at a backtick.
LEMMA PlainFacts ==
    ASSUME Inv, Scanning, ~FenceHere, ~TickHere, Plain
    PROVE  Len(text) \in Nat /\ i <= Len(text) /\ CutAt(i) /\ text[i] # Tick
  BY Characters DEF Inv, TypeOK, Scanning, FenceHere, TickHere, Plain, Segmented

\* One character that starts no mention.
LEMMA OneCharacter ==
    ASSUME text \in Texts, NEW q \in Places(text), q <= Len(text), CutAt(q),
           text[q] # Tick, ~MentionAt(text, q)
    PROVE  /\ q + 1 \in Places(text) /\ CutAt(q + 1)
           /\ MentionedBefore(text, q + 1) = MentionedBefore(text, q)
  <1>1. q + 1 \in Places(text) /\ EndsAt(q, q + 1)
        /\ \A e \in Places(text) : ~Mention(text, q, e)
    BY AtCharacter
  <1>2. CutAt(q + 1) /\ \A s \in Cuts(text) : s <= q \/ q + 1 <= s
    BY <1>1, NextCut
  <1>3. Len(text) \in Nat /\ Cuts(text) \subseteq Places(text)
    BY Characters, CutFacts
  <1>4. \A s \in Cuts(text), e \in Places(text) :
           (q <= s /\ s < q + 1) => ~Mention(text, s, e)
    BY <1>1, <1>3 DEF Places
  <1>5. q <= q + 1
    BY <1>3 DEF Places
  <1>6. QED BY <1>1, <1>2, <1>4, <1>5, NothingNew

LEMMA EscapeStep == ASSUME Inv, SkipEscaped PROVE Inv'
  <1>1. /\ Len(text) \in Nat /\ i \in Places(text) /\ text \in Texts
        /\ i <= Len(text) /\ CutAt(i) /\ text[i] = Backslash
        /\ i + 1 <= Len(text) /\ text[i + 1] = At
        /\ Plain /\ found = MentionedBefore(text, i)
        /\ i' = i + 2 /\ UNCHANGED <<text, inInlineCode, inFencedCode, found>>
    BY PlainFacts DEF SkipEscaped, EscapeHere, Inv, TypeOK, FoundSoFar
  <1>2. /\ i + 1 \in Places(text) /\ CutAt(i + 1)
        /\ MentionedBefore(text, i + 1) = MentionedBefore(text, i)
    BY <1>1, Characters, OneCharacter DEF MentionAt
  <1>3. ~MentionAt(text, i + 1) /\ text[i + 1] # Tick
    <2>1. (i + 1) - 1 = i /\ i + 1 > 1
      BY <1>1 DEF Places
    <2>2. QED BY <1>1, <2>1, Characters DEF MentionAt
  <1>4. /\ (i + 1) + 1 \in Places(text) /\ CutAt((i + 1) + 1)
        /\ MentionedBefore(text, (i + 1) + 1) = MentionedBefore(text, i + 1)
    BY <1>1, <1>2, <1>3, OneCharacter
  <1>5. (i + 1) + 1 = i + 2
    BY <1>1 DEF Places
  <1>6. QED
    BY <1>1, <1>2, <1>4, <1>5
       DEF Inv, TypeOK, Segmented, FoundSoFar, Plain, CutAt

LEMMA OtherStep == ASSUME Inv, SkipOther PROVE Inv'
  <1>1. /\ Len(text) \in Nat /\ i \in Places(text) /\ text \in Texts
        /\ i <= Len(text) /\ CutAt(i) /\ text[i] # Tick /\ ~MentionAt(text, i)
        /\ Plain /\ found = MentionedBefore(text, i)
        /\ i' = i + 1 /\ UNCHANGED <<text, inInlineCode, inFencedCode, found>>
    BY PlainFacts DEF SkipOther, Inv, TypeOK, FoundSoFar
  <1>2. /\ i + 1 \in Places(text) /\ CutAt(i + 1)
        /\ MentionedBefore(text, i + 1) = MentionedBefore(text, i)
    BY <1>1, OneCharacter
  <1>3. QED
    BY <1>1, <1>2 DEF Inv, TypeOK, Segmented, FoundSoFar, Plain, CutAt

LEMMA MentionStep == ASSUME Inv, TakeMention PROVE Inv'
  <1>1. /\ Len(text) \in Nat /\ i \in Places(text) /\ text \in Texts
        /\ i <= Len(text) /\ CutAt(i) /\ MentionAt(text, i)
        /\ Plain /\ found = MentionedBefore(text, i)
        /\ UNCHANGED <<text, inInlineCode, inFencedCode>>
    BY PlainFacts DEF TakeMention, Inv, TypeOK, FoundSoFar
  <1>2. PICK e \in Places(text) : /\ NameEnds(text, i, e) /\ i' = e
                                  /\ found' = found \cup {Name(text, i, e)}
    BY DEF TakeMention, Places
  <1>3. EndsAt(i, e) /\ Mention(text, i, e)
    BY <1>1, <1>2, AtMention
  <1>4. i < e /\ CutAt(e) /\ \A s \in Cuts(text) : s <= i \/ e <= s
    BY <1>1, <1>3, NextCut
  <1>5. found' = MentionedBefore(text, e)
    <2>1. ASSUME NEW s \in Cuts(text), NEW f \in Places(text)
          PROVE  s < e /\ Mention(text, s, f) <=>
                    \/ s < i /\ Mention(text, s, f)
                    \/ s = i /\ f = e
      <3>1. s \in Places(text)
        BY <1>1, CutFacts
      <3>2. CASE s = i
        BY <1>3, <1>4, <3>2 DEF EndsAt, Segment
      <3>3. CASE s # i
        BY <1>1, <1>4, <3>1, <3>3 DEF Places
      <3>4. QED BY <3>2, <3>3
    <2>2. i \in Cuts(text)
      BY <1>1 DEF CutAt
    <2>3. ASSUME NEW n
          PROVE  n \in MentionedBefore(text, e) <=>
                    n \in MentionedBefore(text, i) \/ n = Name(text, i, e)
      BY <1>3, <1>4, <2>1, <2>2, MentionedMember
    <2>4. QED BY <1>1, <1>2, <2>3
  <1>6. QED
    BY <1>1, <1>2, <1>4, <1>5 DEF Inv, TypeOK, Segmented, FoundSoFar, Plain, CutAt

LEMMA StutterStep == ASSUME Inv, UNCHANGED vars PROVE Inv'
  BY DEF vars, Inv, TypeOK, Segmented, FoundSoFar, Plain, CutAt, InFence, InSpan

LEMMA InvHolds == Spec => []Inv
  <1>1. Inv /\ [Next]_vars => Inv'
    BY FenceStep, InlineStep, CodeStep, EscapeStep, MentionStep, OtherStep,
       StutterStep DEF Next
  <1>2. QED BY InitInv, <1>1, PTL DEF Spec

\* The scan never leaves the text and is never in a block and a span at once.
THEOREM MentionsTypeCorrect == Spec => []TypeOK
  <1>1. Inv => TypeOK
    BY DEF Inv
  <1>2. QED BY <1>1, InvHolds, PTL

\* What the scan of a text returns is what the definition says.
THEOREM ScanIsExact == Spec => []ScanExact
  <1>1. Inv => ScanExact
    BY DEF Inv, FoundSoFar, ScanExact, Mentioned
  <1>2. QED BY <1>1, InvHolds, PTL
=============================================================================
