------------------------- MODULE AssistantFiles_proof -------------------------
(***************************************************************************)
(* Theorems about the two instruction files of a project (AssistantFiles), *)
(* for any number of processes, runs, failures and kills, and any number   *)
(* of pieces of the AGENTS.md found at the beginning.                      *)
(*                                                                         *)
(* First the documents.  What is found is DocSafe, and every step of a     *)
(* refresh keeps a document so: each comment stands once and its block is  *)
(* begun, fences and imports are in front of the blocks, and something     *)
(* ends an edited block before text follows it.  Of such a document a      *)
(* refresh removes no line of the project (Keeps), and what it leaves has  *)
(* nothing that a second one would change (Refreshed, Stuck).              *)
(*                                                                         *)
(* Then the runs.  Each works with what it has read before, while others   *)
(* change it.  The invariant FilesInv says what of it is still so whatever *)
(* they do (Beside, Through, Ever), and what holds only of a run that has  *)
(* the project for itself (Reached) and after it (StaysSettled).           *)
(***************************************************************************)
EXTENDS AssistantFiles, FiniteSetTheorems, WellFoundedInduction, TLAPS

DocLines == {"text", "heading", "loose", "behind", "edited", "mark", "session", "findings", "title",
             "new", "old", "rest", "note", "include", "fence"}
ObsoleteMarks == {"session", "findings"}

\* Every comment stands once, and the first lines of its block follow it.
OnceEach(d) == \A i, j \in DOMAIN d : d[i] \in Comments /\ d[j] = d[i] => i = j
Begun(d) == \A i \in DOMAIN d : d[i] \in Comments =>
              /\ i + 2 \in DOMAIN d /\ d[i + 1] = "title"
              /\ d[i] = "mark" => d[i + 2] \in {"new", "old"}
              /\ d[i] # "mark" => d[i + 2] \in {"rest", "edited"}
OldInMark(d) == \A i \in DOMAIN d : d[i] = "old" => i > 2 /\ d[i - 2] = "mark"
\* Fences and imports are in front of the blocks.
FencesFirst(d) == \A i, j \in DOMAIN d : d[i] \in {"fence", "include"} /\ d[j] \in Comments => i < j
\* Text behind an edited block has something before it that ends the block.
TextIsBounded(d) ==
  \A i, j \in DOMAIN d : i < j /\ d[i] \in ObsoleteMarks /\ d[i + 2] = "edited" /\ d[j] = "text" =>
    \E k \in i + 2..j : d[k] \in {"mark", "heading"} \/ (d[i] = "session" /\ d[k] = "findings")
DocSafe(d) == d \in Seq(DocLines) /\ OnceEach(d) /\ Begun(d) /\ OldInMark(d) /\ FencesFirst(d) /\ TextIsBounded(d)

\* An edited block whose end is unknown: nothing follows that ends it, or the mark does.
WalledOff(d, i) == \A j \in i + 2..Len(d) : d[j] \in Comments \cup Headings => \E m \in i + 2..j : d[m] = "mark"
Stuck(d, name) == \A i \in DOMAIN d : d[i] = name => d[i + 2] = "edited" /\ WalledOff(d, i)

-----------------------------------------------------------------------------
LEMMA SmallestIs == ASSUME NEW S \in SUBSET Nat, S # {} PROVE \E n \in S : \A k \in S : n <= k
<1> DEFINE R == {ss \in Nat \X Nat : ss[1] < ss[2]}
<1>1. IsWellFoundedOn(R, Nat)
  BY NatLessThanWellFounded DEF OpToRel
<1>2. PICK n \in S : \A k \in S : ~(<<k, n>> \in R)
  <2> HIDE DEF R
  <2> QED
    BY <1>1, WFMin
<1>3. ASSUME NEW k \in S PROVE n <= k
  <2>1. ~(<<k, n>> \in R) /\ k \in Nat /\ n \in Nat
    BY <1>2
  <2>2. ~(k < n)
    BY <2>1
  <2> QED
    BY <2>1, <2>2
<1> QED
  BY <1>2, <1>3

LEMMA FirstIsIn == ASSUME NEW S \in SUBSET Nat, S # {} PROVE First(S) \in S /\ \A j \in S : First(S) <= j
  BY SmallestIs DEF First

LEMMA MarkerPlace ==
  ASSUME NEW d, DocSafe(d), NEW m \in Comments
  PROVE  \/ MarkerLine(d, m) = 0 /\ ~Has(d, m)
         \/ /\ MarkerLine(d, m) \in DOMAIN d /\ d[MarkerLine(d, m)] = m
            /\ \A i \in DOMAIN d : d[i] = m => i = MarkerLine(d, m)
<1> DEFINE at == {i \in DOMAIN d : d[i] = m}
<1>1. DOMAIN d = 1..Len(d) /\ Len(d) \in Nat
  BY DEF DocSafe
<1>2. CASE at = {}
  BY <1>2 DEF MarkerLine, Has
<1>3. CASE at # {}
  <2>1. MarkerLine(d, m) = First(at)
    BY <1>3 DEF MarkerLine
  <2>2. at \in SUBSET Nat
    BY <1>1
  <2>3. First(at) \in at
    BY <1>3, <2>2, FirstIsIn
  <2>4. \A i, j \in DOMAIN d : d[i] \in Comments /\ d[j] = d[i] => i = j
    BY DEF DocSafe, OnceEach
  <2> QED
    BY <2>1, <2>3, <2>4
<1> QED
  BY <1>2, <1>3

LEMMA ThreeLines ==
  ASSUME NEW d \in Seq(DocLines), NEW i \in DOMAIN d, i + 2 \in DOMAIN d, NEW a, NEW b, NEW c
  PROVE  SubSeq(d, i, i + Len(<<a, b, c>>) - 1) = <<a, b, c>> <=> d[i] = a /\ d[i + 1] = b /\ d[i + 2] = c
<1>1. Len(<<a, b, c>>) = 3 /\ Len(d) \in Nat /\ DOMAIN d = 1..Len(d)
  OBVIOUS
<1> DEFINE t == SubSeq(d, i, i + 2)
<1> DEFINE u == i + 2
<1>a. u \in 1..Len(d) /\ i \in 1..Len(d) /\ u - i + 1 = 3 /\ i <= u
  BY <1>1
<1>b. t = SubSeq(d, i, u)
  OBVIOUS
<1>2. t \in Seq(DocLines) /\ Len(t) = 3 /\ \A k \in 1..3 : t[k] = d[i + k - 1]
  <2>1. t \in Seq(DocLines)
    BY <1>1, <1>a
  <2>2. Len(t) = 3
    BY <1>1, <1>a
  <2>3. ASSUME NEW k \in 1..3 PROVE t[k] = d[i + k - 1]
    BY <1>1, <1>a
  <2> QED
    BY <2>1, <2>2, <2>3
<1>3. t[1] = d[i] /\ t[2] = d[i + 1] /\ t[3] = d[i + 2]
  BY <1>1, <1>2
<1>4. t = <<t[1], t[2], t[3]>>
  <2> HIDE DEF t
  <2> QED
    BY <1>2
<1>5. i + Len(<<a, b, c>>) - 1 = i + 2
  BY <1>1
<1>6. SubSeq(d, i, i + Len(<<a, b, c>>) - 1) = t
  BY <1>5
<1>7. t = <<a, b, c>> <=> t[1] = a /\ t[2] = b /\ t[3] = c
  <2> HIDE DEF t
  <2>1. ASSUME t = <<a, b, c>> PROVE t[1] = a /\ t[2] = b /\ t[3] = c
    BY <2>1
  <2>2. ASSUME t[1] = a, t[2] = b, t[3] = c PROVE t = <<a, b, c>>
    BY <2>2, <1>4
  <2> QED
    BY <2>1, <2>2
<1> HIDE DEF t
<1> QED
  BY <1>3, <1>6, <1>7

\* What the end of an obsolete block bounds.
BlockIs(d, s, e) ==
  /\ e \in s + 3..Len(d) + 1
  /\ \A p \in s + 1..e - 1 : /\ d[p] \notin Comments \cup {"heading"}
                             /\ p > s + 1 => d[p] # "title"
  /\ d[s + 2] = "rest" => e = s + 3
  /\ d[s + 2] = "edited" => e \in DOMAIN d /\ d[e] # "mark" /\ d[e] \in Comments \cup Headings

LEMMA EndOfBlock ==
  ASSUME NEW d, DocSafe(d), NEW name \in ObsoleteMarks, NEW s \in DOMAIN d, d[s] = name,
         NEW e, e = MarkedBlockEnd(d, s, Obsolete[name], "mark")
  PROVE  \/ e = 0 /\ d[s + 2] = "edited" /\ WalledOff(d, s)
         \/ BlockIs(d, s, e) /\ (d[s + 2] = "edited" => ~WalledOff(d, s))
<1> DEFINE stops == {j \in s + 1..Len(d) : \/ d[j] \in Comments
                                           \/ d[j] \in Headings /\ \E k \in s + 1..j - 1 : d[k] \in Headings}
<1>1. /\ d \in Seq(DocLines) /\ DOMAIN d = 1..Len(d) /\ Len(d) \in Nat
      /\ s + 2 \in DOMAIN d /\ d[s + 1] = "title" /\ d[s + 2] \in {"rest", "edited"}
  BY DEF DocSafe, Begun, ObsoleteMarks, Comments
<1>2. Obsolete[name] = <<name, "title", "rest">>
  BY DEF Obsolete, ObsoleteMarks
<1>3. Len(Obsolete[name]) = 3
  BY <1>2
<1>4. SubSeq(d, s, s + Len(Obsolete[name]) - 1) = Obsolete[name] <=> d[s + 2] = "rest"
  BY <1>1, ThreeLines, <1>2
<1>5. CASE d[s + 2] = "rest"
  <2>1. e = s + 3
    BY <1>3, <1>4, <1>5 DEF MarkedBlockEnd
  <2>2. \A p \in s + 1..e - 1 : p = s + 1 \/ p = s + 2
    BY <2>1, <1>1
  <2>3. "title" \notin Comments \cup {"heading"} /\ "rest" \notin Comments \cup {"heading", "title", "edited"}
    BY DEF Comments
  <2> QED
    BY <2>1, <2>2, <2>3, <1>1, <1>5 DEF BlockIs
<1>6. CASE d[s + 2] = "edited"
  <2>1. SubSeq(d, s, s + Len(Obsolete[name]) - 1) # Obsolete[name]
    BY <1>4, <1>6
  <2>2. \A j \in s + 2..Len(d) : d[j] \in Comments \cup Headings <=> j \in stops
    BY <1>1 DEF Headings
  <2>3. \A j \in stops : j \in s + 3..Len(d)
    BY <1>1, <1>6 DEF Comments, Headings
  <2>4. CASE stops = {}
    BY <2>1, <2>4, <2>2, <1>6 DEF MarkedBlockEnd, WalledOff
  <2>5. CASE stops # {}
    <3>1. stops \in SUBSET Nat
      BY <1>1
    <3>2. First(stops) \in stops /\ \A j \in stops : First(stops) <= j
      BY <3>1, <2>5, FirstIsIn
    <3>3. e = IF d[First(stops)] = "mark" THEN 0 ELSE First(stops)
      BY <2>1, <2>5 DEF MarkedBlockEnd
    <3> DEFINE f == First(stops)
    <3>4. f \in s + 3..Len(d) /\ d[f] \in Comments \cup Headings
      BY <3>2, <2>2, <2>3, <1>1
    <3>5. \A p \in s + 2..f - 1 : d[p] \notin Comments \cup Headings
      BY <3>4, <1>1, <2>2, <3>2
    <3> HIDE DEF f, stops
    <3>6. CASE d[f] = "mark"
      BY <3>3, <3>6, <3>4, <3>5, <1>1, <1>6 DEF f, WalledOff
    <3>7. CASE d[f] # "mark"
      <4>1. e = f
        BY <3>3, <3>7 DEF f
      <4>2. BlockIs(d, s, e)
        <5>1. \A p \in s + 1..e - 1 : d[p] \notin Comments \cup {"heading"} /\ (p > s + 1 => d[p] # "title")
          BY <1>1, <4>1, <3>4, <3>5 DEF Comments, Headings
        <5> QED
          BY <5>1, <4>1, <3>4, <3>7, <1>1, <1>6 DEF BlockIs
      <4>3. ~WalledOff(d, s)
        BY <3>4, <1>1, <3>7, <3>5 DEF WalledOff, Comments
      <4> QED
        BY <4>2, <4>3
    <3> QED
      BY <3>6, <3>7
  <2> QED
    BY <2>4, <2>5
<1> QED
  BY <1>1, <1>5, <1>6

-----------------------------------------------------------------------------
(* What is left of a document when the lines from s to before e go.         *)
Cut(d, s, e) == SubSeq(d, 1, s - 1) \o SubSeq(d, e, Len(d))
CutIs(c, d, s, e) ==
  /\ c \in Seq(DocLines) /\ Len(c) = Len(d) - (e - s) /\ DOMAIN c = 1..Len(c) /\ Len(c) \in Nat
  /\ s \in 1..Len(d) /\ e \in s + 3..Len(d) + 1 /\ DOMAIN d = 1..Len(d) /\ Len(d) \in Nat /\ d \in Seq(DocLines)
  /\ \A p \in 1..s - 1 : p \in DOMAIN c /\ c[p] = d[p]
  /\ \A p \in s..Len(c) : c[p] = d[p + (e - s)]

LEMMA CutLines ==
  ASSUME NEW d \in Seq(DocLines), NEW s \in DOMAIN d, NEW e \in s + 3..Len(d) + 1
  PROVE  CutIs(Cut(d, s, e), d, s, e)
<1> DEFINE a == SubSeq(d, 1, s - 1)  b == SubSeq(d, e, Len(d))
<1>1. DOMAIN d = 1..Len(d) /\ Len(d) \in Nat /\ s \in 1..Len(d) /\ e \in Int /\ e >= s + 3 /\ e <= Len(d) + 1
  OBVIOUS
<1>2. a \in Seq(DocLines) /\ Len(a) = s - 1 /\ \A p \in 1..s - 1 : a[p] = d[p]
  BY <1>1
<1>3. b \in Seq(DocLines) /\ Len(b) = Len(d) + 1 - e /\ \A p \in 1..Len(d) + 1 - e : b[p] = d[e + p - 1]
  BY <1>1
<1> DEFINE c == a \o b
<1> HIDE DEF a, b
<1>4. c \in Seq(DocLines) /\ Len(c) = Len(a) + Len(b)
  BY <1>2, <1>3
<1>5. \A p \in 1..Len(a) : c[p] = a[p]
  BY <1>2, <1>3
<1>6. \A p \in Len(a) + 1..Len(a) + Len(b) : c[p] = b[p - Len(a)]
  BY <1>2, <1>3
<1> HIDE DEF c
<1>7. Len(c) = Len(d) - (e - s) /\ DOMAIN c = 1..Len(c) /\ Len(c) \in Nat
  BY <1>1, <1>2, <1>3, <1>4
<1>8. \A p \in 1..s - 1 : p \in DOMAIN c /\ c[p] = d[p]
  BY <1>1, <1>2, <1>5, <1>7
<1>10. Len(a) = s - 1 /\ Len(b) = Len(d) + 1 - e
  BY <1>2, <1>3
<1>9. \A p \in s..Len(c) : c[p] = d[p + (e - s)]
  <2> TAKE p \in s..Len(c)
  <2>1. p \in Len(a) + 1..Len(a) + Len(b) /\ p - Len(a) = p - s + 1 /\ p - s + 1 \in 1..Len(d) + 1 - e
    BY <1>1, <1>7, <1>10
  <2>2. c[p] = b[p - s + 1]
    BY <2>1, <1>6
  <2>3. b[p - s + 1] = d[e + (p - s + 1) - 1]
    BY <2>1, <1>3
  <2>4. e + (p - s + 1) - 1 = p + (e - s)
    BY <1>1
  <2> QED
    BY <2>2, <2>3, <2>4
<1> QED
  BY <1>1, <1>4, <1>7, <1>8, <1>9 DEF c, a, b, Cut, CutIs

\* Where a line of the rest stood before.
Was(p, s, e) == IF p < s THEN p ELSE p + (e - s)
LEMMA CutWas ==
  ASSUME NEW c, NEW d, NEW s, NEW e, CutIs(c, d, s, e)
  PROVE  /\ \A p \in DOMAIN c : Was(p, s, e) \in DOMAIN d /\ c[p] = d[Was(p, s, e)]
         /\ \A p, q \in DOMAIN c : p < q <=> Was(p, s, e) < Was(q, s, e)
         /\ \A q \in DOMAIN d : q \notin s..e - 1 => \E p \in DOMAIN c : Was(p, s, e) = q
         /\ \A p \in DOMAIN c : Was(p, s, e) \notin s..e - 1
<1>1. /\ DOMAIN c = 1..Len(c) /\ Len(c) \in Nat /\ DOMAIN d = 1..Len(d) /\ Len(d) \in Nat
      /\ s \in Nat /\ e \in Nat /\ 1 <= s /\ s + 3 <= e /\ e <= Len(d) + 1 /\ Len(c) = Len(d) - (e - s)
      /\ \A p \in 1..s - 1 : c[p] = d[p]
      /\ \A p \in s..Len(c) : c[p] = d[p + (e - s)]
  BY DEF CutIs
<1>2. \A p \in DOMAIN c : Was(p, s, e) \in DOMAIN d /\ c[p] = d[Was(p, s, e)]
  <2> TAKE p \in DOMAIN c
  <2>1. CASE p < s
    BY <2>1, <1>1 DEF Was
  <2>2. CASE ~(p < s)
    BY <2>2, <1>1 DEF Was
  <2> QED
    BY <2>1, <2>2
<1>3. \A p, q \in DOMAIN c : p < q <=> Was(p, s, e) < Was(q, s, e)
  BY <1>1 DEF Was
<1>4. ASSUME NEW q \in DOMAIN d, q \notin s..e - 1 PROVE \E p \in DOMAIN c : Was(p, s, e) = q
  <2>1. CASE q < s
    BY <2>1, <1>1 DEF Was
  <2>2. CASE ~(q < s)
    <3>1. q - (e - s) \in DOMAIN c /\ Was(q - (e - s), s, e) = q
      BY <2>2, <1>1, <1>4 DEF Was
    <3> QED
      BY <3>1
  <2> QED
    BY <2>1, <2>2
<1>5. \A p \in DOMAIN c : Was(p, s, e) \notin s..e - 1
  BY <1>1 DEF Was
<1> QED
  BY <1>2, <1>3, <1>4, <1>5

\* Around a comment that stays, its block's first lines stay.
LEMMA CutNear ==
  ASSUME NEW c, NEW d, NEW s, NEW e, CutIs(c, d, s, e), DocSafe(d), BlockIs(d, s, e), d[s] \in ObsoleteMarks,
         NEW p \in DOMAIN c, c[p] \in Comments
  PROVE  /\ p + 1 \in DOMAIN c /\ p + 2 \in DOMAIN c /\ Was(p + 1, s, e) = Was(p, s, e) + 1
         /\ Was(p + 2, s, e) = Was(p, s, e) + 2
<1> DEFINE w == Was(p, s, e)
<1>1. w \in DOMAIN d /\ d[w] \in Comments /\ w \notin s..e - 1
  BY CutWas
<1>2. w + 2 \in DOMAIN d /\ d[w + 1] = "title" /\ d[w + 2] \in {"new", "old", "rest", "edited"}
  BY <1>1 DEF DocSafe, Begun
<1>3. d[s] \in Comments /\ d[s] \notin {"title", "new", "old", "rest", "edited"}
  BY DEF ObsoleteMarks, Comments
<1>4. s # w + 1 /\ s # w + 2
  BY <1>2, <1>3
<1>5. /\ DOMAIN c = 1..Len(c) /\ Len(c) \in Nat /\ DOMAIN d = 1..Len(d) /\ Len(d) \in Nat
      /\ s \in Nat /\ e \in Nat /\ 1 <= s /\ s + 3 <= e /\ e <= Len(d) + 1 /\ Len(c) = Len(d) - (e - s)
  BY DEF CutIs
<1>6. CASE p < s
  BY <1>6, <1>4, <1>5 DEF Was
<1>7. CASE ~(p < s)
  <2>1. w = p + (e - s) /\ w + 2 <= Len(d)
    BY <1>2, <1>5, <1>7 DEF Was
  <2> QED
    BY <2>1, <1>5, <1>7 DEF Was
<1> QED
  BY <1>6, <1>7

LEMMA CutSafe ==
  ASSUME NEW c, NEW d, NEW s, NEW e, CutIs(c, d, s, e), DocSafe(d), BlockIs(d, s, e), d[s] \in ObsoleteMarks,
         d[s] = "findings" => Stuck(d, "session")
  PROVE  DocSafe(c)
<1> DEFINE W(p) == Was(p, s, e)
<1>0. /\ \A p \in DOMAIN c : W(p) \in DOMAIN d /\ c[p] = d[W(p)] /\ W(p) \notin s..e - 1
      /\ \A p, q \in DOMAIN c : p < q <=> W(p) < W(q)
      /\ \A q \in DOMAIN d : q \notin s..e - 1 => \E p \in DOMAIN c : W(p) = q
  BY CutWas
<1>1. DOMAIN c = 1..Len(c) /\ Len(c) \in Nat /\ DOMAIN d = 1..Len(d) /\ Len(d) \in Nat /\ c \in Seq(DocLines)
      /\ s \in 1..Len(d) /\ e \in s + 3..Len(d) + 1
  BY DEF CutIs
<1>2. \A p \in DOMAIN c : c[p] \in Comments => p + 1 \in DOMAIN c /\ p + 2 \in DOMAIN c /\ W(p + 1) = W(p) + 1 /\ W(p + 2) = W(p) + 2
  BY CutNear
<1> HIDE DEF W
<1>3. OnceEach(c)
  BY <1>0, <1>1 DEF OnceEach, DocSafe
<1>4. Begun(c)
  BY <1>0, <1>2 DEF Begun, DocSafe
<1>5. OldInMark(c)
  <2> SUFFICES ASSUME NEW i \in DOMAIN c, c[i] = "old" PROVE i > 2 /\ c[i - 2] = "mark"
    BY DEF OldInMark
  <2>1. W(i) > 2 /\ d[W(i) - 2] = "mark" /\ W(i) \in DOMAIN d
    BY <1>0 DEF DocSafe, OldInMark
  <2>2. W(i) - 2 \in DOMAIN d
    BY <2>1, <1>1
  <2>3. W(i) - 2 \notin s..e - 1
    BY <2>1, <1>1, <2>2 DEF ObsoleteMarks, BlockIs, Comments
  <2>4. PICK p \in DOMAIN c : W(p) = W(i) - 2
    BY <2>2, <2>3, <1>0
  <2>5. c[p] = "mark"
    BY <2>1, <2>4, <1>0
  <2>6. W(p + 2) = W(i) /\ p + 2 \in DOMAIN c
    BY <2>5, <2>4, <1>1, <1>2, <2>1 DEF Comments
  <2>7. p + 2 = i
    BY <1>0, <1>1, <2>6
  <2> QED
    BY <2>5, <2>7, <1>1
<1>6. FencesFirst(c)
  BY <1>0 DEF FencesFirst, DocSafe
<1>7. TextIsBounded(c)
  <2> SUFFICES ASSUME NEW i \in DOMAIN c, NEW j \in DOMAIN c, i < j, c[i] \in ObsoleteMarks, c[i + 2] = "edited", c[j] = "text"
               PROVE  \E k \in i + 2..j : c[k] \in {"mark", "heading"} \/ (c[i] = "session" /\ c[k] = "findings")
    BY DEF TextIsBounded
  <2>1. W(i) \in DOMAIN d /\ W(j) \in DOMAIN d /\ W(i) < W(j) /\ d[W(i)] = c[i] /\ d[W(i) + 2] = "edited" /\ d[W(j)] = "text"
        /\ i + 2 \in DOMAIN c /\ W(i + 2) = W(i) + 2
    BY <1>2, <1>0 DEF ObsoleteMarks, Comments
  <2>2. PICK k \in W(i) + 2..W(j) : d[k] \in {"mark", "heading"} \/ (d[W(i)] = "session" /\ d[k] = "findings")
    BY <2>1 DEF DocSafe, TextIsBounded
  \* The witness stays.
  <2>3. ASSUME NEW q \in W(i) + 2..W(j), q \notin s..e - 1, d[q] \in {"mark", "heading"} \/ (c[i] = "session" /\ d[q] = "findings")
        PROVE  \E r \in i + 2..j : c[r] \in {"mark", "heading"} \/ (c[i] = "session" /\ c[r] = "findings")
    <3>1. q \in DOMAIN d
      BY <2>1, <1>1
    <3>2. PICK r \in DOMAIN c : W(r) = q
      BY <3>1, <2>3, <1>0
    <3>3. ~(r < i + 2) /\ ~(j < r)
      BY <3>1, <3>2, <2>1, <1>0, <1>1
    <3>4. r \in i + 2..j
      BY <3>3, <1>1
    <3>5. c[r] = d[q]
      BY <3>2, <1>0
    <3> QED
      BY <3>4, <3>5, <2>3
  <2>4. CASE k \notin s..e - 1
    BY <2>2, <2>3, <2>4, <2>1
  <2>5. CASE k \in s..e - 1
    <3>1. k = s
      BY <2>5, <1>1, <2>2 DEF BlockIs, Comments
    <3>2. d[s] = "findings" /\ d[W(i)] = "session"
      BY <3>1, <2>2 DEF ObsoleteMarks
    <3>3. WalledOff(d, W(i))
      BY <3>2, <2>1 DEF Stuck
    <3>4. s \in W(i) + 2..Len(d)
      BY <3>1, <2>2, <1>1
    <3>5. PICK m \in W(i) + 2..s : d[m] = "mark"
      BY <3>2, <3>3, <3>4 DEF WalledOff, Comments
    <3>6. m # s
      BY <3>5, <3>2
    <3>7. m \notin s..e - 1 /\ m \in W(i) + 2..W(j)
      BY <3>6, <3>5, <3>1, <2>1, <1>1
    <3> QED
      BY <3>7, <3>5, <2>3
  <2> QED
    BY <2>4, <2>5
<1> QED
  BY <1>1, <1>3, <1>4, <1>5, <1>6, <1>7 DEF DocSafe

\* A step applied again and again: what a recursion over the naturals defines exists.
IteratedBy(f, base, step) ==
  /\ f = [n \in Nat |-> f[n]] /\ f[0] = base
  /\ \A n \in Nat : n # 0 => f[n] = step[n][f[n - 1]]

LEMMA Iterated == ASSUME NEW base, NEW step PROVE \E f : IteratedBy(f, base, step)
<1> DEFINE Rec(g, n) == IF n = 0 THEN base ELSE step[n][g[n - 1]]
           Sol(g, m) == g = [n \in 0..m |-> Rec(g, n)]
<1>1. \A m \in Nat : \E g : Sol(g, m)
  <2> DEFINE bad == {m \in Nat : ~\E g : Sol(g, m)}
  <2> SUFFICES ASSUME bad # {} PROVE FALSE
    OBVIOUS
  <2>1. PICK m \in bad : \A k \in bad : m <= k
    <3>1. bad \in SUBSET Nat
      OBVIOUS
    <3> HIDE DEF bad
    <3> QED
      BY <3>1, SmallestIs
  <2>2. CASE m = 0
    <3> DEFINE g == [n \in 0..0 |-> base]
    <3>1. \A n \in 0..0 : base = Rec(g, n)
      OBVIOUS
    <3>2. Sol(g, 0)
      <4>1. g = [n \in 0..0 |-> Rec(g, n)]
        <5>1. \A e : [n \in 0..0 |-> base] = [n \in 0..0 |-> IF n = 0 THEN base ELSE e]
          OBVIOUS
        <5> DEFINE r == [n \in 0..0 |-> Rec(g, n)]
        <5>2. DOMAIN r = 0..0 /\ DOMAIN g = 0..0 /\ \A n \in 0..0 : g[n] = base /\ r[n] = Rec(g, n)
          <6> HIDE DEF Rec
          <6> QED
            OBVIOUS
        <5>3. r = [n \in 0..0 |-> r[n]] /\ g = [n \in 0..0 |-> g[n]]
          OBVIOUS
        <5>4. \A n \in 0..0 : g[n] = r[n]
          BY <5>2, <3>1
        <5> HIDE DEF g, r
        <5>5. g = r
          BY <5>3, <5>4
        <5> QED
          BY <5>5 DEF r
      <4> QED
        BY <4>1
    <3> HIDE DEF g, Rec
    <3> QED
      BY <3>2, <2>1, <2>2
  <2>3. CASE m # 0
    <3>0. m \in Nat /\ m - 1 \in Nat
      BY <2>3
    <3>a. ~(m <= m - 1)
      BY <3>0
    <3>b. m - 1 \notin bad
      <4> HIDE DEF bad
      <4> QED
        BY <3>a, <2>1
    <3>1. m \in Nat /\ m - 1 \in Nat /\ m - 1 \notin bad
      BY <3>0, <3>b
    <3>2. PICK g : Sol(g, m - 1)
      BY <3>1
    <3> DEFINE h == [n \in 0..m |-> IF n = m THEN step[m][g[m - 1]] ELSE g[n]]
    <3>3. \A n \in 0..m - 1 : h[n] = g[n] /\ g[n] = Rec(g, n)
      <4>1. \A n \in 0..m - 1 : g[n] = Rec(g, n)
        <5> HIDE DEF Rec
        <5> QED
          BY <3>2
      <4>2. \A n \in 0..m - 1 : n \in 0..m /\ n # m
        BY <3>1
      <4> HIDE DEF Rec
      <4> QED
        BY <4>1, <4>2
    <3>4. \A n \in 0..m : h[n] = Rec(h, n)
      <4> TAKE n \in 0..m
      <4>1. CASE n = m
        <5>1. h[n] = step[m][g[m - 1]] /\ h[m - 1] = g[m - 1]
          BY <4>1, <3>1, <3>3
        <5> HIDE DEF h
        <5> QED
          BY <5>1, <4>1, <3>1
      <4>2. CASE n # m
        <5>1. n \in 0..m - 1
          BY <4>2, <3>1
        <5>2. h[n] = g[n] /\ g[n] = Rec(g, n)
          BY <5>1, <3>3
        <5>3. n # 0 => n - 1 \in 0..m - 1
          BY <5>1, <3>1
        <5>4. n # 0 => h[n - 1] = g[n - 1]
          BY <5>3, <3>3
        <5> HIDE DEF h
        <5> QED
          BY <5>2, <5>4
      <4> QED
        BY <4>1, <4>2
    <3>5. Sol(h, m)
      <4>1. h = [n \in 0..m |-> h[n]]
        OBVIOUS
      <4> HIDE DEF h, Rec
      <4> QED
        BY <4>1, <3>4
    <3> QED
      BY <3>5, <2>1
  <2> QED
    BY <2>2, <2>3
<1>2. ASSUME NEW m \in Nat, NEW k \in Nat, NEW g, NEW h, Sol(g, m), Sol(h, k)
      PROVE  \A n \in 0..m : n <= k => g[n] = h[n]
  <2> DEFINE bad == {n \in 0..m : n <= k /\ g[n] # h[n]}
  <2> SUFFICES ASSUME bad # {} PROVE FALSE
    OBVIOUS
  <2>1. PICK n \in bad : \A j \in bad : n <= j
    <3>1. bad \in SUBSET Nat
      OBVIOUS
    <3> HIDE DEF bad
    <3> QED
      BY <3>1, SmallestIs
  <2>2. n \in 0..m /\ n \in 0..k /\ n \in Nat
    BY <2>1
  <2>3. g[n] = Rec(g, n) /\ h[n] = Rec(h, n)
    <3> HIDE DEF Rec
    <3> QED
      BY <1>2, <2>2
  <2>a. n # 0 => n - 1 \in 0..m /\ n - 1 <= k /\ ~(n <= n - 1)
    BY <2>2
  <2>4. n # 0 => n - 1 \in 0..m /\ n - 1 <= k /\ n - 1 \notin bad
    <3> HIDE DEF bad
    <3> QED
      BY <2>a, <2>1
  <2>5. n # 0 => g[n - 1] = h[n - 1]
    BY <2>4
  <2> QED
    BY <2>1, <2>3, <2>5
<1> DEFINE G(m) == CHOOSE g : Sol(g, m)
           F == [n \in Nat |-> G(n)[n]]
<1>3. \A m \in Nat : Sol(G(m), m)
  <2> HIDE DEF Sol
  <2> QED
    BY <1>1
<1>4. \A n \in Nat : F[n] = Rec(F, n)
  <2> TAKE n \in Nat
  <2>1. F[n] = G(n)[n] /\ G(n)[n] = Rec(G(n), n)
    <3> HIDE DEF G, Rec
    <3> QED
      BY <1>3
  <2>2. n # 0 => n - 1 \in Nat /\ F[n - 1] = G(n - 1)[n - 1]
    <3> HIDE DEF G
    <3> QED
      OBVIOUS
  <2>3. n # 0 => G(n - 1)[n - 1] = G(n)[n - 1]
    <3> SUFFICES ASSUME n # 0 PROVE G(n - 1)[n - 1] = G(n)[n - 1]
      OBVIOUS
    <3>1. n - 1 \in Nat /\ n - 1 \in 0..n - 1 /\ n - 1 <= n
      OBVIOUS
    <3>2. Sol(G(n - 1), n - 1) /\ Sol(G(n), n)
      BY <3>1, <1>3
    <3> HIDE DEF G, Sol
    <3> QED
      BY <3>1, <3>2, <1>2
  <2> HIDE DEF F, G
  <2> QED
    BY <2>1, <2>2, <2>3
<1>5. F[0] = base /\ \A n \in Nat : n # 0 => F[n] = step[n][F[n - 1]]
  <2> HIDE DEF F
  <2> QED
    BY <1>4
<1>6. F = [n \in Nat |-> F[n]]
  OBVIOUS
<1> HIDE DEF F
<1> QED
  BY <1>5, <1>6 DEF IteratedBy

LEMMA OwnSteps ==
  ASSUME NEW d
  PROVE  /\ OwnUpTo(d)[0] = <<>>
         /\ \A n \in Nat : OwnUpTo(d)[n + 1] =
              IF d[n + 1] \in {"text", "heading"} THEN Append(OwnUpTo(d)[n], d[n + 1]) ELSE OwnUpTo(d)[n]
<1> DEFINE S == Seq({"text", "heading"})
           Next(n, q) == IF d[n] \in {"text", "heading"} THEN Append(q, d[n]) ELSE q
           step == [n \in Nat |-> [q \in S |-> Next(n, q)]]
           Rec(f, n) == CASE n = 0 -> <<>>
                          [] n > 0 /\ d[n] \in {"text", "heading"} -> Append(f[n - 1], d[n])
                          [] OTHER -> f[n - 1]
           Sol(f) == f = [n \in Nat |-> Rec(f, n)]
<1>1. \A f, n : n \in Nat => Rec(f, n) = IF n = 0 THEN <<>> ELSE Next(n, f[n - 1])
  OBVIOUS
<1>2. \A n \in Nat, q \in S : Next(n, q) \in S /\ step[n][q] = Next(n, q)
  OBVIOUS
<1>3. \E f : Sol(f)
  <2>1. PICK f : f = [n \in Nat |-> f[n]] /\ f[0] = <<>> /\ \A n \in Nat : n # 0 => f[n] = step[n][f[n - 1]]
    <3> HIDE DEF step
    <3>1. PICK f : IteratedBy(f, <<>>, step)
      BY Iterated
    <3> QED
      BY <3>1 DEF IteratedBy
  <2> DEFINE bad == {n \in Nat : f[n] \notin S}
  <2>2. bad = {}
    <3> SUFFICES ASSUME bad # {} PROVE FALSE
      OBVIOUS
    <3>1. bad \in SUBSET Nat
      OBVIOUS
    <3>2. PICK n \in bad : \A k \in bad : n <= k
      <4> HIDE DEF bad
      <4> QED
        BY <3>1, SmallestIs
    <3>3. n \in Nat /\ f[n] \notin S
      OBVIOUS
    <3>4. n # 0
      <4>1. <<>> \in S
        OBVIOUS
      <4> HIDE DEF S
      <4> QED
        BY <4>1, <3>3, <2>1
    <3>5. n - 1 \in Nat /\ ~(n <= n - 1)
      BY <3>3, <3>4
    <3>6. n - 1 \notin bad
      <4> HIDE DEF bad
      <4> QED
        BY <3>2, <3>5
    <3>7. f[n - 1] \in S
      BY <3>5, <3>6
    <3>8. f[n] = step[n][f[n - 1]]
      <4> HIDE DEF step
      <4> QED
        BY <2>1, <3>3, <3>4
    <3> HIDE DEF S, step, Next
    <3> QED
      BY <1>2, <3>3, <3>7, <3>8
  <2>3. \A n \in Nat : f[n] = Rec(f, n)
    <3> TAKE n \in Nat
    <3>1. CASE n = 0
      <4>1. Rec(f, n) = <<>>
        <5> HIDE DEF Rec, Next
        <5> QED
          BY <1>1, <3>1
      <4> HIDE DEF Rec
      <4> QED
        BY <4>1, <3>1, <2>1
    <3>2. CASE n # 0
      <4>1. n - 1 \in Nat
        BY <3>2
      <4>2. f[n - 1] \in S
        BY <4>1, <2>2
      <4>3. f[n] = step[n][f[n - 1]]
        <5> HIDE DEF step
        <5> QED
          BY <2>1, <3>2
      <4> HIDE DEF S, step, Next, Rec
      <4> QED
        BY <1>1, <1>2, <3>2, <4>2, <4>3
    <3> QED
      BY <3>1, <3>2
  <2>4. Sol(f)
    <3> HIDE DEF Rec
    <3> QED
      BY <2>1, <2>3
  <2> QED
    BY <2>4
<1> DEFINE own == OwnUpTo(d)
<1>4. Sol(own)
  <2>1. own = CHOOSE f : Sol(f)
    BY DEF OwnUpTo
  <2> HIDE DEF own, Sol
  <2> QED
    BY <1>3, <2>1
<1>5. \A n \in Nat : own[n] = IF n = 0 THEN <<>> ELSE Next(n, own[n - 1])
  <2>1. \A n \in Nat : own[n] = Rec(own, n)
    <3> HIDE DEF own, Rec
    <3> QED
      BY <1>4
  <2> HIDE DEF own, Rec, Next
  <2> QED
    BY <2>1, <1>1
<1> HIDE DEF own
<1>6. own[0] = <<>>
  BY <1>5
<1>7. ASSUME NEW n \in Nat PROVE own[n + 1] = Next(n + 1, own[n])
  <2>1. n + 1 \in Nat /\ n + 1 # 0 /\ (n + 1) - 1 = n
    OBVIOUS
  <2> HIDE DEF Next
  <2> QED
    BY <2>1, <1>5
<1> QED
  BY <1>6, <1>7 DEF own

LEMMA PiecesAre ==
  ASSUME NEW p \in Pieces
  PROVE  /\ p \in Seq(DocLines) /\ Len(p) \in 1..4 /\ DOMAIN p = 1..Len(p)
         /\ \/ p = <<"text">>
            \/ p = <<"heading", "text">>
            \/ p[1] \in Comments
<1>1. ASSUME NEW a \in Comments, NEW b \in {"new", "old", "rest", "edited"}, p = <<a, "title", b>>
      PROVE  p \in Seq(DocLines) /\ Len(p) = 3 /\ DOMAIN p = 1..3 /\ p[1] = a
  BY <1>1 DEF Comments, DocLines
<1>2. CASE p = <<"text">>
  BY <1>2 DEF DocLines
<1>3. CASE p = <<"heading", "text">>
  BY <1>3 DEF DocLines
<1>4. CASE p = <<"mark", "title", "old", "edited">>
  BY <1>4 DEF DocLines, Comments
<1>5. CASE p \in {NewBlock, OldBlock, Obsolete.session, Obsolete.findings, <<"session", "title", "edited">>, <<"findings", "title", "edited">>}
  BY <1>5, <1>1 DEF NewBlock, OldBlock, Obsolete, Comments
<1> QED
  BY <1>2, <1>3, <1>4, <1>5 DEF Pieces

LEMMA JoinedDocs ==
  ASSUME NEW d \in Seq(DocLines), NEW p \in Pieces
  PROVE  Joined(d, p) \in Seq(DocLines)
<1>1. p \in Seq(DocLines) /\ <<"loose">> \in Seq(DocLines) /\ <<"behind">> \in Seq(DocLines)
  BY PiecesAre DEF DocLines
<1>2. d \o p \in Seq(DocLines) /\ d \o <<"loose">> \in Seq(DocLines) /\ d \o <<"behind">> \in Seq(DocLines)
  BY <1>1
<1>3. Joined(d, p) \in {d, d \o <<"loose">>, d \o <<"behind">>, d \o p}
  BY Zenon DEF Joined
<1> QED
  BY <1>2, <1>3

LEMMA DocsSteps ==
  /\ DocsOf[0] = {<<>>}
  /\ \A n \in Nat : DocsOf[n + 1] = DocsOf[n] \cup {Joined(d, p) : d \in DocsOf[n], p \in Pieces}
<1> DEFINE S == SUBSET Seq(DocLines)
           Next(q) == q \cup {Joined(d, p) : d \in q, p \in Pieces}
           step == [n \in Nat |-> [q \in S |-> Next(q)]]
           Rec(f, n) == IF n = 0 THEN {<<>>} ELSE Next(f[n - 1])
           Sol(f) == f = [n \in Nat |-> Rec(f, n)]
<1>1. \A q \in S : Next(q) \in S
  BY JoinedDocs
<1>2. \A n \in Nat, q \in S : step[n][q] = Next(q)
  <2> HIDE DEF Next
  <2> QED
    OBVIOUS
<1> HIDE DEF Next
<1>3. \E f : Sol(f)
  <2>1. PICK f : IteratedBy(f, {<<>>}, step)
    <3> HIDE DEF step
    <3> QED
      BY Iterated
  <2>2. f = [n \in Nat |-> f[n]] /\ f[0] = {<<>>} /\ \A n \in Nat : n # 0 => f[n] = step[n][f[n - 1]]
    <3> HIDE DEF step
    <3> QED
      BY <2>1 DEF IteratedBy
  <2> DEFINE bad == {n \in Nat : f[n] \notin S}
  <2>3. bad = {}
    <3> SUFFICES ASSUME bad # {} PROVE FALSE
      OBVIOUS
    <3>1. bad \in SUBSET Nat
      OBVIOUS
    <3>2. PICK n \in bad : \A k \in bad : n <= k
      <4> HIDE DEF bad
      <4> QED
        BY <3>1, SmallestIs
    <3>3. n \in Nat /\ f[n] \notin S
      OBVIOUS
    <3>4. n # 0
      <4>1. {<<>>} \in S
        OBVIOUS
      <4> HIDE DEF S
      <4> QED
        BY <4>1, <3>3, <2>2
    <3>5. n - 1 \in Nat /\ ~(n <= n - 1)
      BY <3>3, <3>4
    <3>6. n - 1 \notin bad
      <4> HIDE DEF bad
      <4> QED
        BY <3>2, <3>5
    <3>7. f[n - 1] \in S
      BY <3>5, <3>6
    <3>8. f[n] = step[n][f[n - 1]]
      <4> HIDE DEF step
      <4> QED
        BY <2>2, <3>3, <3>4
    <3> HIDE DEF S, step
    <3> QED
      BY <1>1, <1>2, <3>3, <3>7, <3>8
  <2>4. \A n \in Nat : f[n] = Rec(f, n)
    <3> TAKE n \in Nat
    <3>1. CASE n = 0
      BY <3>1, <2>2
    <3>2. CASE n # 0
      <4>1. n - 1 \in Nat
        BY <3>2
      <4>2. f[n - 1] \in S
        BY <4>1, <2>3
      <4>3. f[n] = step[n][f[n - 1]]
        <5> HIDE DEF step
        <5> QED
          BY <2>2, <3>2
      <4> HIDE DEF S, step
      <4> QED
        BY <1>2, <3>2, <4>2, <4>3
    <3> QED
      BY <3>1, <3>2
  <2>5. Sol(f)
    <3> HIDE DEF Rec
    <3> QED
      BY <2>2, <2>4
  <2> QED
    BY <2>5
<1> DEFINE docs == DocsOf
<1>4. Sol(docs)
  <2>1. docs = CHOOSE f : Sol(f)
    BY DEF DocsOf, Next
  <2> HIDE DEF docs, Sol
  <2> QED
    BY <1>3, <2>1
<1>5. \A n \in Nat : docs[n] = IF n = 0 THEN {<<>>} ELSE Next(docs[n - 1])
  <2>1. \A n \in Nat : docs[n] = Rec(docs, n)
    <3> HIDE DEF docs, Rec
    <3> QED
      BY <1>4
  <2> QED
    BY <2>1
<1> HIDE DEF docs
<1>6. docs[0] = {<<>>}
  BY <1>5
<1>7. ASSUME NEW n \in Nat PROVE docs[n + 1] = Next(docs[n])
  BY <1>5
<1>8. \A q : Next(q) = q \cup {Joined(d, p) : d \in q, p \in Pieces}
  BY DEF Next
<1>9. \A n \in Nat : docs[n + 1] = docs[n] \cup {Joined(d, p) : d \in docs[n], p \in Pieces}
  BY <1>7, <1>8
<1>10. docs = DocsOf
  BY DEF docs
<1> QED
  BY <1>6, <1>9, <1>10

-----------------------------------------------------------------------------
\* Documents that agree up to a place own the same lines up to it.
LEMMA OwnPrefix ==
  ASSUME NEW c, NEW d, NEW m \in Nat, \A p \in 1..m : c[p] = d[p]
  PROVE  \A n \in 0..m : OwnUpTo(c)[n] = OwnUpTo(d)[n]
<1> DEFINE bad == {n \in 0..m : OwnUpTo(c)[n] # OwnUpTo(d)[n]}
<1> SUFFICES ASSUME bad # {} PROVE FALSE
  OBVIOUS
<1>1. bad \in SUBSET Nat
  OBVIOUS
<1>2. PICK n \in bad : \A k \in bad : n <= k
  <2> HIDE DEF bad
  <2> QED
    BY <1>1, SmallestIs
<1>3. n \in 0..m /\ OwnUpTo(c)[n] # OwnUpTo(d)[n]
  OBVIOUS
<1>4. n # 0
  BY <1>3, OwnSteps
<1>5. n - 1 \in 0..m /\ n - 1 \in Nat /\ (n - 1) + 1 = n /\ n \in 1..m /\ ~(n <= n - 1)
  BY <1>3, <1>4
<1>6. n - 1 \notin bad
  <2> HIDE DEF bad
  <2> QED
    BY <1>2, <1>5
<1>7. OwnUpTo(c)[n - 1] = OwnUpTo(d)[n - 1]
  BY <1>5, <1>6
<1>8. c[n] = d[n]
  BY <1>5
<1>9. /\ OwnUpTo(c)[(n - 1) + 1] = IF c[(n - 1) + 1] \in {"text", "heading"} THEN Append(OwnUpTo(c)[n - 1], c[(n - 1) + 1]) ELSE OwnUpTo(c)[n - 1]
      /\ OwnUpTo(d)[(n - 1) + 1] = IF d[(n - 1) + 1] \in {"text", "heading"} THEN Append(OwnUpTo(d)[n - 1], d[(n - 1) + 1]) ELSE OwnUpTo(d)[n - 1]
  BY <1>5, OwnSteps
<1>10. OwnUpTo(c)[n] = OwnUpTo(d)[n]
  BY <1>5, <1>7, <1>8, <1>9
<1> QED
  BY <1>3, <1>10

\* Where nothing is owned, nothing is added.
LEMMA OwnNothing ==
  ASSUME NEW d, NEW a \in Nat, NEW b \in Nat, a <= b, \A p \in a + 1..b : d[p] \notin {"text", "heading"}
  PROVE  OwnUpTo(d)[b] = OwnUpTo(d)[a]
<1> DEFINE bad == {n \in a..b : OwnUpTo(d)[n] # OwnUpTo(d)[a]}
<1> SUFFICES ASSUME bad # {} PROVE FALSE
  OBVIOUS
<1>1. bad \in SUBSET Nat
  OBVIOUS
<1>2. PICK n \in bad : \A k \in bad : n <= k
  <2> HIDE DEF bad
  <2> QED
    BY <1>1, SmallestIs
<1>3. n \in a..b /\ OwnUpTo(d)[n] # OwnUpTo(d)[a]
  OBVIOUS
<1>4. n # a
  BY <1>3
<1>5. n - 1 \in a..b /\ n - 1 \in Nat /\ (n - 1) + 1 = n /\ n \in a + 1..b /\ ~(n <= n - 1)
  BY <1>3, <1>4
<1>6. n - 1 \notin bad
  <2> HIDE DEF bad
  <2> QED
    BY <1>2, <1>5
<1>7. OwnUpTo(d)[n - 1] = OwnUpTo(d)[a]
  BY <1>5, <1>6
<1>8. d[n] \notin {"text", "heading"}
  BY <1>5
<1>9. OwnUpTo(d)[(n - 1) + 1] = IF d[(n - 1) + 1] \in {"text", "heading"} THEN Append(OwnUpTo(d)[n - 1], d[(n - 1) + 1]) ELSE OwnUpTo(d)[n - 1]
  BY <1>5, OwnSteps
<1>10. OwnUpTo(d)[n] = OwnUpTo(d)[a]
  BY <1>5, <1>7, <1>8, <1>9
<1> QED
  BY <1>3, <1>10

\* From equal lines on, lines moved by k own the same.
LEMMA OwnMoved ==
  ASSUME NEW c, NEW d, NEW a \in Nat, NEW b \in Nat, NEW k \in Nat, a <= b, OwnUpTo(c)[a] = OwnUpTo(d)[a + k],
         \A p \in a + 1..b : c[p] = d[p + k]
  PROVE  OwnUpTo(c)[b] = OwnUpTo(d)[b + k]
<1> DEFINE bad == {n \in a..b : OwnUpTo(c)[n] # OwnUpTo(d)[n + k]}
<1> SUFFICES ASSUME bad # {} PROVE FALSE
  OBVIOUS
<1>1. bad \in SUBSET Nat
  OBVIOUS
<1>2. PICK n \in bad : \A j \in bad : n <= j
  <2> HIDE DEF bad
  <2> QED
    BY <1>1, SmallestIs
<1>3. n \in a..b /\ OwnUpTo(c)[n] # OwnUpTo(d)[n + k]
  OBVIOUS
<1>4. n # a
  BY <1>3
<1>5. /\ n - 1 \in a..b /\ n - 1 \in Nat /\ (n - 1) + 1 = n /\ n \in a + 1..b /\ ~(n <= n - 1)
      /\ (n - 1) + k \in Nat /\ ((n - 1) + k) + 1 = n + k
  BY <1>3, <1>4
<1>6. n - 1 \notin bad
  <2> HIDE DEF bad
  <2> QED
    BY <1>2, <1>5
<1>7. OwnUpTo(c)[n - 1] = OwnUpTo(d)[(n - 1) + k]
  BY <1>5, <1>6
<1>8. c[n] = d[n + k]
  BY <1>5
<1> DEFINE q == n - 1  r == (n - 1) + k
<1>9. /\ OwnUpTo(c)[q + 1] = IF c[q + 1] \in {"text", "heading"} THEN Append(OwnUpTo(c)[q], c[q + 1]) ELSE OwnUpTo(c)[q]
      /\ OwnUpTo(d)[r + 1] = IF d[r + 1] \in {"text", "heading"} THEN Append(OwnUpTo(d)[r], d[r + 1]) ELSE OwnUpTo(d)[r]
  <2>1. q \in Nat /\ r \in Nat
    BY <1>5
  <2> HIDE DEF q, r
  <2> QED
    BY <2>1, OwnSteps
<1>10. q + 1 = n /\ r + 1 = n + k /\ OwnUpTo(c)[q] = OwnUpTo(d)[r]
  BY <1>5, <1>7
<1> HIDE DEF q, r
<1>11. OwnUpTo(c)[n] = OwnUpTo(d)[n + k]
  BY <1>8, <1>9, <1>10
<1> QED
  BY <1>3, <1>11

\* Loose text that no refresh can reach: nothing ends its block but the mark.
Tailed(d) ==
  \E i, k \in DOMAIN d :
    /\ i + 2 < k /\ d[i] \in Comments /\ d[k] = "loose" /\ \A p \in i + 2..k : d[p] \notin Comments \cup Headings
    /\ d[i] # "mark" =>
         /\ d[i + 2] = "edited"
         /\ \A j \in k + 1..Len(d) : d[j] \in ObsoleteMarks \cup Headings => \E m \in k + 1..j - 1 : d[m] = "mark"
\* What a refresh leaves as it is.
Keeps(c, d) ==
  /\ OwnText(c) = OwnText(d)
  /\ Includes(c) <=> Includes(d)
  /\ Tailed(d) => Tailed(c)
  /\ Has(d, "mark") => Has(c, "mark")
  /\ Has(c, "loose") => Has(d, "loose")

LEMMA KeepsOn == ASSUME NEW a, NEW b, NEW c, Keeps(a, b), Keeps(b, c) PROVE Keeps(a, c)
  BY DEF Keeps

\* An import counts by what stands before it.
LEMMA SamePrefix ==
  ASSUME NEW c, NEW d, NEW i \in Nat, \A k \in 1..i - 1 : c[k] = d[k]
  PROVE  {k \in 1..i - 1 : c[k] = "fence"} = {k \in 1..i - 1 : d[k] = "fence"}
  OBVIOUS

-----------------------------------------------------------------------------
LEMMA TwoTogether ==
  ASSUME NEW a \in Seq(DocLines), NEW b \in Seq(DocLines)
  PROVE  /\ a \o b \in Seq(DocLines) /\ Len(a \o b) = Len(a) + Len(b) /\ DOMAIN (a \o b) = 1..Len(a) + Len(b)
         /\ Len(a) \in Nat /\ Len(b) \in Nat /\ DOMAIN a = 1..Len(a) /\ DOMAIN b = 1..Len(b)
         /\ \A p \in 1..Len(a) : (a \o b)[p] = a[p]
         /\ \A q \in 1..Len(b) : (a \o b)[Len(a) + q] = b[q]
<1>1. /\ a \o b \in Seq(DocLines) /\ Len(a \o b) = Len(a) + Len(b)
      /\ Len(a) \in Nat /\ Len(b) \in Nat /\ DOMAIN a = 1..Len(a) /\ DOMAIN b = 1..Len(b)
  OBVIOUS
<1>2. \A p \in 1..Len(a) : (a \o b)[p] = a[p]
  OBVIOUS
<1>3. \A p \in Len(a) + 1..Len(a) + Len(b) : (a \o b)[p] = b[p - Len(a)]
  OBVIOUS
<1> DEFINE c == a \o b
<1> HIDE DEF c
<1>4. \A q \in 1..Len(b) : c[Len(a) + q] = b[q]
  BY <1>1, <1>3 DEF c
<1>5. DOMAIN c = 1..Len(c)
  BY <1>1 DEF c
<1> QED
  BY <1>1, <1>2, <1>4, <1>5 DEF c

(* A block is appended.                                                     *)
AppendIs(c, d) ==
  /\ c \in Seq(DocLines) /\ Len(c) = Len(d) + 3 /\ DOMAIN c = 1..Len(c) /\ Len(d) \in Nat /\ DOMAIN d = 1..Len(d)
  /\ \A p \in 1..Len(d) : c[p] = d[p]
  /\ c[Len(d) + 1] = "mark" /\ c[Len(d) + 2] = "title" /\ c[Len(d) + 3] = "new"

LEMMA AppendLines == ASSUME NEW d \in Seq(DocLines) PROVE AppendIs(d \o NewBlock, d)
<1>1. NewBlock \in Seq(DocLines) /\ Len(NewBlock) = 3 /\ NewBlock[1] = "mark" /\ NewBlock[2] = "title" /\ NewBlock[3] = "new"
  BY DEF DocLines, NewBlock
<1> DEFINE b == NewBlock
           c == d \o b
<1>2. b \in Seq(DocLines) /\ Len(b) = 3 /\ b[1] = "mark" /\ b[2] = "title" /\ b[3] = "new"
  BY <1>1
<1> HIDE DEF b
<1>3. /\ c \in Seq(DocLines) /\ Len(c) = Len(d) + Len(b) /\ DOMAIN c = 1..Len(d) + Len(b) /\ Len(d) \in Nat /\ DOMAIN d = 1..Len(d)
      /\ \A p \in 1..Len(d) : c[p] = d[p]
      /\ \A q \in 1..Len(b) : c[Len(d) + q] = b[q]
  BY <1>2, TwoTogether
<1> HIDE DEF c
<1>4. c[Len(d) + 1] = "mark" /\ c[Len(d) + 2] = "title" /\ c[Len(d) + 3] = "new"
  BY <1>2, <1>3
<1>5. AppendIs(c, d)
  BY <1>2, <1>3, <1>4 DEF AppendIs
<1> QED
  BY <1>5 DEF c, b

LEMMA AppendSafe ==
  ASSUME NEW c, NEW d, AppendIs(c, d), DocSafe(d), ~Has(d, "mark"), \A p \in DOMAIN d : d[p] # "old"
  PROVE  DocSafe(c)
<1> DEFINE n == Len(d)
<1>1. /\ c \in Seq(DocLines) /\ Len(c) = n + 3 /\ DOMAIN c = 1..n + 3 /\ n \in Nat /\ DOMAIN d = 1..n
      /\ \A p \in 1..n : c[p] = d[p]
      /\ c[n + 1] = "mark" /\ c[n + 2] = "title" /\ c[n + 3] = "new"
  BY DEF AppendIs
<1>2. \A p \in DOMAIN d : d[p] # "mark"
  BY DEF Has
<1>0. /\ OnceEach(d) /\ Begun(d) /\ OldInMark(d) /\ FencesFirst(d) /\ TextIsBounded(d)
  BY DEF DocSafe
<1> HIDE DEF n
<1>3. \A p \in DOMAIN c : p \in DOMAIN d \/ p = n + 1 \/ p = n + 2 \/ p = n + 3
  BY <1>1
<1>4. \A p \in DOMAIN c : c[p] \in Comments => p \in DOMAIN d \/ p = n + 1
  BY <1>1, <1>3 DEF Comments
<1>5. OnceEach(c)
  BY <1>0, <1>1, <1>2, <1>4 DEF OnceEach
<1>6. Begun(c)
  BY <1>1, <1>0, <1>4 DEF Begun
<1>7. OldInMark(c)
  BY <1>1, <1>3 DEF OldInMark
<1>8. FencesFirst(c)
  BY <1>1, <1>3, <1>0, <1>4 DEF FencesFirst
<1>9. TextIsBounded(c)
  BY <1>1, <1>3, <1>0 DEF TextIsBounded, ObsoleteMarks, Comments, Begun
<1> QED
  BY <1>1, <1>5, <1>6, <1>7, <1>8, <1>9 DEF DocSafe

LEMMA AppendKeeps ==
  ASSUME NEW c, NEW d, AppendIs(c, d), DocSafe(d)
  PROVE  Keeps(c, d) /\ Has(c, "mark")
<1> DEFINE n == Len(d)
<1>1. /\ c \in Seq(DocLines) /\ Len(c) = n + 3 /\ DOMAIN c = 1..n + 3 /\ n \in Nat /\ DOMAIN d = 1..n
      /\ \A p \in 1..n : c[p] = d[p]
      /\ c[n + 1] = "mark" /\ c[n + 2] = "title" /\ c[n + 3] = "new"
  BY DEF AppendIs
<1>2. \A p \in DOMAIN c : p \in DOMAIN d \/ p = n + 1 \/ p = n + 2 \/ p = n + 3
  BY <1>1
<1>3. OwnText(c) = OwnText(d)
  <2>1. OwnUpTo(c)[n] = OwnUpTo(d)[n]
    <3>1. \A q \in 0..n : OwnUpTo(c)[q] = OwnUpTo(d)[q]
      BY <1>1, OwnPrefix
    <3> QED
      BY <3>1, <1>1
  <2>2. OwnUpTo(c)[n + 3] = OwnUpTo(c)[n]
    <3>1. \A p \in n + 1..n + 3 : c[p] \notin {"text", "heading"}
      BY <1>1
    <3>2. n + 3 \in Nat /\ n <= n + 3
      BY <1>1
    <3> QED
      BY <3>1, <3>2, <1>1, OwnNothing
  <2> QED
    BY <2>1, <2>2, <1>1 DEF OwnText
<1>4. Includes(c) <=> Includes(d)
  <2>1. ASSUME NEW i \in DOMAIN d PROVE {k \in 1..i - 1 : c[k] = "fence"} = {k \in 1..i - 1 : d[k] = "fence"} /\ c[i] = d[i]
    BY <1>1
  <2>2. \A i \in DOMAIN c : c[i] = "include" => i \in DOMAIN d
    BY <1>1, <1>2
  <2>3. DOMAIN d \subseteq DOMAIN c
    BY <1>1
  <2> QED
    BY <2>1, <2>2, <2>3 DEF Includes
<1>5. ASSUME Tailed(d) PROVE Tailed(c)
  <2>1. PICK i \in DOMAIN d, k \in DOMAIN d :
          /\ i + 2 < k /\ d[i] \in Comments /\ d[k] = "loose" /\ \A p \in i + 2..k : d[p] \notin Comments \cup Headings
          /\ d[i] # "mark" =>
               /\ d[i + 2] = "edited"
               /\ \A j \in k + 1..Len(d) : d[j] \in ObsoleteMarks \cup Headings => \E m \in k + 1..j - 1 : d[m] = "mark"
    BY <1>5 DEF Tailed
  <2>2. i \in DOMAIN c /\ k \in DOMAIN c /\ i + 2 \in DOMAIN d /\ c[i] = d[i] /\ c[k] = d[k] /\ c[i + 2] = d[i + 2]
    BY <2>1, <1>1
  <2>3. \A p \in i + 2..k : c[p] = d[p]
    BY <1>1
  <2>4. ASSUME c[i] # "mark", NEW j \in k + 1..Len(c), c[j] \in ObsoleteMarks \cup Headings
        PROVE  \E m \in k + 1..j - 1 : c[m] = "mark"
    BY <2>1, <2>2, <2>4, <1>1 DEF ObsoleteMarks, Headings
  <2> QED
    BY <2>1, <2>2, <2>3, <2>4 DEF Tailed
<1>6. Has(c, "mark")
  BY <1>1 DEF Has
<1>7. Has(c, "loose") => Has(d, "loose")
  BY <1>1, <1>2 DEF Has
<1> QED
  BY <1>3, <1>4, <1>5, <1>6, <1>7 DEF Keeps

-----------------------------------------------------------------------------
(* The outdated block is replaced: one line becomes another.                *)
Renewed(c, d) ==
  /\ c \in Seq(DocLines) /\ Len(c) = Len(d) /\ DOMAIN c = 1..Len(d) /\ DOMAIN d = 1..Len(d) /\ Len(d) \in Nat
  /\ \A p \in DOMAIN d : c[p] = IF d[p] = "old" THEN "new" ELSE d[p]

LEMMA ReplaceLines == ASSUME NEW d, DocSafe(d) PROVE Renewed(ReplaceOutdated(d), d)
<1> DEFINE s == MarkerLine(d, "mark")
           e == MarkedBlockEnd(d, s, OldBlock, "none")
<1>1. d \in Seq(DocLines) /\ DOMAIN d = 1..Len(d) /\ Len(d) \in Nat
  BY DEF DocSafe
<1>2. \/ s = 0 /\ ~Has(d, "mark")
      \/ s \in DOMAIN d /\ d[s] = "mark" /\ \A i \in DOMAIN d : d[i] = "mark" => i = s
  BY MarkerPlace DEF Comments
<1>3. \A p \in DOMAIN d : d[p] = "old" => s \in DOMAIN d /\ d[s] = "mark" /\ p = s + 2
  BY <1>1, <1>2 DEF DocSafe, OldInMark, Has
<1>4. ReplaceOutdated(d) = IF s = 0 \/ e = 0 THEN d
                           ELSE IF ~Has(SubSeq(d, s, e - 1), "old") THEN d
                           ELSE SubSeq(d, 1, s - 1) \o NewBlock \o SubSeq(d, e, Len(d))
  BY DEF ReplaceOutdated
<1>5. CASE s = 0
  BY <1>1, <1>3, <1>5, <1>4 DEF Renewed
<1>6. CASE s # 0
  <2>1. s \in DOMAIN d /\ s \in Nat /\ s + 2 \in DOMAIN d /\ d[s + 1] = "title" /\ d[s + 2] \in {"new", "old"}
    BY <1>1, <1>2, <1>6 DEF DocSafe, Begun, Comments
  <2>2. SubSeq(d, s, s + Len(OldBlock) - 1) = OldBlock <=> d[s + 2] = "old"
    <3>1. OldBlock = <<"mark", "title", "old">>
      BY DEF OldBlock
    <3>2. SubSeq(d, s, s + Len(<<"mark", "title", "old">>) - 1) = <<"mark", "title", "old">>
            <=> d[s] = "mark" /\ d[s + 1] = "title" /\ d[s + 2] = "old"
      <4> HIDE DEF s
      <4>1. d \in Seq(DocLines) /\ s \in DOMAIN d /\ s + 2 \in DOMAIN d
        BY <2>1, <1>1
      <4>2. \A x, y, z : SubSeq(d, s, s + Len(<<x, y, z>>) - 1) = <<x, y, z>>
                           <=> d[s] = x /\ d[s + 1] = y /\ d[s + 2] = z
        BY <4>1, ThreeLines
      <4> QED
        BY <4>2
    <3>3. d[s] = "mark"
      BY <1>2, <1>6
    <3> HIDE DEF s
    <3> QED
      BY <3>1, <3>2, <3>3, <2>1
  <2>3. Len(OldBlock) = 3
    BY DEF OldBlock
  <2>4. CASE d[s + 2] = "new"
    <3>1. \A p \in DOMAIN d : d[p] # "old"
      BY <1>3, <2>4
    <3>2. e \in Nat /\ (e # 0 => e \in s + 1..Len(d))
      <4> DEFINE stops == {j \in s + 1..Len(d) : \/ d[j] \in Comments
                                                 \/ d[j] \in Headings /\ \E k \in s + 1..j - 1 : d[k] \in Headings}
      <4>1. CASE stops = {}
        BY <2>2, <2>4, <4>1 DEF MarkedBlockEnd
      <4>2. CASE stops # {}
        <5>1. e = IF d[First(stops)] = "none" THEN 0 ELSE First(stops)
          BY <2>2, <2>4, <4>2 DEF MarkedBlockEnd
        <5>2. stops \in SUBSET Nat
          BY <1>1, <2>1
        <5>3. First(stops) \in stops
          BY <4>2, <5>2, FirstIsIn
        <5>4. First(stops) \in s + 1..Len(d)
          BY <5>3
        <5> HIDE DEF stops, e
        <5> QED
          BY <5>1, <5>4, <1>1, <2>1
      <4> QED
        BY <4>1, <4>2
    <3>3. e # 0 => ~Has(SubSeq(d, s, e - 1), "old")
      <4> SUFFICES ASSUME e # 0 PROVE ~Has(SubSeq(d, s, e - 1), "old")
        OBVIOUS
      <4> DEFINE u == e - 1  t == SubSeq(d, s, u)
      <4> HIDE DEF s, e
      <4>1. u \in Nat /\ u <= Len(d) /\ s <= u
        BY <3>2, <1>1, <2>1
      <4>2. t \in Seq(DocLines) /\ Len(t) = u - s + 1
        BY <4>1, <1>1, <2>1
      <4>3. \A p \in 1..u - s + 1 : t[p] = d[s + p - 1] /\ s + p - 1 \in DOMAIN d
        <5> HIDE DEF u
        <5> QED
          BY <4>1, <1>1, <2>1
      <4> HIDE DEF t, u
      <4>4. \A p \in DOMAIN t : t[p] # "old"
        BY <3>1, <4>1, <4>2, <4>3
      <4>5. ~Has(t, "old")
        BY <4>4 DEF Has
      <4> QED
        BY <4>5 DEF t, u
    <3>4. ReplaceOutdated(d) = d
      <4> HIDE DEF s, e
      <4> QED
        BY <1>4, <3>3
    <3> QED
      BY <3>1, <3>4, <1>1 DEF Renewed
  <2>5. CASE d[s + 2] = "old"
    <3>1. e = s + 3
      BY <2>2, <2>3, <2>5 DEF MarkedBlockEnd
    <3> DEFINE f == s + 3
               u == s + 2
               t == SubSeq(d, s, u)
    <3> HIDE DEF s, e
    <3>2. e - 1 = u /\ e # 0 /\ u \in Nat /\ u <= Len(d)
      BY <3>1, <2>1, <1>1
    <3>3. Has(t, "old")
      <4> HIDE DEF u
      <4>1. t \in Seq(DocLines) /\ Len(t) = u - s + 1 /\ \A p \in 1..u - s + 1 : t[p] = d[s + p - 1]
        BY <3>2, <2>1, <1>1 DEF u
      <4> HIDE DEF t
      <4>2. u - s + 1 = 3 /\ s + 3 - 1 = s + 2
        BY <2>1 DEF u
      <4>3. t[3] = "old" /\ 3 \in DOMAIN t
        BY <4>1, <4>2, <2>5
      <4> QED
        BY <4>3 DEF Has
    <3>4. ReplaceOutdated(d) = SubSeq(d, 1, s - 1) \o NewBlock \o SubSeq(d, f, Len(d))
      <4>1. SubSeq(d, s, e - 1) = t
        BY <3>2
      <4> HIDE DEF t
      <4> QED
        BY <1>4, <1>6, <3>1, <3>2, <3>3, <4>1
    <3> DEFINE a == SubSeq(d, 1, s - 1)  b == NewBlock  z == SubSeq(d, f, Len(d))
               ab == a \o b
               c == ab \o z
    <3>5. f \in Nat /\ f <= Len(d) + 1 /\ s \in 1..Len(d) /\ f = s + 3
      BY <2>1, <1>1
    <3>a. f \in Int /\ 1 <= f /\ f <= Len(d) + 1 /\ s \in Nat /\ 1 <= s /\ d[s] = "mark"
      BY <3>5, <1>1, <1>2, <1>6
    <3> HIDE DEF f, t, u
    <3>6. a \in Seq(DocLines) /\ Len(a) = s - 1 /\ \A p \in 1..s - 1 : a[p] = d[p]
      BY <3>5, <1>1
    <3>7. z \in Seq(DocLines) /\ Len(z) = Len(d) + 1 - f /\ \A p \in 1..Len(d) + 1 - f : z[p] = d[f + p - 1]
      BY <3>a, <1>1
    <3>8. b \in Seq(DocLines) /\ Len(b) = 3 /\ b[1] = "mark" /\ b[2] = "title" /\ b[3] = "new"
      BY DEF DocLines, NewBlock
    <3> HIDE DEF a, b, z
    <3>9. /\ ab \in Seq(DocLines) /\ Len(ab) = Len(a) + Len(b)
          /\ \A p \in 1..Len(a) : ab[p] = a[p]
          /\ \A q \in 1..Len(b) : ab[Len(a) + q] = b[q]
      BY <3>6, <3>8, TwoTogether
    <3> HIDE DEF ab
    <3>10. /\ c \in Seq(DocLines) /\ Len(c) = Len(ab) + Len(z) /\ DOMAIN c = 1..Len(ab) + Len(z)
           /\ \A p \in 1..Len(ab) : c[p] = ab[p]
           /\ \A q \in 1..Len(z) : c[Len(ab) + q] = z[q]
      BY <3>7, <3>9, TwoTogether
    <3> HIDE DEF c
    <3>11. Len(ab) = s + 2 /\ Len(c) = Len(d) /\ DOMAIN c = 1..Len(d)
      BY <3>5, <3>6, <3>7, <3>8, <3>9, <3>10, <1>1
    <3>12. ASSUME NEW p \in DOMAIN d PROVE c[p] = IF d[p] = "old" THEN "new" ELSE d[p]
      <4>1. CASE p < s
        <5>0. p \in 1..s - 1 /\ p \in 1..Len(a) /\ p \in 1..Len(ab)
          BY <4>1, <3>a, <3>6, <3>11, <1>1
        <5>1. c[p] = d[p]
          BY <5>0, <3>6, <3>9, <3>10
        <5>2. d[p] # "old"
          BY <4>1, <1>3, <3>5, <1>1
        <5> QED
          BY <5>1, <5>2
      <4>2. CASE p \in {s, s + 1, s + 2}
        <5>1. ASSUME NEW q \in {1, 2, 3} PROVE c[s - 1 + q] = b[q]
          BY <3>5, <3>6, <3>8, <3>11, <1>1, <3>9, <3>10
        <5>2. c[s] = "mark" /\ c[s + 1] = "title" /\ c[s + 2] = "new"
          BY <3>5, <1>1, <5>1, <3>8
        <5> QED
          BY <4>2, <5>2, <2>1, <2>5, <3>a
      <4>3. CASE p >= f
        <5> DEFINE q == p - (s + 2)
        <5>0. p \in Nat /\ p <= Len(d) /\ p >= f /\ f = s + 3 /\ Len(z) = Len(d) + 1 - f /\ Len(ab) = s + 2
          BY <4>3, <3>5, <3>7, <3>11, <1>1
        <5>1. q \in 1..Len(z) /\ Len(ab) + q = p /\ f + q - 1 = p
          <6> DEFINE n == Len(d)  x == Len(ab)  y == Len(z)
          <6>1. n \in Nat /\ p \in Nat /\ p <= n /\ p >= f /\ f = s + 3 /\ y = n + 1 - f /\ x = s + 2 /\ s \in Nat
            BY <5>0, <3>a, <1>1
          <6> HIDE DEF n, x, y
          <6>2. p - (s + 2) \in 1..y /\ x + (p - (s + 2)) = p /\ f + (p - (s + 2)) - 1 = p
            BY <6>1
          <6> QED
            BY <6>2 DEF x, y
        <5>2. c[p] = z[q] /\ z[q] = d[p]
          <6> HIDE DEF q
          <6> QED
            BY <5>1, <3>7, <3>10
        <5>3. d[p] # "old"
          BY <4>3, <1>3, <3>5, <1>1
        <5> QED
          BY <5>2, <5>3
      <4> QED
        BY <4>1, <4>2, <4>3, <3>5, <1>1
    <3>13. Renewed(c, d)
      BY <3>10, <3>11, <3>12, <1>1 DEF Renewed
    <3> QED
      BY <3>13, <3>4 DEF c, ab, a, b, z
  <2> QED
    BY <2>1, <2>4, <2>5
<1> QED
  BY <1>5, <1>6

NoneOld(d) == \A p \in DOMAIN d : d[p] # "old"

LEMMA RenewedSafe ==
  ASSUME NEW c, NEW d, Renewed(c, d), DocSafe(d)
  PROVE  DocSafe(c) /\ NoneOld(c) /\ Keeps(c, d)
<1>1. /\ c \in Seq(DocLines) /\ Len(c) = Len(d) /\ DOMAIN c = DOMAIN d /\ DOMAIN d = 1..Len(d) /\ Len(d) \in Nat
      /\ \A p \in DOMAIN d : c[p] = IF d[p] = "old" THEN "new" ELSE d[p]
  BY DEF Renewed
<1>2. \A p \in DOMAIN d : /\ c[p] # "old"
                          /\ c[p] = d[p] \/ (c[p] = "new" /\ d[p] = "old")
  BY <1>1
<1>0. /\ OnceEach(d) /\ Begun(d) /\ OldInMark(d) /\ FencesFirst(d) /\ TextIsBounded(d)
  BY DEF DocSafe
<1>3. \A p \in DOMAIN d : d[p] \in Comments \/ c[p] \in Comments => c[p] = d[p]
  BY <1>2 DEF Comments
<1>4. OnceEach(c)
  BY <1>0, <1>1, <1>3 DEF OnceEach
<1>5. Begun(c)
  BY <1>1, <1>0, <1>3 DEF Begun
<1>6. OldInMark(c)
  BY <1>1, <1>2 DEF OldInMark
<1>7. FencesFirst(c)
  BY <1>2, <1>0, <1>1, <1>3 DEF FencesFirst
<1>8. TextIsBounded(c)
  BY <1>1, <1>2, <1>3, <1>0 DEF TextIsBounded, ObsoleteMarks, Comments, Begun
<1>9. DocSafe(c)
  BY <1>1, <1>4, <1>5, <1>6, <1>7, <1>8 DEF DocSafe
<1>10. NoneOld(c)
  BY <1>1, <1>2 DEF NoneOld
<1>11. OwnText(c) = OwnText(d)
  <2> DEFINE bad == {n \in 0..Len(d) : OwnUpTo(c)[n] # OwnUpTo(d)[n]}
  <2>1. bad = {}
    <3> SUFFICES ASSUME bad # {} PROVE FALSE
      OBVIOUS
    <3>1. bad \in SUBSET Nat
      OBVIOUS
    <3>2. PICK n \in bad : \A k \in bad : n <= k
      <4> HIDE DEF bad
      <4> QED
        BY <3>1, SmallestIs
    <3>3. n \in 0..Len(d) /\ OwnUpTo(c)[n] # OwnUpTo(d)[n]
      OBVIOUS
    <3>4. n # 0
      BY <3>3, OwnSteps
    <3> DEFINE q == n - 1
    <3>5. q \in 0..Len(d) /\ q \in Nat /\ q + 1 = n /\ n \in DOMAIN d /\ ~(n <= q)
      BY <3>3, <3>4, <1>1
    <3> HIDE DEF q
    <3>6. q \notin bad
      <4> HIDE DEF bad
      <4> QED
        BY <3>2, <3>5
    <3>7. OwnUpTo(c)[q] = OwnUpTo(d)[q]
      BY <3>5, <3>6
    <3>8. /\ OwnUpTo(c)[q + 1] = IF c[q + 1] \in {"text", "heading"} THEN Append(OwnUpTo(c)[q], c[q + 1]) ELSE OwnUpTo(c)[q]
          /\ OwnUpTo(d)[q + 1] = IF d[q + 1] \in {"text", "heading"} THEN Append(OwnUpTo(d)[q], d[q + 1]) ELSE OwnUpTo(d)[q]
      BY <3>5, OwnSteps
    <3>9. c[n] \in {"text", "heading"} \/ d[n] \in {"text", "heading"} => c[n] = d[n]
      BY <1>2, <3>5
    <3>10. OwnUpTo(c)[n] = OwnUpTo(d)[n]
      BY <3>5, <3>7, <3>8, <3>9
    <3> QED
      BY <3>3, <3>10
  <2>2. OwnUpTo(c)[Len(d)] = OwnUpTo(d)[Len(d)]
    BY <2>1, <1>1
  <2> QED
    BY <2>2, <1>1 DEF OwnText
<1>12. Includes(c) <=> Includes(d)
  <2>1. ASSUME NEW i \in DOMAIN d PROVE {k \in 1..i - 1 : c[k] = "fence"} = {k \in 1..i - 1 : d[k] = "fence"}
    BY <1>1, <1>2
  <2>2. \A i \in DOMAIN d : c[i] = "include" <=> d[i] = "include"
    BY <1>2
  <2> QED
    BY <2>1, <2>2, <1>1 DEF Includes
<1>13. ASSUME Tailed(d) PROVE Tailed(c)
  <2>1. PICK i \in DOMAIN d, k \in DOMAIN d :
          /\ i + 2 < k /\ d[i] \in Comments /\ d[k] = "loose" /\ \A p \in i + 2..k : d[p] \notin Comments \cup Headings
          /\ d[i] # "mark" =>
               /\ d[i + 2] = "edited"
               /\ \A j \in k + 1..Len(d) : d[j] \in ObsoleteMarks \cup Headings => \E m \in k + 1..j - 1 : d[m] = "mark"
    BY <1>13 DEF Tailed
  <2>2. \A p \in DOMAIN d : d[p] \in Comments \cup Headings \/ c[p] \in Comments \cup Headings => c[p] = d[p]
    BY <1>2 DEF Comments, Headings
  <2>3. i + 2 \in DOMAIN d /\ c[i] = d[i] /\ c[k] = d[k] /\ (d[i + 2] = "edited" => c[i + 2] = "edited")
    BY <2>1, <1>1, <1>2, <1>3
  <2>4. \A p \in i + 2..k : c[p] \notin Comments \cup Headings
    BY <2>1, <2>2, <1>1
  <2>5. ASSUME c[i] # "mark", NEW j \in k + 1..Len(c), c[j] \in ObsoleteMarks \cup Headings
        PROVE  \E m \in k + 1..j - 1 : c[m] = "mark"
    BY <2>5, <1>1, <2>2, <2>1, <2>3, <1>3 DEF ObsoleteMarks, Comments
  <2> QED
    BY <2>1, <2>3, <2>4, <2>5, <1>1 DEF Tailed
<1>14. Has(d, "mark") => Has(c, "mark")
  BY <1>1, <1>3 DEF Has, Comments
<1>15. Has(c, "loose") => Has(d, "loose")
  BY <1>1, <1>2 DEF Has
<1> QED
  BY <1>9, <1>10, <1>11, <1>12, <1>13, <1>14, <1>15 DEF Keeps

-----------------------------------------------------------------------------
LEMMA CutKeeps ==
  ASSUME NEW c, NEW d, NEW s, NEW e, CutIs(c, d, s, e), DocSafe(d), BlockIs(d, s, e), d[s] \in ObsoleteMarks,
         d[s + 2] = "edited" => ~WalledOff(d, s)
  PROVE  Keeps(c, d) /\ (NoneOld(d) => NoneOld(c))
<1> DEFINE W(p) == Was(p, s, e)
<1>0. /\ \A p \in DOMAIN c : W(p) \in DOMAIN d /\ c[p] = d[W(p)] /\ W(p) \notin s..e - 1
      /\ \A p, q \in DOMAIN c : p < q <=> W(p) < W(q)
      /\ \A q \in DOMAIN d : q \notin s..e - 1 => \E p \in DOMAIN c : W(p) = q
  BY CutWas
<1>1. /\ DOMAIN c = 1..Len(c) /\ Len(c) \in Nat /\ DOMAIN d = 1..Len(d) /\ Len(d) \in Nat
      /\ s \in 1..Len(d) /\ e \in s + 3..Len(d) + 1 /\ Len(c) = Len(d) - (e - s)
      /\ \A p \in 1..s - 1 : p \in DOMAIN c /\ c[p] = d[p]
      /\ \A p \in s..Len(c) : c[p] = d[p + (e - s)]
  BY DEF CutIs
<1>2. \A p \in DOMAIN c : c[p] \in Comments => p + 1 \in DOMAIN c /\ p + 2 \in DOMAIN c /\ W(p + 1) = W(p) + 1 /\ W(p + 2) = W(p) + 2
  BY CutNear
<1>3. \A p \in DOMAIN c : p < s => W(p) = p
  BY DEF Was
<1>4. \A p \in DOMAIN c : W(p) < s => p < s
  BY <1>1 DEF Was
<1> HIDE DEF W
<1>5. d[s] \in Comments /\ s \in DOMAIN d /\ s + 2 \in DOMAIN d /\ d[s + 1] = "title" /\ d[s + 2] \in {"rest", "edited"}
  BY <1>1 DEF DocSafe, Begun, ObsoleteMarks, Comments
<1>6. \A p \in s..e - 1 : d[p] \notin {"text", "heading"} /\ (d[p] \in Comments => p = s)
  <2> TAKE p \in s..e - 1
  <2>1. CASE p = s
    BY <2>1, <1>5 DEF Comments
  <2>2. CASE p # s
    <3>1. p \in s + 1..e - 1
      BY <2>2, <1>1
    <3>2. d[p] \notin Comments \cup {"heading"}
      BY <3>1 DEF BlockIs
    <3>3. d[p] # "text"
      <4>1. CASE d[s + 2] = "rest"
        <5>1. e = s + 3
          BY <4>1 DEF BlockIs
        <5>2. p = s + 1 \/ p = s + 2
          BY <5>1, <3>1, <1>1
        <5> QED
          BY <5>2, <4>1, <1>5
      <4>2. CASE d[s + 2] = "edited"
        <5> SUFFICES ASSUME d[p] = "text" PROVE FALSE
          OBVIOUS
        <5>1. p \in DOMAIN d /\ s < p
          BY <3>1, <1>1
        <5>2. PICK k \in s + 2..p : d[k] \in {"mark", "heading"} \/ (d[s] = "session" /\ d[k] = "findings")
          BY <5>1, <4>2, <1>5 DEF DocSafe, TextIsBounded
        <5>3. k \in s + 1..e - 1
          BY <5>2, <3>1, <1>1
        <5> QED
          BY <5>2, <5>3 DEF BlockIs, Comments
      <4> QED
        BY <4>1, <4>2, <1>5
    <3> QED
      BY <3>2, <3>3
  <2> QED
    BY <2>1, <2>2
<1>7. OwnText(c) = OwnText(d)
  <2> DEFINE a == s - 1  k == e - s  b == Len(c)
  <2>1. a \in Nat /\ k \in Nat /\ b \in Nat /\ a <= b /\ a + k = e - 1 /\ b + k = Len(d) /\ a <= a + k /\ a + k \in Nat
    BY <1>1
  <2>2. \A p \in 1..a : c[p] = d[p]
    BY <1>1
  <2>3. \A p \in a + 1..a + k : d[p] \notin {"text", "heading"}
    <3>1. a + 1 = s /\ a + k = e - 1
      BY <1>1
    <3> HIDE DEF a, k
    <3> QED
      BY <3>1, <1>6
  <2>4. \A p \in a + 1..b : c[p] = d[p + k]
    BY <1>1
  <2> HIDE DEF a, b, k
  <2>5. OwnUpTo(c)[a] = OwnUpTo(d)[a]
    <3>1. \A n \in 0..a : OwnUpTo(c)[n] = OwnUpTo(d)[n]
      BY <2>1, <2>2, OwnPrefix
    <3> QED
      BY <3>1, <2>1
  <2>6. OwnUpTo(d)[a + k] = OwnUpTo(d)[a]
    BY <2>1, <2>3, OwnNothing
  <2>7. OwnUpTo(c)[b] = OwnUpTo(d)[b + k]
    <3>1. OwnUpTo(c)[a] = OwnUpTo(d)[a + k]
      BY <2>5, <2>6
    <3>2. a \in Nat /\ b \in Nat /\ k \in Nat /\ a <= b
      BY <2>1
    <3> QED
      BY <2>4, <3>1, <3>2, OwnMoved
  <2> QED
    BY <2>1, <2>7 DEF OwnText, b
<1>8. Includes(c) <=> Includes(d)
  <2>1. ASSUME NEW i \in DOMAIN d, i < s PROVE {k \in 1..i - 1 : c[k] = "fence"} = {k \in 1..i - 1 : d[k] = "fence"} /\ c[i] = d[i]
    BY <1>1, <2>1
  <2>2. \A i \in DOMAIN d : d[i] = "include" => i < s /\ i \in DOMAIN c
    BY <1>1, <1>5 DEF DocSafe, FencesFirst
  <2>3. \A i \in DOMAIN c : c[i] = "include" => i < s /\ i \in DOMAIN d
    BY <1>0, <2>2, <1>1, <1>4
  <2> QED
    BY <2>1, <2>2, <2>3 DEF Includes
<1>9. ASSUME Tailed(d) PROVE Tailed(c)
  <2>1. PICK i \in DOMAIN d, k \in DOMAIN d :
          /\ i + 2 < k /\ d[i] \in Comments /\ d[k] = "loose" /\ \A p \in i + 2..k : d[p] \notin Comments \cup Headings
          /\ d[i] # "mark" =>
               /\ d[i + 2] = "edited"
               /\ \A j \in k + 1..Len(d) : d[j] \in ObsoleteMarks \cup Headings => \E m \in k + 1..j - 1 : d[m] = "mark"
    BY <1>9 DEF Tailed
  <2>2. i # s
    <3> SUFFICES ASSUME i = s PROVE FALSE
      OBVIOUS
    <3>1. d[s] # "mark" /\ d[s + 2] = "edited"
      BY <2>1 DEF ObsoleteMarks
    <3>2. WalledOff(d, s)
      <4> SUFFICES ASSUME NEW j \in s + 2..Len(d), d[j] \in Comments \cup Headings
                   PROVE  \E m \in s + 2..j : d[m] = "mark"
        BY DEF WalledOff
      <4>1. j \in k + 1..Len(d)
        BY <2>1, <1>1
      <4>2. CASE d[j] = "mark"
        BY <4>2, <1>1
      <4>3. CASE d[j] # "mark"
        BY <4>3, <4>1, <3>1, <2>1, <1>1 DEF ObsoleteMarks, Comments
      <4> QED
        BY <4>2, <4>3
    <3> QED
      BY <3>1, <3>2
  <2>3. i \notin s..e - 1
    BY <2>1, <2>2, <1>6
  <2>4. s # i + 1
    BY <2>1, <1>5 DEF DocSafe, Begun, Comments
  <2>5. k \notin s..e - 1
    <3> SUFFICES ASSUME k \in s..e - 1 PROVE FALSE
      OBVIOUS
    <3>1. i < s
      BY <2>1, <2>3, <1>1
    <3>2. s \in i + 2..k
      BY <3>1, <2>4, <2>1, <1>1
    <3> QED
      BY <3>2, <2>1, <1>5
  <2>6. PICK x \in DOMAIN c : W(x) = i
    BY <2>3, <1>0
  <2>7. PICK y \in DOMAIN c : W(y) = k
    BY <2>5, <1>0
  <2>8. c[x] = d[i] /\ c[y] = "loose" /\ x + 2 \in DOMAIN c /\ W(x + 2) = i + 2 /\ c[x + 2] = d[i + 2]
    BY <2>1, <2>6, <2>7, <1>0, <1>2
  <2>9. x + 2 < y
    BY <2>1, <2>7, <2>8, <1>0
  <2>10. \A p \in x + 2..y : c[p] \notin Comments \cup Headings
    <3> TAKE p \in x + 2..y
    <3>1. p \in DOMAIN c /\ ~(p < x + 2) /\ ~(y < p)
      BY <2>8, <2>7, <1>1
    <3>2. W(p) \in i + 2..k
      <4>1. ~(W(p) < i + 2) /\ ~(k < W(p))
        BY <3>1, <2>7, <2>8, <1>0
      <4>2. W(p) \in DOMAIN d
        BY <3>1, <1>0
      <4>3. W(p) \in Nat /\ i \in Nat /\ k \in Nat
        BY <4>2, <1>1
      <4> HIDE DEF W
      <4> QED
        BY <4>1, <4>3
    <3> QED
      BY <3>1, <3>2, <2>1, <1>0
  <2>11. ASSUME c[x] # "mark", NEW j \in y + 1..Len(c), c[j] \in ObsoleteMarks \cup Headings
         PROVE  \E m \in y + 1..j - 1 : c[m] = "mark"
    <3>1. j \in DOMAIN c /\ y < j
      BY <2>11, <2>7, <1>1
    <3>2. W(j) \in k + 1..Len(d) /\ d[W(j)] = c[j]
      BY <3>1, <2>7, <1>0, <1>1
    <3>3. PICK m \in k + 1..W(j) - 1 : d[m] = "mark"
      BY <3>2, <2>1, <2>8, <2>11
    <3>4. m \in DOMAIN d /\ m \notin s..e - 1
      <4>1. m \in DOMAIN d
        BY <3>2, <3>3, <1>1
      <4>2. m # s
        BY <3>3 DEF ObsoleteMarks
      <4> QED
        BY <4>1, <4>2, <3>3, <1>6 DEF Comments
    <3>5. PICK z \in DOMAIN c : W(z) = m
      BY <3>4, <1>0
    <3>6. y < z /\ z < j
      <4>1. W(y) < W(z) /\ W(z) < W(j)
        BY <3>2, <3>3, <3>5, <2>7, <1>1
      <4> QED
        BY <4>1, <3>1, <3>5, <1>0
    <3>7. z \in y + 1..j - 1 /\ c[z] = "mark"
      <4>1. c[z] = "mark"
        BY <3>3, <3>5, <1>0
      <4>2. z \in Nat /\ y \in Nat /\ j \in Nat
        BY <3>1, <3>5, <2>7, <1>1
      <4> QED
        BY <4>1, <4>2, <3>6
    <3> QED
      BY <3>7
  <2> QED
    BY <2>1, <2>8, <2>9, <2>10, <2>11 DEF Tailed
<1>10. Has(d, "mark") => Has(c, "mark")
  BY <1>6, <1>0 DEF Has, ObsoleteMarks, Comments
<1>11. NoneOld(d) => NoneOld(c)
  BY <1>0 DEF NoneOld
<1>12. Has(c, "loose") => Has(d, "loose")
  BY <1>0 DEF Has
<1> QED
  BY <1>7, <1>8, <1>9, <1>10, <1>11, <1>12 DEF Keeps

-----------------------------------------------------------------------------
\* What removing an obsolete block does.
Removes(c, d, name, s, e) ==
  /\ s \in DOMAIN d /\ d[s] = name /\ CutIs(c, d, s, e) /\ BlockIs(d, s, e)
  /\ d[s + 2] = "edited" => ~WalledOff(d, s)

LEMMA WithoutIs ==
  ASSUME NEW d, DocSafe(d), NEW name \in ObsoleteMarks
  PROVE  \/ WithoutBlock(d, name) = d /\ Stuck(d, name)
         \/ \E s, e : Removes(WithoutBlock(d, name), d, name, s, e)
<1> DEFINE s == MarkerLine(d, name)
           e == MarkedBlockEnd(d, s, Obsolete[name], "mark")
<1>1. WithoutBlock(d, name) = IF s = 0 \/ e = 0 THEN d ELSE Cut(d, s, e)
  BY DEF WithoutBlock, Cut
<1>2. \/ s = 0 /\ ~Has(d, name)
      \/ s \in DOMAIN d /\ d[s] = name /\ \A i \in DOMAIN d : d[i] = name => i = s
  BY MarkerPlace DEF ObsoleteMarks, Comments
<1>3. d \in Seq(DocLines) /\ DOMAIN d = 1..Len(d)
  BY DEF DocSafe
<1>4. CASE s = 0
  BY <1>2, <1>3, <1>4, <1>1 DEF Stuck, Has
<1>5. CASE s # 0
  <2>1. s \in DOMAIN d /\ d[s] = name /\ \A i \in DOMAIN d : d[i] = name => i = s
    BY <1>2, <1>5
  <2> DEFINE f == e
  <2>2. f = MarkedBlockEnd(d, s, Obsolete[name], "mark")
    OBVIOUS
  <2> HIDE DEF s, f
  <2>3. \/ f = 0 /\ d[s + 2] = "edited" /\ WalledOff(d, s)
        \/ BlockIs(d, s, f) /\ (d[s + 2] = "edited" => ~WalledOff(d, s))
    BY <2>1, <2>2, EndOfBlock
  <2>4. WithoutBlock(d, name) = IF s = 0 \/ f = 0 THEN d ELSE Cut(d, s, f)
    BY <1>1, <2>2
  <2>5. CASE f = 0
    BY <2>1, <2>5, <1>3, <2>3, <2>4 DEF BlockIs, Stuck
  <2>6. CASE f # 0
    BY <2>3, <2>6, <2>4, <1>5, <2>1, <1>3, CutLines DEF BlockIs, Removes
  <2> QED
    BY <2>5, <2>6
<1> QED
  BY <1>4, <1>5

\* The one block that goes takes no mark with it, so an edited session block stays walled off.
LEMMA StillStuck ==
  ASSUME NEW c, NEW d, NEW s, NEW e, DocSafe(d), Removes(c, d, "findings", s, e), Stuck(d, "session")
  PROVE  Stuck(c, "session")
<1> DEFINE W(p) == Was(p, s, e)
<1>a. CutIs(c, d, s, e) /\ BlockIs(d, s, e) /\ d[s] = "findings"
  BY DEF Removes
<1>0. /\ \A p \in DOMAIN c : W(p) \in DOMAIN d /\ c[p] = d[W(p)] /\ W(p) \notin s..e - 1
      /\ \A p, q \in DOMAIN c : p < q <=> W(p) < W(q)
      /\ \A q \in DOMAIN d : q \notin s..e - 1 => \E p \in DOMAIN c : W(p) = q
  BY <1>a, CutWas
<1>1. /\ DOMAIN c = 1..Len(c) /\ Len(c) \in Nat /\ DOMAIN d = 1..Len(d) /\ Len(d) \in Nat
      /\ s \in 1..Len(d) /\ e \in s + 3..Len(d) + 1
  BY <1>a DEF CutIs
<1>2. \A p \in DOMAIN c : c[p] \in Comments => p + 1 \in DOMAIN c /\ p + 2 \in DOMAIN c /\ W(p + 1) = W(p) + 1 /\ W(p + 2) = W(p) + 2
  BY <1>a, CutNear DEF ObsoleteMarks
<1> HIDE DEF W
<1>3. SUFFICES ASSUME NEW i \in DOMAIN c, c[i] = "session"
               PROVE  c[i + 2] = "edited" /\ WalledOff(c, i)
  BY DEF Stuck
<1>4. i + 2 \in DOMAIN c /\ W(i + 2) = W(i) + 2
  BY <1>3, <1>2 DEF Comments
<1>5. W(i) \in DOMAIN d /\ d[W(i)] = "session"
  BY <1>3, <1>0
<1>6. d[W(i) + 2] = "edited" /\ WalledOff(d, W(i))
  BY <1>5 DEF Stuck
<1>7. c[i + 2] = "edited"
  BY <1>4, <1>6, <1>0
<1>8. ASSUME NEW j \in i + 2..Len(c), c[j] \in Comments \cup Headings PROVE \E m \in i + 2..j : c[m] = "mark"
  <2>1. j \in DOMAIN c /\ ~(j < i + 2)
    BY <1>1, <1>4
  <2>2. W(j) \in DOMAIN d /\ d[W(j)] = c[j] /\ ~(W(j) < W(i) + 2)
    BY <2>1, <1>0, <1>4
  <2>3. W(j) \in W(i) + 2..Len(d)
    BY <2>2, <1>1, <1>5
  <2>4. PICK m \in W(i) + 2..W(j) : d[m] = "mark"
    BY <2>2, <2>3, <1>6, <1>8 DEF WalledOff
  <2>5. m \in DOMAIN d /\ m # s
    BY <2>3, <2>4, <1>1, <1>5, <1>a
  <2>6. m \notin s..e - 1
    BY <2>5, <1>1, <2>4, <1>a DEF BlockIs, Comments
  <2>7. PICK r \in DOMAIN c : W(r) = m
    BY <2>5, <2>6, <1>0
  <2>8. ~(r < i + 2) /\ ~(j < r)
    <3>1. ~(W(r) < W(i + 2)) /\ ~(W(j) < W(r))
      BY <2>4, <2>7, <2>2, <1>1, <1>4, <1>5
    <3> QED
      BY <3>1, <2>1, <2>7, <1>4, <1>0
  <2>9. r \in i + 2..j
    BY <2>8, <2>7, <2>1, <1>1
  <2>10. c[r] = "mark"
    BY <2>4, <2>7, <1>0
  <2> QED
    BY <2>9, <2>10
<1> QED
  BY <1>7, <1>8 DEF WalledOff

LEMMA WithoutSafe ==
  ASSUME NEW d, DocSafe(d), NEW name \in ObsoleteMarks, name = "findings" => Stuck(d, "session"),
         NEW c, c = WithoutBlock(d, name)
  PROVE  /\ DocSafe(c) /\ Keeps(c, d) /\ Stuck(c, name) /\ (name = "findings" => Stuck(c, "session"))
         /\ NoneOld(d) => NoneOld(c)
         /\ Has(c, "mark") => Has(d, "mark")
<1>1. CASE c = d /\ Stuck(d, name)
  BY <1>1 DEF Keeps
<1>2. ASSUME NEW s, NEW e, Removes(c, d, name, s, e)
      PROVE  /\ DocSafe(c) /\ Keeps(c, d) /\ Stuck(c, name) /\ (name = "findings" => Stuck(c, "session"))
             /\ NoneOld(d) => NoneOld(c)
             /\ Has(c, "mark") => Has(d, "mark")
  <2>1. /\ s \in DOMAIN d /\ d[s] = name /\ CutIs(c, d, s, e) /\ BlockIs(d, s, e)
        /\ d[s + 2] = "edited" => ~WalledOff(d, s)
    BY <1>2 DEF Removes
  <2>2. d[s] \in ObsoleteMarks
    BY <2>1
  <2>3. DocSafe(c)
    BY <2>1, <2>2, CutSafe
  <2>4. Keeps(c, d) /\ (NoneOld(d) => NoneOld(c))
    BY <2>1, <2>2, CutKeeps
  <2>5. Stuck(c, name)
    <3> SUFFICES ASSUME NEW i \in DOMAIN c, c[i] = name PROVE FALSE
      BY DEF Stuck
    <3>1. Was(i, s, e) \in DOMAIN d /\ d[Was(i, s, e)] = name /\ Was(i, s, e) \notin s..e - 1
      BY <2>1, CutWas
    <3>2. Was(i, s, e) = s
      BY <3>1, <2>1 DEF DocSafe, OnceEach, ObsoleteMarks, Comments
    <3>3. s \in s..e - 1
      BY <2>1 DEF CutIs
    <3> QED
      BY <3>1, <3>2, <3>3
  <2>6. name = "findings" => Stuck(c, "session")
    BY <1>2, StillStuck
  <2>7. Has(c, "mark") => Has(d, "mark")
    BY <2>1, CutWas DEF Has
  <2> QED
    BY <2>3, <2>4, <2>5, <2>6, <2>7
<1>3. (c = d /\ Stuck(d, name)) \/ \E s, e : Removes(c, d, name, s, e)
  BY WithoutIs
<1> QED
  BY <1>1, <1>2, <1>3

LEMMA AppendStuck ==
  ASSUME NEW c, NEW d, AppendIs(c, d), DocSafe(d), NEW name \in ObsoleteMarks, Stuck(d, name)
  PROVE  Stuck(c, name)
<1> DEFINE n == Len(d)
<1>1. /\ n \in Nat /\ DOMAIN d = 1..n /\ DOMAIN c = 1..n + 3 /\ Len(c) = n + 3
      /\ \A p \in 1..n : c[p] = d[p]
      /\ c[n + 1] = "mark" /\ c[n + 2] = "title" /\ c[n + 3] = "new"
  BY DEF AppendIs
<1> HIDE DEF n
<1>2. SUFFICES ASSUME NEW i \in DOMAIN c, c[i] = name PROVE c[i + 2] = "edited" /\ WalledOff(c, i)
  BY DEF Stuck
<1>3. i \in DOMAIN d /\ d[i] = name
  BY <1>1, <1>2 DEF ObsoleteMarks
<1>4. i + 2 \in 1..n
  BY <1>1, <1>3 DEF DocSafe, Begun, ObsoleteMarks, Comments
<1>5. d[i + 2] = "edited" /\ WalledOff(d, i)
  BY <1>3 DEF Stuck
<1>6. ASSUME NEW j \in i + 2..Len(c), c[j] \in Comments \cup Headings PROVE \E m \in i + 2..j : c[m] = "mark"
  BY <1>1, <1>3, <1>4, <1>5, <1>6 DEF n, WalledOff
<1> QED
  BY <1>1, <1>4, <1>5, <1>6 DEF WalledOff

-----------------------------------------------------------------------------
(* A refresh loses nothing, and a second one has nothing left to do.        *)
Refreshed(d) == DocSafe(d) /\ NoneOld(d) /\ Stuck(d, "session") /\ Stuck(d, "findings")

LEMMA RefreshIs ==
  ASSUME NEW d, DocSafe(d), NEW append \in BOOLEAN, NEW r, r = Refresh(d, append)
  PROVE  Refreshed(r) /\ Keeps(r, d) /\ (append => Has(r, "mark"))
<1> DEFINE a == ReplaceOutdated(d)
           b == WithoutBlock(a, "session")
           c == WithoutBlock(b, "findings")
<1>1. DocSafe(a) /\ NoneOld(a) /\ Keeps(a, d)
  BY ReplaceLines, RenewedSafe
<1>2. r = IF append /\ ~Has(d, "mark") THEN c \o NewBlock ELSE c
  BY DEF Refresh
<1>a. Has(a, "mark") => Has(d, "mark")
  <2>1. Renewed(a, d)
    BY ReplaceLines
  <2> HIDE DEF a
  <2> QED
    BY <2>1 DEF Renewed, Has
<1> HIDE DEF a
<1>3. (Has(b, "mark") => Has(a, "mark")) /\ DocSafe(b) /\ NoneOld(b) /\ Keeps(b, a) /\ Stuck(b, "session")
  BY <1>1, WithoutSafe DEF ObsoleteMarks
<1> HIDE DEF b
<1>4. (Has(c, "mark") => Has(b, "mark")) /\ DocSafe(c) /\ NoneOld(c) /\ Keeps(c, b) /\ Stuck(c, "session") /\ Stuck(c, "findings")
  BY <1>3, WithoutSafe DEF ObsoleteMarks
<1> HIDE DEF c
<1>5. Keeps(b, d)
  BY <1>1, <1>3, KeepsOn
<1>6. Keeps(c, d)
  BY <1>4, <1>5, KeepsOn
<1>b. Has(c, "mark") <=> Has(d, "mark")
  BY <1>a, <1>3, <1>4, <1>6 DEF Keeps
<1>7. CASE append /\ ~Has(d, "mark")
  <2>1. r = c \o NewBlock
    BY <1>2, <1>7
  <2>2. AppendIs(r, c)
    BY <1>4, <2>1, AppendLines DEF DocSafe
  <2>3. DocSafe(r)
    BY <1>4, <1>7, <1>b, <2>2, AppendSafe DEF NoneOld
  <2>4. Keeps(r, c) /\ Has(r, "mark")
    BY <1>4, <2>2, AppendKeeps
  <2>5. Keeps(r, d)
    BY <1>6, <2>4, KeepsOn
  <2>6. Stuck(r, "session") /\ Stuck(r, "findings")
    BY <1>4, <2>2, AppendStuck DEF ObsoleteMarks
  <2>7. NoneOld(r)
    <3> DEFINE n == Len(c)
    <3>1. /\ n \in Nat /\ DOMAIN c = 1..n /\ DOMAIN r = 1..n + 3
          /\ \A p \in 1..n : r[p] = c[p]
          /\ r[n + 1] = "mark" /\ r[n + 2] = "title" /\ r[n + 3] = "new"
      BY <2>2 DEF AppendIs
    <3> HIDE DEF n
    <3>2. \A p \in 1..n + 3 : p \in 1..n \/ p = n + 1 \/ p = n + 2 \/ p = n + 3
      BY <3>1
    <3> QED
      BY <3>1, <3>2, <1>4 DEF NoneOld
  <2> QED
    BY <2>3, <2>4, <2>5, <2>6, <2>7 DEF Refreshed
<1>8. CASE ~(append /\ ~Has(d, "mark"))
  BY <1>2, <1>4, <1>6, <1>8, <1>b DEF Refreshed
<1> QED
  BY <1>7, <1>8

LEMMA RefreshAgain ==
  ASSUME NEW d, Refreshed(d), NEW append \in BOOLEAN, append => Has(d, "mark")
  PROVE  Refresh(d, append) = d
<1> DEFINE a == ReplaceOutdated(d)
<1>1. DocSafe(d) /\ NoneOld(d) /\ Stuck(d, "session") /\ Stuck(d, "findings")
  BY DEF Refreshed
<1>2. a = d
  <2>1. Renewed(a, d)
    BY <1>1, ReplaceLines
  <2> HIDE DEF a
  <2>2. a \in Seq(DocLines) /\ d \in Seq(DocLines) /\ Len(a) = Len(d) /\ \A p \in 1..Len(d) : a[p] = d[p]
    BY <1>1, <2>1 DEF Renewed, NoneOld, DocSafe
  <2> QED
    BY <2>2
<1>3. ASSUME NEW name \in ObsoleteMarks PROVE WithoutBlock(d, name) = d
  BY <1>1, WithoutIs DEF ObsoleteMarks, Removes, Stuck
<1>4. WithoutBlock(d, "session") = d /\ WithoutBlock(d, "findings") = d
  BY <1>3 DEF ObsoleteMarks
<1> QED
  BY <1>2, <1>4 DEF Refresh

-----------------------------------------------------------------------------
(* The documents found at the beginning.                                    *)
Last(d) == d[Len(d)]
EndsOpen(d) == d # <<>> /\ Last(d) \in {"edited", "loose"}
OpenAtEnd(d) ==
  EndsOpen(d) => \E i \in DOMAIN d : /\ d[i] \in Comments /\ i + 2 \in DOMAIN d
                                     /\ \A p \in i + 2..Len(d) : d[p] \notin Comments \cup Headings
                                     /\ d[i] # "mark" => d[i + 2] = "edited"
\* An edited session block nothing has ended reaches to the end.
SessionIsOpen(d) ==
  \A i \in DOMAIN d : d[i] = "session" /\ d[i + 2] = "edited" =>
    EndsOpen(d) \/ \E k \in i + 2..Len(d) : d[k] \in {"mark", "heading", "findings"}
NoFence(d) == \A i \in DOMAIN d : d[i] \notin {"fence", "include"}
Built(d) == DocSafe(d) /\ OpenAtEnd(d) /\ SessionIsOpen(d) /\ NoFence(d)

\* What is joined to a document.
PieceLike(p) ==
  /\ p \in Seq(DocLines) /\ Len(p) \in 1..4 /\ DOMAIN p = 1..Len(p)
  /\ p[1] \in Comments \cup {"text", "heading", "loose", "behind"}
  /\ \A q \in 2..Len(p) : p[q] \notin Comments
  /\ p[1] \in Comments =>
       /\ Len(p) \in 3..4 /\ p[2] = "title"
       /\ p[1] = "mark" => p[3] \in {"new", "old"}
       /\ p[1] # "mark" => p[3] \in {"rest", "edited"} /\ (p[3] = "edited" => Last(p) = "edited")
       /\ \A q \in 3..Len(p) : p[q] \notin Comments \cup Headings
  /\ \A q \in 1..Len(p) : /\ p[q] = "old" => q = 3 /\ p[1] = "mark"
                          /\ p[q] \notin {"fence", "include"}
                          /\ p[q] = "text" => p[1] = "heading" \/ p = <<"text">>
  /\ Last(p) = "edited" => p[1] \in Comments /\ (p[1] # "mark" => p[3] = "edited")
  /\ Last(p) = "loose" => p = <<"loose">>
Fits(d, p) ==
  /\ p[1] \in Comments => ~Has(d, p[1])
  /\ p = <<"text">> => ~EndsOpen(d) /\ ~EditedFindingsOpen(d)
  /\ p = <<"loose">> <=> EndsOpen(d) /\ p[1] \in {"text", "loose", "behind"}

LEMMA LikePieces ==
  /\ \A p \in Pieces : PieceLike(p)
  /\ PieceLike(<<"loose">>) /\ PieceLike(<<"behind">>)
<1>1. ASSUME NEW a \in Comments, NEW b \in {"new", "old", "rest", "edited"},
             b \in {"new", "old"} <=> a = "mark"
      PROVE  PieceLike(<<a, "title", b>>)
  <2> DEFINE p == <<a, "title", b>>
  <2>1. p \in Seq(DocLines) /\ Len(p) = 3 /\ DOMAIN p = 1..3 /\ p[1] = a /\ p[2] = "title" /\ p[3] = b
    BY DEF Comments, DocLines
  <2> HIDE DEF p
  <2>2. \A q \in 1..3 : q = 1 \/ q = 2 \/ q = 3
    OBVIOUS
  <2>3. \A q \in 2..3 : q = 2 \/ q = 3
    OBVIOUS
  <2>4. p[1] = "mark" <=> p[3] \in {"new", "old"}
    BY <1>1, <2>1
  <2>5. p[1] \in {"mark", "session", "findings"} /\ p[3] \in {"new", "old", "rest", "edited"}
    BY <2>1 DEF Comments
  <2>6. \A q \in 1..3 : /\ p[q] = "old" => q = 3 /\ p[1] = "mark"
                        /\ p[q] \notin {"fence", "include", "text"}
    BY <2>1, <2>2, <2>4, <2>5
  <2>7. \A q \in 2..3 : p[q] \notin Comments
    BY <2>1, <2>3, <2>5 DEF Comments
  <2>8. \A q \in 3..3 : p[q] \notin Comments \cup Headings
    BY <2>5 DEF Comments, Headings
  <2>9. Last(p) = p[3]
    BY <2>1 DEF Last
  <2>10. PieceLike(p)
    BY <2>1, <2>4, <2>5, <2>6, <2>7, <2>8, <2>9 DEF PieceLike
  <2> QED
    BY <2>10 DEF p
<1>2. ASSUME NEW a \in {"text", "loose", "behind"} PROVE PieceLike(<<a>>)
  <2> DEFINE p == <<a>>
  <2>1. p \in Seq(DocLines) /\ Len(p) = 1 /\ DOMAIN p = 1..1 /\ p[1] = a
    BY DEF DocLines
  <2>2. a = "text" => p = <<"text">>
    OBVIOUS
  <2>3. a = "loose" => p = <<"loose">>
    OBVIOUS
  <2> HIDE DEF p
  <2>4. \A q \in 1..1 : p[q] = a
    BY <2>1
  <2>5. p[1] \notin Comments /\ Last(p) = a /\ \A q \in 2..1 : p[q] \notin Comments
    BY <2>1 DEF Comments, Last
  <2>6. PieceLike(p)
    BY <2>1, <2>2, <2>3, <2>4, <2>5 DEF PieceLike
  <2> QED
    BY <2>6 DEF p
<1>3. PieceLike(<<"heading", "text">>)
  <2> DEFINE p == <<"heading", "text">>
  <2>1. p \in Seq(DocLines) /\ Len(p) = 2 /\ DOMAIN p = 1..2 /\ p[1] = "heading" /\ p[2] = "text"
    BY DEF DocLines
  <2> HIDE DEF p
  <2>2. \A q \in 1..2 : p[q] = "heading" \/ p[q] = "text"
    BY <2>1
  <2>3. p[1] \notin Comments /\ Last(p) = "text" /\ \A q \in 2..2 : p[q] \notin Comments
    BY <2>1 DEF Comments, Last
  <2>4. PieceLike(p)
    BY <2>1, <2>2, <2>3 DEF PieceLike
  <2> QED
    BY <2>4 DEF p
<1>4. PieceLike(<<"mark", "title", "old", "edited">>)
  <2> DEFINE p == <<"mark", "title", "old", "edited">>
  <2>1. p \in Seq(DocLines) /\ Len(p) = 4 /\ DOMAIN p = 1..4
        /\ p[1] = "mark" /\ p[2] = "title" /\ p[3] = "old" /\ p[4] = "edited"
    BY DEF DocLines
  <2> HIDE DEF p
  <2>2. \A q \in 1..4 : q = 1 \/ q = 2 \/ q = 3 \/ q = 4
    OBVIOUS
  <2>3. \A q \in 2..4 : q = 2 \/ q = 3 \/ q = 4
    OBVIOUS
  <2>4. \A q \in 3..4 : q = 3 \/ q = 4
    OBVIOUS
  <2>5. \A q \in 2..4 : p[q] \notin Comments
    BY <2>1, <2>3 DEF Comments
  <2>6. \A q \in 3..4 : p[q] \notin Comments \cup Headings
    BY <2>1, <2>4 DEF Comments, Headings
  <2>7. p[1] \in Comments /\ Last(p) = "edited"
    BY <2>1 DEF Comments, Last
  <2>8. \A q \in 1..4 : /\ p[q] = "old" => q = 3 /\ p[1] = "mark"
                        /\ p[q] \notin {"fence", "include", "text"}
    BY <2>1, <2>2
  <2>9. PieceLike(p)
    BY <2>1, <2>5, <2>6, <2>7, <2>8 DEF PieceLike
  <2> QED
    BY <2>9 DEF p
<1>5. ASSUME NEW p \in Pieces PROVE PieceLike(p)
  BY <1>1, <1>2, <1>3, <1>4 DEF Pieces, NewBlock, OldBlock, Obsolete, Comments
<1> QED
  BY <1>2, <1>5

Together(c, d, p) == c = d \o p

LEMMA JoinedBuilt ==
  ASSUME NEW d, Built(d), NEW p, PieceLike(p), Fits(d, p), NEW c, Together(c, d, p)
  PROVE  Built(c)
<1> DEFINE n == Len(d)  l == Len(p)
<1>0. d \in Seq(DocLines) /\ p \in Seq(DocLines)
  BY DEF Built, DocSafe, PieceLike
<1>1. /\ c \in Seq(DocLines) /\ Len(c) = n + l /\ DOMAIN c = 1..n + l /\ n \in Nat /\ DOMAIN d = 1..n
      /\ \A q \in 1..n : c[q] = d[q]
      /\ \A q \in 1..l : c[n + q] = p[q]
  BY <1>0, TwoTogether DEF Together
<1>2. l \in 1..4 /\ DOMAIN p = 1..l
  BY DEF PieceLike
<1>a. d # <<>> <=> n # 0
  BY <1>0
<1>b. p # <<>> /\ c # <<>> /\ Last(c) = p[l] /\ Last(p) = p[l]
  BY <1>1, <1>2 DEF Last
<1> HIDE DEF n, l
<1>3. \A q \in DOMAIN c : q \in 1..n \/ (q \in n + 1..n + l /\ q - n \in 1..l /\ c[q] = p[q - n])
  BY <1>1, <1>2
\* A comment of the piece is its first line.
<1>4. \A q \in DOMAIN c : c[q] \in Comments => q \in 1..n \/ (q = n + 1 /\ p[1] = c[q])
  BY <1>2, <1>1, <1>3 DEF PieceLike, l
<1>5. OnceEach(c)
  BY <1>1, <1>4 DEF OnceEach, Built, DocSafe, Fits, Has
<1>6. p[1] \in Comments => /\ n + 3 \in DOMAIN c /\ c[n + 2] = "title" /\ c[n + 3] = p[3] /\ c[n + 1] = p[1]
                           /\ p[1] = "mark" => p[3] \in {"new", "old"}
                           /\ p[1] # "mark" => p[3] \in {"rest", "edited"}
  BY <1>1 DEF PieceLike, l
<1>7. Begun(c)
  <2> SUFFICES ASSUME NEW i \in DOMAIN c, c[i] \in Comments
               PROVE  /\ i + 2 \in DOMAIN c /\ c[i + 1] = "title"
                      /\ c[i] = "mark" => c[i + 2] \in {"new", "old"}
                      /\ c[i] # "mark" => c[i + 2] \in {"rest", "edited"}
    BY DEF Begun
  <2>1. CASE i \in 1..n
    BY <2>1, <1>1, <1>2 DEF Built, DocSafe, Begun
  <2>2. CASE i = n + 1 /\ p[1] = c[i]
    BY <2>2, <1>1, <1>6
  <2> QED
    BY <2>1, <2>2, <1>4
<1>8. OldInMark(c)
  BY <1>1, <1>2, <1>6, <1>3 DEF OldInMark, Built, DocSafe, PieceLike, l, Comments
<1>9. NoFence(c)
  BY <1>1, <1>2, <1>3 DEF NoFence, Built, PieceLike, l
<1>10. FencesFirst(c)
  BY <1>9 DEF FencesFirst, NoFence
\* An edited obsolete block somewhere in what there was.
<1>11. ASSUME NEW i \in DOMAIN c, c[i] \in ObsoleteMarks, c[i + 2] = "edited", i \in 1..n
       PROVE  i + 2 \in 1..n /\ d[i] = c[i] /\ d[i + 2] = "edited"
  BY <1>11, <1>1 DEF ObsoleteMarks, Comments, Built, DocSafe, Begun
<1>12. SessionIsOpen(c)
  <2> SUFFICES ASSUME NEW i \in DOMAIN c, c[i] = "session", c[i + 2] = "edited"
               PROVE  EndsOpen(c) \/ \E k \in i + 2..Len(c) : c[k] \in {"mark", "heading", "findings"}
    BY DEF SessionIsOpen
  <2>1. CASE i \in 1..n
    <3>1. i + 2 \in 1..n /\ d[i] = "session" /\ d[i + 2] = "edited"
      BY <2>1, <1>11 DEF ObsoleteMarks
    <3>2. EndsOpen(d) \/ \E k \in i + 2..Len(d) : d[k] \in {"mark", "heading", "findings"}
      BY <3>1, <2>1, <1>1 DEF Built, SessionIsOpen
    <3>3. CASE \E k \in i + 2..Len(d) : d[k] \in {"mark", "heading", "findings"}
      BY <3>3, <2>1, <1>1, <1>2 DEF n
    <3>4. CASE EndsOpen(d)
      <4>1. CASE p[1] \in {"text", "loose", "behind"}
        BY <3>4, <4>1, <1>b DEF Fits, l, EndsOpen
      <4>2. CASE p[1] \in {"mark", "heading", "findings"}
        BY <3>1, <2>1, <1>1, <1>2, <4>2
      <4>3. CASE p[1] = "session"
        BY <4>3, <3>1, <2>1, <1>1 DEF Fits, Has, Comments
      <4>4. p[1] \in {"text", "loose", "behind", "mark", "heading", "findings", "session"}
        BY DEF PieceLike, Comments
      <4> QED
        BY <4>1, <4>2, <4>3, <4>4
    <3> QED
      BY <3>2, <3>3, <3>4
  <2>2. CASE i = n + 1 /\ p[1] = c[i]
    BY <2>2, <1>1, <1>6, <1>b DEF Comments, PieceLike, EndsOpen
  <2> QED
    BY <2>1, <2>2, <1>4 DEF Comments
<1>13. OpenAtEnd(c)
  <2> SUFFICES ASSUME EndsOpen(c)
               PROVE  \E i \in DOMAIN c : /\ c[i] \in Comments /\ i + 2 \in DOMAIN c
                                          /\ \A q \in i + 2..Len(c) : c[q] \notin Comments \cup Headings
                                          /\ c[i] # "mark" => c[i + 2] = "edited"
    BY DEF OpenAtEnd
  <2>1. Last(p) \in {"edited", "loose"}
    BY <1>b DEF EndsOpen
  <2>2. CASE Last(p) = "edited"
    <3>1. p[1] \in Comments /\ (p[1] # "mark" => p[3] = "edited")
      BY <2>2 DEF PieceLike
    <3>2. /\ n + 3 \in DOMAIN c /\ c[n + 3] = p[3] /\ c[n + 1] = p[1]
      BY <3>1, <1>6
    <3>3. n + 1 \in DOMAIN c /\ (n + 1) + 2 = n + 3
      BY <1>1, <1>2
    <3>4. ASSUME NEW q \in (n + 1) + 2..Len(c) PROVE c[q] \notin Comments \cup Headings
      <4>1. q \in DOMAIN c /\ q - n \in 3..l /\ q \notin 1..n
        BY <3>4, <1>1, <1>2
      <4>2. c[q] = p[q - n]
        BY <4>1, <1>3
      <4> QED
        BY <4>1, <4>2, <3>1 DEF PieceLike, l
    <3> QED
      BY <3>1, <3>2, <3>3, <3>4
  <2>3. CASE Last(p) = "loose"
    <3>1. p = <<"loose">>
      BY <2>3 DEF PieceLike
    <3>2. l = 1 /\ p[1] = "loose"
      BY <3>1 DEF l
    <3>3. EndsOpen(d)
      BY <3>1 DEF Fits
    <3>4. PICK i \in DOMAIN d : /\ d[i] \in Comments /\ i + 2 \in DOMAIN d
                                /\ \A q \in i + 2..Len(d) : d[q] \notin Comments \cup Headings
                                /\ d[i] # "mark" => d[i + 2] = "edited"
      BY <3>3 DEF Built, OpenAtEnd
    <3>5. /\ i \in 1..n /\ i + 2 \in 1..n /\ i \in DOMAIN c /\ i + 2 \in DOMAIN c
          /\ c[i] = d[i] /\ c[i + 2] = d[i + 2]
      BY <3>4, <1>1, <1>2
    <3>6. ASSUME NEW q \in i + 2..Len(c) PROVE c[q] \notin Comments \cup Headings
      BY <3>5, <3>6, <3>4, <1>1, <3>2 DEF n, Comments, Headings
    <3> QED
      BY <3>4, <3>5, <3>6
  <2> QED
    BY <2>1, <2>2, <2>3
<1>14. TextIsBounded(c)
  <2> SUFFICES ASSUME NEW i \in DOMAIN c, NEW j \in DOMAIN c, i < j, c[i] \in ObsoleteMarks, c[i + 2] = "edited", c[j] = "text"
               PROVE  \E k \in i + 2..j : c[k] \in {"mark", "heading"} \/ (c[i] = "session" /\ c[k] = "findings")
    BY DEF TextIsBounded
  <2>1. CASE j \in 1..n
    BY <2>1, <1>1, <1>11 DEF Built, DocSafe, TextIsBounded
  <2>2. CASE j \in n + 1..n + l /\ j - n \in 1..l /\ c[j] = p[j - n]
    <3>1. p[1] = "heading" \/ p = <<"text">>
      BY <2>2 DEF PieceLike, l
    <3>2. p[1] \notin Comments
      BY <3>1 DEF Comments
    <3>3. i \in 1..n
      BY <3>2, <1>4 DEF ObsoleteMarks, Comments
    <3>4. i + 2 \in 1..n /\ d[i] = c[i] /\ d[i + 2] = "edited"
      BY <3>3, <1>11
    <3>5. CASE p[1] = "heading"
      BY <2>2, <3>3, <3>4, <1>1, <1>2, <3>5
    <3>6. CASE p = <<"text">>
      <4>1. ~EndsOpen(d) /\ ~EditedFindingsOpen(d)
        BY <3>6 DEF Fits
      <4>2. ASSUME NEW k \in i + 2..n, d[k] \in {"mark", "heading"} \/ (d[i] = "session" /\ d[k] = "findings")
            PROVE  \E r \in i + 2..j : c[r] \in {"mark", "heading"} \/ (c[i] = "session" /\ c[r] = "findings")
        BY <3>3, <3>4, <2>2, <1>1, <4>2
      <4>3. CASE d[i] = "findings"
        BY <3>3, <3>4, <1>1, <4>1, <4>3, <4>2 DEF n, EditedFindingsOpen
      <4>4. CASE d[i] = "session"
        BY <4>1, <4>4, <3>3, <3>4, <1>1, <4>2 DEF Built, SessionIsOpen, n
      <4> QED
        BY <4>3, <4>4, <3>4 DEF ObsoleteMarks
    <3> QED
      BY <3>1, <3>5, <3>6
  <2> QED
    BY <2>1, <2>2, <1>3
<1> QED
  BY <1>1, <1>5, <1>7, <1>8, <1>9, <1>10, <1>12, <1>13, <1>14 DEF Built, DocSafe

LEMMA NothingIsBuilt == Built(<<>>)
<1>1. <<>> \in Seq(DocLines) /\ DOMAIN <<>> = {} /\ Len(<<>>) = 0
  OBVIOUS
<1> QED
  BY <1>1 DEF Built, DocSafe, OnceEach, Begun, OldInMark, FencesFirst, TextIsBounded, OpenAtEnd, EndsOpen,
              SessionIsOpen, NoFence

LEMMA JoinedIsBuilt ==
  ASSUME NEW d, Built(d), NEW p \in Pieces
  PROVE  Built(Joined(d, p))
<1>1. PieceLike(p) /\ PieceLike(<<"loose">>) /\ PieceLike(<<"behind">>)
  BY LikePieces
<1>2. p # <<"loose">> /\ p[1] \notin {"loose", "behind"}
  BY PiecesAre DEF Comments
<1>3. p[1] = "text" => p = <<"text">>
  BY PiecesAre DEF Comments
<1>4. EndsOpen(d) <=> (d # <<>> /\ d[Len(d)] \in {"edited", "loose"})
  BY DEF EndsOpen, Last
<1>5. EditedFindingsOpen(d) => d # <<>>
  BY DEF EditedFindingsOpen
<1>6. CASE p[1] \in Comments /\ Has(d, p[1])
  <2>1. p # <<"text">>
    BY <1>6 DEF Comments
  <2>2. Joined(d, p) = d
    BY <1>6, <2>1, Zenon DEF Joined
  <2> QED
    BY <2>2
<1>7. CASE p = <<"text">> /\ EndsOpen(d)
  <2>1. Fits(d, <<"loose">>)
    BY <1>7 DEF Fits, Comments
  <2>2. ~(p[1] \in Comments /\ Has(d, p[1]))
    BY <1>7 DEF Comments
  <2>3. Joined(d, p) = d \o <<"loose">>
    BY <1>4, <1>7, <2>2, Zenon DEF Joined
  <2> QED
    BY <1>1, <2>1, <2>3, JoinedBuilt DEF Together
<1>8. CASE p = <<"text">> /\ ~EndsOpen(d) /\ EditedFindingsOpen(d)
  <2>1. Fits(d, <<"behind">>)
    BY <1>8 DEF Fits, Comments
  <2>2. ~(p[1] \in Comments /\ Has(d, p[1]))
    BY <1>8 DEF Comments
  <2>3. d[Len(d)] \notin {"edited", "loose"}
    BY <1>4, <1>5, <1>8
  <2>4. Joined(d, p) = d \o <<"behind">>
    BY <1>4, <1>8, <2>2, <2>3, Zenon DEF Joined
  <2> QED
    BY <1>1, <2>1, <2>4, JoinedBuilt DEF Together
<1>9. CASE ~(p[1] \in Comments /\ Has(d, p[1])) /\ ~(p = <<"text">> /\ (EndsOpen(d) \/ EditedFindingsOpen(d)))
  <2>1. Fits(d, p)
    BY <1>9, <1>2, <1>3 DEF Fits
  <2>2. Joined(d, p) = d \o p
    BY <1>4, <1>9, Zenon DEF Joined
  <2> QED
    BY <1>1, <2>1, <2>2, JoinedBuilt DEF Together
<1> QED
  BY <1>6, <1>7, <1>8, <1>9

\* However many pieces a document found at the beginning has.
LEMMA DocsAreBuilt == \A n \in Nat : \A d \in DocsOf[n] : Built(d)
<1> DEFINE bad == {n \in Nat : \E d \in DocsOf[n] : ~Built(d)}
<1>1. SUFFICES ASSUME bad # {} PROVE FALSE
  OBVIOUS
<1>2. PICK n \in bad : \A k \in bad : n <= k
  <2>1. bad \in SUBSET Nat
    OBVIOUS
  <2> HIDE DEF bad
  <2> QED
    BY <1>1, <2>1, SmallestIs
<1>3. n \in Nat /\ \E d \in DocsOf[n] : ~Built(d)
  OBVIOUS
<1>4. n # 0
  BY <1>3, DocsSteps, NothingIsBuilt
<1> DEFINE q == n - 1
<1>5. q \in Nat /\ q + 1 = n /\ ~(n <= q)
  BY <1>3, <1>4
<1> HIDE DEF q
<1>6. \A d \in DocsOf[q] : Built(d)
  <2>1. q \notin bad
    <3> HIDE DEF bad
    <3> QED
      BY <1>2, <1>5
  <2> QED
    BY <1>5, <2>1
<1>7. DocsOf[n] = DocsOf[q] \cup {Joined(d, p) : d \in DocsOf[q], p \in Pieces}
  BY <1>5, DocsSteps
<1>8. \A d \in DocsOf[n] : Built(d)
  BY <1>6, <1>7, JoinedIsBuilt
<1> QED
  BY <1>3, <1>8

LEMMA BuiltIs ==
  ASSUME NEW d, Built(d)
  PROVE  DocSafe(d) /\ ~Includes(d) /\ (EndsLoose(d) => Tailed(d))
<1>1. DocSafe(d) /\ d \in Seq(DocLines) /\ DOMAIN d = 1..Len(d) /\ Len(d) \in Nat
  BY DEF Built, DocSafe
<1>2. ~Includes(d)
  BY DEF Includes, Built, NoFence
<1>3. ASSUME EndsLoose(d) PROVE Tailed(d)
  <2>1. EndsOpen(d) /\ d[Len(d)] = "loose"
    BY <1>3 DEF EndsLoose, EndsOpen, Last
  <2>2. PICK i \in DOMAIN d : /\ d[i] \in Comments /\ i + 2 \in DOMAIN d
                              /\ \A p \in i + 2..Len(d) : d[p] \notin Comments \cup Headings
                              /\ d[i] # "mark" => d[i + 2] = "edited"
    BY <2>1 DEF Built, OpenAtEnd
  <2> DEFINE k == Len(d)
  <2>3. d[i + 2] # "loose"
    BY <2>2 DEF Built, DocSafe, Begun
  <2>4. k \in DOMAIN d /\ i + 2 < k
    BY <2>1, <2>2, <2>3, <1>1
  <2>5. \A j \in k + 1..Len(d) : FALSE
    BY <1>1
  <2> HIDE DEF k
  <2>6. d[k] = "loose" /\ \A p \in i + 2..k : d[p] \notin Comments \cup Headings
    BY <2>1, <2>2 DEF k
  <2> QED
    BY <2>2, <2>4, <2>5, <2>6 DEF Tailed
<1> QED
  BY <1>1, <1>2, <1>3

\* A document without blocks of k-playbook.
LEMMA PlainIsSafe ==
  ASSUME NEW d \in Seq(DocLines), \A i \in DOMAIN d : d[i] \notin Comments \cup {"old"}
  PROVE  DocSafe(d)
BY DEF DocSafe, OnceEach, Begun, OldInMark, FencesFirst, TextIsBounded, ObsoleteMarks, Comments

LEMMA TemplateLines ==
  /\ Template \in Seq(DocLines) /\ Len(Template) = 4 /\ DOMAIN Template = 1..4
  /\ Template[1] = "title" /\ Template[2] = "mark" /\ Template[3] = "title" /\ Template[4] = "new"
<1> DEFINE a == <<"title">>  b == NewBlock
<1>1. a \in Seq(DocLines) /\ Len(a) = 1 /\ a[1] = "title"
  BY DEF DocLines
<1>2. b \in Seq(DocLines) /\ Len(b) = 3 /\ b[1] = "mark" /\ b[2] = "title" /\ b[3] = "new"
  BY DEF NewBlock, DocLines
<1>3. Template = a \o b
  BY DEF Template
<1> HIDE DEF a, b
<1>4. /\ a \o b \in Seq(DocLines) /\ Len(a \o b) = 1 + 3 /\ DOMAIN (a \o b) = 1..1 + 3
      /\ \A p \in 1..1 : (a \o b)[p] = a[p]
      /\ \A q \in 1..3 : (a \o b)[1 + q] = b[q]
  <2> DEFINE c == a \o b
  <2>1. /\ c \in Seq(DocLines) /\ Len(c) = Len(a) + Len(b) /\ DOMAIN c = 1..Len(a) + Len(b)
        /\ \A p \in 1..Len(a) : c[p] = a[p]
        /\ \A q \in 1..Len(b) : c[Len(a) + q] = b[q]
    BY <1>1, <1>2, TwoTogether
  <2>2. Len(a) = 1 /\ Len(b) = 3
    BY <1>1, <1>2
  <2> HIDE DEF c
  <2>3. /\ c \in Seq(DocLines) /\ Len(c) = 1 + 3 /\ DOMAIN c = 1..1 + 3
        /\ \A p \in 1..1 : c[p] = a[p]
        /\ \A q \in 1..3 : c[1 + q] = b[q]
    BY <2>1, <2>2
  <2> QED
    BY <2>3 DEF c
<1>5. 1 \in 1..1 /\ 1 \in 1..3 /\ 2 \in 1..3 /\ 3 \in 1..3 /\ 1 + 1 = 2 /\ 1 + 2 = 3 /\ 1 + 3 = 4
  OBVIOUS
<1>6. (a \o b)[1] = "title" /\ (a \o b)[2] = "mark" /\ (a \o b)[3] = "title" /\ (a \o b)[4] = "new"
  BY <1>1, <1>2, <1>4, <1>5
<1> QED
  BY <1>3, <1>4, <1>5, <1>6

LEMMA OldWithText ==
  LET d == OldBlock \o <<"text">>
  IN  /\ d \in Seq(DocLines) /\ Len(d) = 4 /\ DOMAIN d = 1..4
      /\ d[1] = "mark" /\ d[2] = "title" /\ d[3] = "old" /\ d[4] = "text"
<1> DEFINE a == OldBlock  b == <<"text">>
<1>1. a \in Seq(DocLines) /\ Len(a) = 3 /\ a[1] = "mark" /\ a[2] = "title" /\ a[3] = "old"
  BY DEF OldBlock, DocLines
<1>2. b \in Seq(DocLines) /\ Len(b) = 1 /\ b[1] = "text"
  BY DEF DocLines
<1> HIDE DEF a, b
<1>4. /\ a \o b \in Seq(DocLines) /\ Len(a \o b) = 3 + 1 /\ DOMAIN (a \o b) = 1..3 + 1
      /\ \A p \in 1..3 : (a \o b)[p] = a[p]
      /\ \A q \in 1..1 : (a \o b)[3 + q] = b[q]
  <2> DEFINE c == a \o b
  <2>1. /\ c \in Seq(DocLines) /\ Len(c) = Len(a) + Len(b) /\ DOMAIN c = 1..Len(a) + Len(b)
        /\ \A p \in 1..Len(a) : c[p] = a[p]
        /\ \A q \in 1..Len(b) : c[Len(a) + q] = b[q]
    BY <1>1, <1>2, TwoTogether
  <2>2. Len(a) = 3 /\ Len(b) = 1
    BY <1>1, <1>2
  <2> HIDE DEF c
  <2>3. /\ c \in Seq(DocLines) /\ Len(c) = 3 + 1 /\ DOMAIN c = 1..3 + 1
        /\ \A p \in 1..3 : c[p] = a[p]
        /\ \A q \in 1..1 : c[3 + q] = b[q]
    BY <2>1, <2>2
  <2> QED
    BY <2>3 DEF c
<1>5. 1 \in 1..1 /\ 1 \in 1..3 /\ 2 \in 1..3 /\ 3 \in 1..3 /\ 3 + 1 = 4
  OBVIOUS
<1>6. (a \o b)[1] = "mark" /\ (a \o b)[2] = "title" /\ (a \o b)[3] = "old" /\ (a \o b)[4] = "text"
  BY <1>1, <1>2, <1>4, <1>5
<1>7. /\ a \o b \in Seq(DocLines) /\ Len(a \o b) = 4 /\ DOMAIN (a \o b) = 1..4
  BY <1>4, <1>5
<1> QED
  BY <1>6, <1>7 DEF a, b

LEMMA FixedDocs ==
  /\ \A d \in {<<>>, <<"text">>, <<"heading", "text">>, <<"fence", "include", "fence", "text">>, Stub, <<"text", "include">>} :
       DocSafe(d) /\ ~EndsLoose(d)
  /\ DocSafe(OldBlock \o <<"text">>) /\ ~EndsLoose(OldBlock \o <<"text">>)
  /\ Includes(Stub)
<1>1. DocSafe(<<>>) /\ ~EndsLoose(<<>>)
  BY NothingIsBuilt DEF Built, EndsLoose
<1>2. ASSUME NEW d \in {<<"text">>, <<"heading", "text">>, <<"fence", "include", "fence", "text">>, Stub, <<"text", "include">>}
      PROVE  DocSafe(d) /\ ~EndsLoose(d)
  <2>1. d \in Seq(DocLines)
    <3>1. {"text", "heading", "fence", "include", "note"} \subseteq DocLines
      BY DEF DocLines
    <3>2. <<"text">> \in Seq(DocLines) /\ <<"heading", "text">> \in Seq(DocLines)
      BY <3>1
    <3>3. <<"note", "include">> \in Seq(DocLines) /\ <<"text", "include">> \in Seq(DocLines)
      BY <3>1
    <3>4. <<"fence", "include", "fence", "text">> \in Seq(DocLines)
      BY <3>1
    <3> QED
      BY <3>2, <3>3, <3>4 DEF Stub
  <2>2. \A i \in DOMAIN d : d[i] \in {"text", "heading", "fence", "include", "note"}
    BY DEF Stub
  <2>3. DocSafe(d)
    BY <2>1, <2>2, PlainIsSafe DEF Comments
  <2>4. d # <<>> => Len(d) \in DOMAIN d
    BY <2>1
  <2>5. ~EndsLoose(d)
    BY <2>2, <2>4 DEF EndsLoose
  <2> QED
    BY <2>3, <2>5
<1>3. DocSafe(OldBlock \o <<"text">>) /\ ~EndsLoose(OldBlock \o <<"text">>)
  <2> DEFINE d == OldBlock \o <<"text">>
  <2>2. d \in Seq(DocLines) /\ Len(d) = 4 /\ DOMAIN d = 1..4 /\ d[1] = "mark" /\ d[2] = "title" /\ d[3] = "old" /\ d[4] = "text"
    BY OldWithText
  <2> HIDE DEF d
  <2>3. \A i \in 1..4 : i = 1 \/ i = 2 \/ i = 3 \/ i = 4
    OBVIOUS
  <2>4. \A i \in DOMAIN d : (d[i] \in Comments => i = 1) /\ d[i] \notin {"fence", "include"} \cup ObsoleteMarks /\ (d[i] = "old" => i = 3)
    BY <2>2, <2>3 DEF Comments, ObsoleteMarks
  <2>5. DocSafe(d)
    BY <2>2, <2>4 DEF DocSafe, OnceEach, Begun, OldInMark, FencesFirst, TextIsBounded
  <2>6. ~EndsLoose(d)
    BY <2>2 DEF EndsLoose
  <2> QED
    BY <2>5, <2>6 DEF d
<1>4. Includes(Stub)
  <2>1. Stub[2] = "include" /\ 2 \in DOMAIN Stub /\ Stub[1] = "note"
    BY DEF Stub
  <2>2. {k \in 1..2 - 1 : Stub[k] = "fence"} = {}
    BY <2>1
  <2>3. Cardinality({k \in 1..2 - 1 : Stub[k] = "fence"}) = 0
    BY <2>2, FS_EmptySet
  <2>4. 0 % 2 = 0
    OBVIOUS
  <2> QED
    BY <2>1, <2>3, <2>4 DEF Includes
<1> QED
  BY <1>1, <1>2, <1>3, <1>4

LEMMA TemplateIs == Refreshed(Template) /\ Has(Template, "mark") /\ ~Includes(Template) /\ DocSafe(Template)
<1> DEFINE d == Template
<1>2. d \in Seq(DocLines) /\ Len(d) = 4 /\ DOMAIN d = 1..4 /\ d[1] = "title" /\ d[2] = "mark" /\ d[3] = "title" /\ d[4] = "new"
  BY TemplateLines
<1> HIDE DEF d
<1>3. \A i \in 1..4 : i = 1 \/ i = 2 \/ i = 3 \/ i = 4
  OBVIOUS
<1>4. \A i \in DOMAIN d : (d[i] \in Comments => i = 2) /\ d[i] \notin {"fence", "include", "old"} \cup ObsoleteMarks
  BY <1>2, <1>3 DEF Comments, ObsoleteMarks
<1>5. DocSafe(d)
  BY <1>2, <1>4 DEF DocSafe, OnceEach, Begun, OldInMark, FencesFirst, TextIsBounded
<1>6. NoneOld(d) /\ ~Includes(d)
  BY <1>4 DEF NoneOld, Includes
<1>7. Stuck(d, "session") /\ Stuck(d, "findings")
  BY <1>4 DEF Stuck, ObsoleteMarks
<1>8. Has(d, "mark")
  BY <1>2 DEF Has
<1> QED
  BY <1>5, <1>6, <1>7, <1>8 DEF d, Refreshed

LEMMA OwnOfNothing == OwnText(<<>>) = <<>> /\ ~Tailed(<<>>) /\ ~Has(<<>>, "loose")
  BY OwnSteps DEF OwnText, Tailed, Has

LEMMA OwnOfTemplate == OwnText(Template) = <<>> /\ ~Has(Template, "loose")
<1> DEFINE d == Template
<1>2. Len(d) = 4 /\ DOMAIN d = 1..4 /\ d[1] = "title" /\ d[2] = "mark" /\ d[3] = "title" /\ d[4] = "new"
  BY TemplateLines
<1> HIDE DEF d
<1>3. \A i \in 1..4 : i = 1 \/ i = 2 \/ i = 3 \/ i = 4
  OBVIOUS
<1>4. \A i \in 0 + 1..4 : d[i] \notin {"text", "heading"}
  BY <1>2, <1>3
<1>5. OwnUpTo(d)[4] = OwnUpTo(d)[0]
  BY <1>4, OwnNothing
<1>6. OwnText(d) = <<>>
  BY <1>2, <1>5, OwnSteps DEF OwnText
<1>7. ~Has(d, "loose")
  BY <1>2, <1>3 DEF Has
<1> QED
  BY <1>6, <1>7 DEF d

-----------------------------------------------------------------------------
(* The inductive invariant of the instruction files.                        *)
Misleading(x) == x.is = "link" /\ x.to \in {"toOther", "dangling"}
Foreign(x)    == x.is = "link" /\ x.to = "foreign"
Across(x)     == x.is = "link" /\ x.to = "toOther"
AtSound(x) ==
  /\ x = At(x.is, x.to, x.doc) /\ DocSafe(x.doc)
  /\ \/ x.is \in {"missing", "dir", "unreadable"} /\ x.to = "" /\ x.doc = <<>>
     \/ x.is = "file" /\ x.to = ""
     \/ Misleading(x) /\ x.doc = <<>>
     \/ Foreign(x)

\* CLAUDE.md is a file of the project; the pair cannot be settled by a setup.
Real(c) == c.is = "file" /\ ~Includes(c.doc)
Stands(c, a, ign) ==
  \/ c.is \in {"dir", "unreadable"} \/ Foreign(c) \/ a.is \in {"dir", "unreadable"}
  \/ Real(c) /\ (a.is = "file" \/ Foreign(a) \/ ign)
Plans == [row : 0..16, conflict : BOOLEAN, blocked : BOOLEAN, remove : BOOLEAN, rename : BOOLEAN,
          mayCreate : BOOLEAN, runs : BOOLEAN]

FileRunShaped(r) ==
  /\ r = [op |-> r.op, step |-> r.step, plan |-> r.plan, doc |-> r.doc, failed |-> r.failed]
  /\ r.plan \in Plans /\ DocSafe(r.doc) /\ r.failed \in BOOLEAN
  /\ \/ r = NoRun
     \/ r.op = "setup" /\ r.step \in {"remove", "rename", "root", "write root", "include", "unlink", "stub"}
     \/ r.op = "heal" /\ r.step \in {"include", "unlink", "stub"}
     \/ r.op = "repair" /\ r.step \in {"repair", "write repair", "create"}
  /\ r.step = "remove" => r.plan.remove
  /\ r.step = "rename" => r.plan.rename

FileTypes ==
  /\ AtSound(claude) /\ AtSound(agents) /\ ignored \in BOOLEAN
  /\ runOf = [p \in Proc |-> runOf[p]] /\ \A p \in Proc : FileRunShaped(runOf[p])
  /\ runCount \in 0..MaxRuns /\ runFaults \in 0..MaxRunFaults
  /\ bothReal \in BOOLEAN /\ torn \in BOOLEAN /\ raced \in BOOLEAN /\ overtaken \in BOOLEAN /\ settled \in BOOLEAN
  /\ \A own \in owned : own.tail \in BOOLEAN

Writes == {"write root", "write repair"}
Replaces == {"unlink", "stub"}
Clears == {"remove", "rename"}

\* What holds of a run and the files whatever the others do: nobody makes the
\* include file beside a misleading AGENTS.md, nobody writes through a link to a
\* CLAUDE.md that is not there, and what is renamed is a file.
Beside(r, c, a) ==
  /\ r.step \in Replaces => ~Misleading(a)
  /\ r.step \in Writes /\ Across(a) => c.is # "missing"
  /\ r.step = "root" /\ r.plan.mayCreate /\ Misleading(a) => c.is = "dir"
  /\ r.step \in Clears /\ r.plan.rename => c.is \in {"missing", "file"}
\* What is written through the link imports what the file imports.
Through(r, c, a) == r.step \in Writes /\ Across(a) /\ c.is = "file" => (Includes(r.doc) <=> Includes(c.doc))
\* A CLAUDE.md of the project has been there from the beginning.
Ever(r) == r.op = "setup" => /\ r.plan.mayCreate => r.plan.rename
                             /\ r.plan.remove => r.plan.rename
                             /\ r.step = "root" => ~r.plan.mayCreate
Guarded == torn => settled \/ ~raced

Renames == (\E p \in Proc : runOf[p].step = "rename") \/ (raced /\ runFaults > 0)
Sources ==
  /\ ~torn /\ Real(claude) /\ agents.is = "missing" => Renames \/ \A p \in Proc : runOf[p].step \notin Writes \cup {"create"}
  /\ ~torn /\ Real(claude) /\ agents.is = "file" => bothReal \/ (raced /\ Renames)

HeldBy(own, x) == (own.lines = <<>> \/ OwnText(x.doc) = own.lines) /\ (own.tail => Tailed(x.doc))
Bare(x) == OwnText(x.doc) = <<>> /\ ~Has(x.doc, "loose")
Texts ==
  ~torn /\ ~overtaken =>
    /\ \A own \in owned : HeldBy(own, claude) \/ HeldBy(own, agents)
    /\ (\E p \in Proc : runOf[p].step \in Replaces) => \A own \in owned : HeldBy(own, agents)
    /\ (\E p \in Proc : runOf[p].step = "remove") => (agents.is = "link" => Bare(agents))

\* What a setup that has the project for itself has reached.
Clear(c, a, ign) == ~Stands(c, a, ign) /\ ~Misleading(a) /\ ~Real(c)
UpToDate(a) == (a.is = "file" \/ Foreign(a)) /\ Refreshed(a.doc) /\ Has(a.doc, "mark")
Reached(r, c, a, ign) ==
  /\ r.step = "remove" => ~Stands(c, a, ign) /\ Misleading(a) /\ r.plan.mayCreate /\ (r.plan.rename <=> Real(c))
  /\ r.step = "rename" => a.is = "missing" /\ Real(c) /\ ~ign /\ r.plan.mayCreate
  /\ r.step = "root" => Stands(c, a, ign) \/ (Clear(c, a, ign) /\ r.plan.mayCreate)
  /\ r.step = "write root" => Stands(c, a, ign) \/ (Clear(c, a, ign) /\ Refreshed(r.doc) /\ Has(r.doc, "mark"))
  /\ r.step = "include" => Stands(c, a, ign) \/ (Clear(c, a, ign) /\ UpToDate(a))
  /\ r.step = "unlink" => Clear(c, a, ign) /\ UpToDate(a)
  /\ r.step = "stub" => Clear(c, a, ign) /\ UpToDate(a)
Alone ==
  ~raced => /\ \A p, q \in Proc : runOf[p] # NoRun /\ runOf[q] # NoRun => p = q
            /\ \A p \in Proc : runOf[p].op = "setup" /\ ~runOf[p].failed => Reached(runOf[p], claude, agents, ignored)
Paired(c, a) == c.is = "file" /\ Includes(c.doc) /\ UpToDate(a)
Harmless == {"idle", "root", "include", "repair"}
StaysSettled ==
  settled => \/ Stands(claude, agents, ignored) /\ \A p \in Proc : runOf[p].step \notin Clears \cup Replaces
             \/ Paired(claude, agents) /\ \A p \in Proc : runOf[p].step \in Harmless

FilesInv ==
  /\ FileTypes
  /\ \A p \in Proc : Beside(runOf[p], claude, agents)
  /\ Guarded => \A p \in Proc : Through(runOf[p], claude, agents)
  /\ ~torn /\ Real(claude) => \A p \in Proc : Ever(runOf[p])
  /\ Sources /\ Texts /\ NoSelfImport /\ Alone /\ StaysSettled

-----------------------------------------------------------------------------
(* The matrix.                                                              *)
RowIs(c, a) ==
  IF c = "unreadable" \/ a = "unreadable" THEN 1 ELSE IF a = "dir" THEN 2 ELSE IF c = "dir" THEN 3
  ELSE IF c = "foreign" THEN 4 ELSE IF a = "toOther" THEN (IF c = "regular" THEN 5 ELSE 6)
  ELSE IF a = "dangling" THEN 7 ELSE IF a = "foreign" THEN (IF c = "regular" THEN 8 ELSE 9)
  ELSE IF c \in {"regular", "include"} THEN (IF a = "missing" THEN 10 ELSE 11)
  ELSE IF c = "missing" THEN (IF a = "missing" THEN 12 ELSE 13)
  ELSE IF c = "toOther" THEN (IF a = "missing" THEN 15 ELSE 14) ELSE 16

LEMMA MatchIs ==
  ASSUME NEW c \in Kinds, NEW a \in Kinds \ {"include"}
  PROVE  MatchInstructions(c, a) = RowIs(c, a)
  BY DEF MatchInstructions, RowIs, Kinds

LEMMA KindIs ==
  ASSUME NEW x, AtSound(x), NEW isClaude \in BOOLEAN, NEW k, k = KindOf(x, isClaude)
  PROVE  /\ k \in Kinds /\ (~isClaude => k # "include")
         /\ k = "missing" <=> x = Nothing
         /\ k = "missing" <=> x.is = "missing"
         /\ k = "dir" <=> x.is = "dir"
         /\ k = "unreadable" <=> x.is = "unreadable"
         /\ k = "foreign" <=> Foreign(x)
         /\ k \in {"toOther", "dangling"} <=> Misleading(x)
         /\ k = "toOther" <=> x.is = "link" /\ x.to = "toOther"
         /\ k \in {"regular", "include"} <=> x.is = "file"
         /\ isClaude => (k = "regular" <=> Real(x))
<1>1. k = CASE x.is = "link" -> x.to
            [] x.is = "file" -> IF isClaude /\ Includes(x.doc) THEN "include" ELSE "regular"
            [] OTHER -> x.is
  BY DEF KindOf
<1>2. /\ x = At(x.is, x.to, x.doc)
      /\ \/ x.is \in {"missing", "dir", "unreadable"} /\ x.to = "" /\ x.doc = <<>>
         \/ x.is = "file" /\ x.to = ""
         \/ x.is = "link" /\ x.to \in {"toOther", "dangling"} /\ x.doc = <<>>
         \/ x.is = "link" /\ x.to = "foreign"
  BY DEF AtSound, Misleading, Foreign
<1>3. x = Nothing <=> x.is = "missing"
  <2>1. ASSUME x = Nothing PROVE x.is = "missing"
    BY <2>1 DEF Nothing, At
  <2>2. ASSUME x.is = "missing" PROVE x = Nothing
    BY <1>2, <2>2 DEF Nothing
  <2> QED
    BY <2>1, <2>2
<1> HIDE DEF Nothing, Includes, At
<1>4. CASE x.is \in {"missing", "dir", "unreadable"}
  BY <1>1, <1>2, <1>3, <1>4 DEF Kinds, Foreign, Misleading, Real
<1>5. CASE x.is = "file"
  BY <1>1, <1>2, <1>3, <1>5 DEF Kinds, Foreign, Misleading, Real
<1>6. CASE x.is = "link"
  BY <1>1, <1>2, <1>3, <1>6 DEF Kinds, Foreign, Misleading, Real
<1> QED
  BY <1>2, <1>4, <1>5, <1>6

\* What the plan for a pair of kinds says.
StandsBy(c, a, ign) ==
  \/ c \in {"dir", "unreadable", "foreign"} \/ a \in {"dir", "unreadable"}
  \/ c = "regular" /\ (a \in {"regular", "foreign"} \/ ign)
Planned(c, a) == IF MatchInstructions(c, a) \in {6, 7} THEN AfterRemovingAgentsLink(c) ELSE PlanFor(c, a)

LEMMA RowSays ==
  ASSUME NEW row \in 0..16, NEW conflict \in BOOLEAN, NEW remove \in BOOLEAN, NEW rename \in BOOLEAN, ignored \in BOOLEAN,
         NEW p, p = PlanRow(row, conflict, remove, rename)
  PROVE  /\ p \in Plans /\ p.row = row
         /\ p.conflict <=> conflict \/ (rename /\ ignored)
         /\ p.blocked <=> row \in {1, 2, 3}
         /\ p.remove <=> remove /\ ~(conflict \/ (rename /\ ignored))
         /\ p.rename <=> rename /\ ~ignored
         /\ p.mayCreate <=> row \notin {1, 2} /\ ~(conflict \/ (rename /\ ignored))
         /\ p.runs <=> row # 2
<1> DEFINE conf == conflict \/ (rename /\ ignored)
           gone == remove /\ ~conf
           moved == rename /\ ~ignored
           may == row \notin {1, 2} /\ ~conf
           stuck == row \in {1, 2, 3}
           on == row # 2
<1>1. p = [row |-> row, conflict |-> conf, blocked |-> stuck, remove |-> gone, rename |-> moved, mayCreate |-> may, runs |-> on]
  BY DEF PlanRow
<1>2. {conf, gone, moved, may, stuck, on} \subseteq BOOLEAN
  OBVIOUS
<1>3. /\ conf <=> conflict \/ (rename /\ ignored)
      /\ gone <=> remove /\ ~(conflict \/ (rename /\ ignored))
      /\ moved <=> rename /\ ~ignored
      /\ may <=> row \notin {1, 2} /\ ~(conflict \/ (rename /\ ignored))
      /\ stuck <=> row \in {1, 2, 3}
      /\ on <=> row # 2
  OBVIOUS
<1> HIDE DEF conf, gone, moved, may, stuck, on
<1>4. p \in Plans
  BY <1>1, <1>2 DEF Plans
<1>5. p.row = row /\ p.conflict = conf /\ p.blocked = stuck /\ p.remove = gone /\ p.rename = moved /\ p.mayCreate = may /\ p.runs = on
  BY <1>1
<1> QED
  BY <1>3, <1>4, <1>5

LEMMA PlannedIs ==
  ASSUME NEW c \in Kinds, NEW a \in Kinds \ {"include"}, ignored \in BOOLEAN, NEW plan, plan = Planned(c, a)
  PROVE  /\ plan \in Plans
         /\ StandsBy(c, a, ignored) <=> plan.conflict \/ plan.blocked
         /\ StandsBy(c, a, ignored) => ~plan.remove /\ ~plan.rename /\ (plan.mayCreate => c = "dir")
         /\ ~StandsBy(c, a, ignored) => /\ plan.mayCreate /\ plan.runs
                                        /\ plan.remove <=> a \in {"toOther", "dangling"}
                                        /\ plan.rename <=> c = "regular"
<1>1. MatchInstructions(c, a) = RowIs(c, a) /\ MatchInstructions(c, "missing") = RowIs(c, "missing")
  BY MatchIs DEF Kinds
<1> DEFINE row == RowIs(c, a)
<1>2. PlanFor(c, a) = PlanRow(row, row \in {4, 8} \/ (row = 11 /\ c = "regular"), row = 5, row = 5 \/ (row = 10 /\ c = "regular"))
  BY <1>1 DEF PlanFor
<1> DEFINE low == RowIs(c, "missing")
<1>3. PlanFor(c, "missing") = PlanRow(low, low \in {4, 8} \/ (low = 11 /\ c = "regular"), low = 5, low = 5 \/ (low = 10 /\ c = "regular"))
  BY <1>1 DEF PlanFor
<1>4. row \in 1..16 /\ low \in 1..16
  BY DEF RowIs
<1>5. CASE row \notin {6, 7}
  <2>1. plan = PlanRow(row, row \in {4, 8} \/ (row = 11 /\ c = "regular"), row = 5, row = 5 \/ (row = 10 /\ c = "regular"))
    BY <1>1, <1>2, <1>5 DEF Planned
  <2> DEFINE conflict == row \in {4, 8} \/ (row = 11 /\ c = "regular")
             rename == row = 5 \/ (row = 10 /\ c = "regular")
             conf == conflict \/ (rename /\ ignored)
  <2>2. plan = [row |-> row, conflict |-> conf, blocked |-> row \in {1, 2, 3},
                remove |-> row = 5 /\ ~conf, rename |-> rename /\ ~ignored,
                mayCreate |-> row \notin {1, 2} /\ ~conf, runs |-> row # 2]
    BY <2>1 DEF PlanRow
  <2>3. /\ row \in {1, 2, 3, 4} <=> (c \in {"dir", "unreadable", "foreign"} \/ a \in {"dir", "unreadable"})
        /\ row = 3 => c = "dir"
        /\ row = 4 => c = "foreign"
        /\ row = 5 <=> c = "regular" /\ a = "toOther"
        /\ row = 8 <=> c = "regular" /\ a = "foreign"
        /\ row = 10 /\ c = "regular" <=> c = "regular" /\ a = "missing"
        /\ row = 11 /\ c = "regular" <=> c = "regular" /\ a = "regular"
        /\ a \notin {"dangling"} \/ row \in {1, 2, 3, 4}
        /\ a = "toOther" => row \in {1, 2, 3, 4, 5}
    BY <1>5 DEF RowIs, Kinds
  <2>4. plan.conflict = conf /\ plan.blocked = (row \in {1, 2, 3}) /\ plan.remove = (row = 5 /\ ~conf)
        /\ plan.rename = (rename /\ ~ignored) /\ plan.mayCreate = (row \notin {1, 2} /\ ~conf) /\ plan.runs = (row # 2)
    BY <2>2
  <2>5. plan \in Plans
    BY <2>2, <1>4 DEF Plans
  <2> HIDE DEF row
  <2>6. StandsBy(c, a, ignored) <=> row \in {1, 2, 3, 4, 8} \/ (row = 11 /\ c = "regular") \/ (rename /\ ignored)
    BY <2>3 DEF Kinds, StandsBy
  <2>7. StandsBy(c, a, ignored) <=> plan.conflict \/ plan.blocked
    BY <2>4, <2>6
  <2>8. StandsBy(c, a, ignored) => ~plan.remove /\ ~plan.rename /\ (plan.mayCreate => c = "dir")
    BY <2>3, <2>4, <2>6
  <2>9. ASSUME ~StandsBy(c, a, ignored)
        PROVE  /\ plan.mayCreate /\ plan.runs
               /\ plan.remove <=> a \in {"toOther", "dangling"}
               /\ plan.rename <=> c = "regular"
    BY <2>4, <2>6, <2>9, <2>3 DEF Kinds, StandsBy
  <2> QED
    BY <2>5, <2>7, <2>8, <2>9
<1>6. CASE row \in {6, 7}
  <2>1. plan = AfterRemovingAgentsLink(c)
    BY <1>1, <1>6 DEF Planned
  <2>2. /\ a \in {"toOther", "dangling"} /\ c \in {"missing", "toOther", "dangling", "include", "regular"}
        /\ c = "regular" => a = "dangling"
    BY <1>6 DEF RowIs, Kinds
  <2>3. /\ low \in {10, 12, 15, 16}
        /\ c \in {"regular", "include"} <=> low = 10
    BY <2>2 DEF RowIs
  <2> DEFINE rename == low = 10 /\ c = "regular"
             conf == rename /\ ignored
  <2> HIDE DEF low, row
  <2> DEFINE before == PlanFor(c, "missing")
  <2>4. /\ before \in Plans
        /\ ~before.blocked /\ before.runs
        /\ before.conflict <=> conf
        /\ before.rename <=> rename /\ ~ignored
        /\ before.mayCreate <=> ~conf
    <3>1. before = PlanRow(low, FALSE, FALSE, rename)
      <4>1. (low \in {4, 8} \/ (low = 11 /\ c = "regular")) = FALSE /\ (low = 5) = FALSE /\ (low = 5 \/ (low = 10 /\ c = "regular")) = rename
        BY <2>3
      <4> QED
        BY <1>3, <4>1
    <3>2. low \in 0..16 /\ rename \in BOOLEAN
      BY <1>4
    <3> HIDE DEF rename, before
    <3>3. /\ before \in Plans
          /\ before.conflict <=> FALSE \/ (rename /\ ignored)
          /\ before.blocked <=> low \in {1, 2, 3}
          /\ before.rename <=> rename /\ ~ignored
          /\ before.mayCreate <=> low \notin {1, 2} /\ ~(FALSE \/ (rename /\ ignored))
          /\ before.runs <=> low # 2
      BY <3>1, <3>2, RowSays
    <3> QED
      BY <2>3, <3>3
  <2> HIDE DEF before
  <2>5. /\ plan \in Plans
        /\ ~plan.blocked /\ plan.runs
        /\ plan.conflict <=> conf
        /\ plan.remove <=> ~conf
        /\ plan.rename <=> rename /\ ~ignored
        /\ plan.mayCreate <=> ~conf
    BY <2>1, <2>4 DEF AfterRemovingAgentsLink, before, Plans
  <2>6. StandsBy(c, a, ignored) <=> conf
    BY <2>2, <2>3 DEF StandsBy
  <2>7. rename <=> c = "regular"
    BY <2>3
  <2> HIDE DEF rename
  <2>8. /\ StandsBy(c, a, ignored) <=> plan.conflict \/ plan.blocked
        /\ StandsBy(c, a, ignored) => ~plan.remove /\ ~plan.rename /\ ~plan.mayCreate
        /\ ~StandsBy(c, a, ignored) => plan.mayCreate /\ plan.runs /\ plan.remove /\ (plan.rename <=> c = "regular")
    BY <2>5, <2>6, <2>7
  <2> QED
    BY <2>2, <2>5, <2>8
<1> QED
  BY <1>5, <1>6

LEMMA PlanIs ==
  ASSUME AtSound(claude), AtSound(agents), ignored \in BOOLEAN, NEW plan, plan = ClassifyInstructions
  PROVE  /\ plan \in Plans
         /\ Stands(claude, agents, ignored) <=> plan.conflict \/ plan.blocked
         /\ Stands(claude, agents, ignored) => ~plan.remove /\ ~plan.rename /\ (plan.mayCreate => claude.is = "dir")
         /\ ~Stands(claude, agents, ignored) => /\ plan.mayCreate /\ plan.runs
                                                /\ plan.remove <=> Misleading(agents)
                                                /\ plan.rename <=> Real(claude)
<1> DEFINE c == KindOf(claude, TRUE)  a == KindOf(agents, FALSE)
<1>1. /\ c \in Kinds
      /\ c = "dir" <=> claude.is = "dir"
      /\ c = "unreadable" <=> claude.is = "unreadable"
      /\ c = "foreign" <=> Foreign(claude)
      /\ c = "regular" <=> Real(claude)
  BY KindIs
<1>2. /\ a \in Kinds \ {"include"}
      /\ a = "dir" <=> agents.is = "dir"
      /\ a = "unreadable" <=> agents.is = "unreadable"
      /\ a = "foreign" <=> Foreign(agents)
      /\ a \in {"toOther", "dangling"} <=> Misleading(agents)
      /\ a \in {"regular", "include"} <=> agents.is = "file"
  BY KindIs
<1>3. plan = Planned(c, a)
  BY DEF ClassifyInstructions, Planned
<1> HIDE DEF c, a
<1>4. Stands(claude, agents, ignored) <=> StandsBy(c, a, ignored)
  BY <1>1, <1>2 DEF Stands, StandsBy
<1> QED
  BY <1>1, <1>2, <1>3, <1>4, PlannedIs

-----------------------------------------------------------------------------
(* The run of one process takes a turn.                                     *)
RunOf(op, step, plan, doc, failed) == [op |-> op, step |-> step, plan |-> plan, doc |-> doc, failed |-> failed]
Turned(p, r) == runOf' = [q \in Proc |-> IF q = p THEN r ELSE runOf[q]]

LEMMA TurnIs ==
  ASSUME NEW p \in Proc, NEW r, Turned(p, r)
  PROVE  runOf' = [q \in Proc |-> runOf'[q]] /\ runOf'[p] = r /\ \A q \in Proc : q # p => runOf'[q] = runOf[q]
BY DEF Turned

LEMMA RunFields ==
  ASSUME NEW op, NEW step, NEW plan, NEW doc, NEW failed, NEW r, r = RunOf(op, step, plan, doc, failed)
  PROVE  /\ r.op = op /\ r.step = step /\ r.plan = plan /\ r.doc = doc /\ r.failed = failed
         /\ r = [op |-> r.op, step |-> r.step, plan |-> r.plan, doc |-> r.doc, failed |-> r.failed]
BY DEF RunOf

LEMMA IdleIs ==
  /\ NoRun.op = "none" /\ NoRun.step = "idle" /\ NoRun.plan = NoPlan /\ NoRun.doc = <<>> /\ NoRun.failed = FALSE
  /\ NoRun = RunOf("none", "idle", NoPlan, <<>>, FALSE)
BY DEF NoRun, RunOf

LEMMA Altered ==
  ASSUME NEW op, NEW step, NEW plan, NEW doc, NEW failed, NEW s, NEW x, NEW l, NEW f, NEW t,
         t = [op |-> op, step |-> step, plan |-> plan, doc |-> doc, failed |-> failed]
  PROVE  /\ f = [t EXCEPT !.step = s] => f = [op |-> op, step |-> s, plan |-> plan, doc |-> doc, failed |-> failed]
         /\ f = [t EXCEPT !.step = s, !.doc = x] => f = [op |-> op, step |-> s, plan |-> plan, doc |-> x, failed |-> failed]
         /\ f = [t EXCEPT !.step = s, !.failed = TRUE, !.plan = l] =>
              f = [op |-> op, step |-> s, plan |-> l, doc |-> doc, failed |-> TRUE]
  OBVIOUS

LEMMA Turns ==
  ASSUME NEW p \in Proc, runOf = [q \in Proc |-> runOf[q]], NEW op, NEW step, NEW plan, NEW doc, NEW failed,
         runOf[p] = RunOf(op, step, plan, doc, failed)
  PROVE  /\ \A s : Step(p, s) => Turned(p, RunOf(op, s, plan, doc, failed))
         /\ \A s, x : runOf' = [runOf EXCEPT ![p].step = s, ![p].doc = x] => Turned(p, RunOf(op, s, plan, x, failed))
         /\ \A s : FailTo(p, s) => Turned(p, RunOf(op, s, [plan EXCEPT !.mayCreate = FALSE], doc, TRUE))
         /\ EndRun(p) => Turned(p, NoRun)
<1> DEFINE o == runOf[p]
<1>1. o = [op |-> op, step |-> step, plan |-> plan, doc |-> doc, failed |-> failed]
  BY DEF RunOf
<1>5. ASSUME NEW r, runOf' = [runOf EXCEPT ![p] = r] PROVE Turned(p, r)
  BY <1>5 DEF Turned
<1>6. ASSUME NEW s, Step(p, s) PROVE Turned(p, RunOf(op, s, plan, doc, failed))
  <2>1. PICK f : f = [o EXCEPT !.step = s]
    OBVIOUS
  <2>2. runOf' = [runOf EXCEPT ![p] = f]
    BY <1>6, <2>1 DEF Step
  <2> HIDE DEF o
  <2>3. f = RunOf(op, s, plan, doc, failed)
    BY <1>1, <2>1, Altered DEF RunOf
  <2> QED
    BY <1>5, <2>2, <2>3
<1>7. ASSUME NEW s, NEW x, runOf' = [runOf EXCEPT ![p].step = s, ![p].doc = x]
      PROVE  Turned(p, RunOf(op, s, plan, x, failed))
  <2>1. PICK f : f = [o EXCEPT !.step = s, !.doc = x]
    OBVIOUS
  <2>2. runOf' = [runOf EXCEPT ![p] = f]
    BY <1>7, <2>1
  <2> HIDE DEF o
  <2>3. f = RunOf(op, s, plan, x, failed)
    BY <1>1, <2>1, Altered DEF RunOf
  <2> QED
    BY <1>5, <2>2, <2>3
<1>8. ASSUME NEW s, FailTo(p, s) PROVE Turned(p, RunOf(op, s, [plan EXCEPT !.mayCreate = FALSE], doc, TRUE))
  <2>1. PICK f : f = [o EXCEPT !.step = s, !.failed = TRUE, !.plan = [o.plan EXCEPT !.mayCreate = FALSE]]
    OBVIOUS
  <2>2. runOf' = [runOf EXCEPT ![p] = f]
    BY <1>1, <1>8, <2>1 DEF FailTo
  <2>4. o.plan = plan
    BY <1>1
  <2>5. PICK l : l = [plan EXCEPT !.mayCreate = FALSE]
    OBVIOUS
  <2> HIDE DEF o
  <2>6. f = [o EXCEPT !.step = s, !.failed = TRUE, !.plan = l]
    BY <2>1, <2>4, <2>5
  <2>3. f = RunOf(op, s, l, doc, TRUE)
    BY <1>1, <2>6, Altered DEF RunOf
  <2> QED
    BY <1>5, <2>2, <2>3, <2>5
<1>9. EndRun(p) => Turned(p, NoRun)
  BY <1>5 DEF EndRun
<1> QED
  BY <1>6, <1>7, <1>8, <1>9

LEMMA IdleShaped == FileRunShaped(NoRun)
<1>1. DocSafe(<<>>)
  BY FixedDocs
<1>2. NoPlan \in Plans
  BY DEF NoPlan, Plans
<1> HIDE DEF NoPlan
<1> QED
  BY <1>1, <1>2, IdleIs DEF FileRunShaped, RunOf

\* A failed run creates nothing any more.
LEMMA FailedPlan ==
  ASSUME NEW l \in Plans, NEW m, m = [l EXCEPT !.mayCreate = FALSE]
  PROVE  m \in Plans /\ ~m.mayCreate /\ m.rename = l.rename /\ m.remove = l.remove
BY DEF Plans

-----------------------------------------------------------------------------
(* What a step has to respect so that the invariant goes on to hold.        *)
Frames(p, r) ==
  /\ Turned(p, r) /\ FileRunShaped(r) /\ AtSound(claude') /\ AtSound(agents')
  /\ UNCHANGED <<ignored, owned, bothReal>>
  /\ runCount' \in 0..MaxRuns /\ runFaults' \in 0..MaxRunFaults /\ runFaults' >= runFaults
  /\ torn' \in BOOLEAN /\ overtaken' \in BOOLEAN /\ settled' \in BOOLEAN /\ raced' \in BOOLEAN
  /\ (torn => torn') /\ (overtaken => overtaken')
  /\ raced' <=> raced \/ (runOf[p] = NoRun /\ ~AllIdle)
\* The files move so that what the others rely on stays.
Moves(p) ==
  /\ Misleading(agents') => agents' = agents /\ claude'.is = claude.is
  /\ claude.is \in {"missing", "file"} => claude'.is \in {"missing", "file"}
  /\ Guarded' /\ (\E q \in Proc : q # p /\ runOf[q] # NoRun) /\ Across(agents') /\ claude'.is = "file"
       => (Includes(claude'.doc) <=> Includes(claude.doc))
  /\ ~torn' /\ Real(claude') => Real(claude)
SuitsRun(r) ==
  /\ Beside(r, claude', agents')
  /\ Guarded' => Through(r, claude', agents')
  /\ ~torn' /\ Real(claude') => Ever(r)
KeepsSources(p, r) ==
  /\ ~torn' /\ Real(claude') /\ agents'.is = "missing" =>
       r.step = "rename" \/ (agents.is = "missing" /\ r.step \notin Writes \cup {"create"})
  /\ ~torn' /\ Real(claude') /\ agents'.is = "file" =>
       agents.is = "file" \/ (agents.is = "missing" /\ runOf[p].step \in Writes \cup {"create"})
  /\ runOf[p].step = "rename" /\ r.step # "rename" /\ Real(claude') => runFaults' > 0
KeepsTexts(r) ==
  ~torn' /\ ~overtaken' =>
    /\ \A own \in owned : HeldBy(own, claude') \/ HeldBy(own, agents')
    /\ \A own \in owned : HeldBy(own, agents) => HeldBy(own, agents')
    /\ r.step \in Replaces => \A own \in owned : HeldBy(own, agents')
    /\ agents'.is = "link" => agents.is = "link" /\ (Bare(agents) => Bare(agents')) /\ (r.step = "remove" => Bare(agents'))
KeepsAlone(r) == ~raced' /\ r.op = "setup" /\ ~r.failed => Reached(r, claude', agents', ignored)
KeepsSettled(p, r) ==
  settled' =>
    /\ ~settled => /\ ~raced /\ runOf[p] # NoRun /\ r = NoRun
                   /\ Stands(claude', agents', ignored) \/ Paired(claude', agents')
    /\ settled /\ Stands(claude, agents, ignored) /\ runOf[p].step \notin Clears \cup Replaces =>
         Stands(claude', agents', ignored) /\ r.step \notin Clears \cup Replaces
    /\ settled /\ Paired(claude, agents) /\ runOf[p].step \in Harmless => Paired(claude', agents') /\ r.step \in Harmless

LEMMA Assembles ==
  ASSUME FilesInv, NEW p \in Proc, NEW r, Frames(p, r), Moves(p), SuitsRun(r), KeepsSources(p, r), KeepsTexts(r),
         NoSelfImport', KeepsAlone(r), KeepsSettled(p, r)
  PROVE  FilesInv'
<1>1. /\ runOf' = [q \in Proc |-> runOf'[q]]
      /\ runOf'[p] = r
      /\ \A q \in Proc : q # p => runOf'[q] = runOf[q]
  BY TurnIs DEF Frames
<1>2. FileTypes /\ (\A q \in Proc : FileRunShaped(runOf[q])) /\ raced \in BOOLEAN /\ settled \in BOOLEAN /\ torn \in BOOLEAN
      /\ overtaken \in BOOLEAN /\ bothReal \in BOOLEAN /\ runFaults \in Nat
  BY FilesAssumption DEF FilesInv, FileTypes
<1>3. FileTypes'
  BY <1>1, <1>2 DEF FileTypes, Frames
<1>4. /\ ignored' = ignored /\ owned' = owned /\ bothReal' = bothReal
      /\ (torn => torn') /\ (overtaken => overtaken')
      /\ raced' <=> raced \/ (runOf[p] = NoRun /\ ~AllIdle)
      /\ runFaults' \in Nat /\ runFaults' >= runFaults
      /\ torn' \in BOOLEAN /\ overtaken' \in BOOLEAN /\ settled' \in BOOLEAN /\ raced' \in BOOLEAN
  BY FilesAssumption DEF Frames
<1>5. \A q \in Proc : Beside(runOf'[q], claude', agents')
  BY <1>1 DEF SuitsRun, FilesInv, Moves, Across, Misleading, Beside
<1>6. Guarded' => Guarded
  BY <1>2, <1>4 DEF Guarded, KeepsSettled
<1>7. Guarded' => \A q \in Proc : Through(runOf'[q], claude', agents')
  BY <1>1, <1>6, IdleIs DEF SuitsRun, FilesInv, Moves, Across, Misleading, Writes, Through
<1>8. ~torn' /\ Real(claude') => \A q \in Proc : Ever(runOf'[q])
  BY <1>1, <1>4 DEF SuitsRun, Moves, FilesInv
<1>9. \A q, s \in Proc : ~raced' /\ runOf'[q] # NoRun /\ runOf'[s] # NoRun => q = s
  BY <1>4, <1>1 DEF FilesInv, Alone, AllIdle
<1>10. \A q, s \in Proc : q # s /\ runOf[q] # NoRun /\ runOf[s] # NoRun => raced
  BY <1>2 DEF FilesInv, Alone
<1>11. \A q, s \in Proc : q # s /\ runOf'[q] # NoRun /\ runOf'[s] # NoRun => raced'
  BY <1>4, <1>9
<1>12. \A q \in Proc : runOf'[q].step \in Writes \cup {"create", "rename"} => runOf'[q] # NoRun
  BY IdleIs DEF Writes
<1>13. Sources'
  <2>1. ASSUME ~torn', Real(claude'), agents'.is = "missing", NEW q \in Proc, runOf'[q].step \in Writes \cup {"create"},
               \A s \in Proc : runOf'[s].step # "rename"
        PROVE  raced' /\ runFaults' > 0
    <3>1. r.step # "rename"
      BY <1>1, <2>1
    <3>2. agents.is = "missing" /\ r.step \notin Writes \cup {"create"}
      BY <2>1, <3>1 DEF KeepsSources
    <3>3. q # p /\ runOf[q].step \in Writes \cup {"create"}
      BY <1>1, <2>1, <3>2
    <3>4. ~torn /\ Real(claude)
      BY <1>4, <2>1 DEF Moves
    <3>5. Renames
      BY <3>2, <3>3, <3>4 DEF FilesInv, Sources
    <3>6. CASE raced /\ runFaults > 0
      BY <1>2, <1>4, <3>6
    <3>7. CASE \E s \in Proc : runOf[s].step = "rename"
      BY <3>7, <1>1, <2>1, <3>1, <3>3, IdleIs, <1>4, <1>10 DEF KeepsSources, Writes
    <3> QED
      BY <3>5, <3>6, <3>7 DEF Renames
  <2>2. ASSUME ~torn', Real(claude'), agents'.is = "file", ~bothReal
        PROVE  raced' /\ Renames'
    <3>1. ~torn /\ Real(claude)
      BY <1>4, <2>2 DEF Moves
    <3>2. raced /\ Renames
      <4>1. CASE agents.is = "file"
        BY <2>2, <3>1, <4>1 DEF FilesInv, Sources
      <4>2. CASE agents.is = "missing" /\ runOf[p].step \in Writes \cup {"create"}
        BY <3>1, <4>2, IdleIs, <1>10 DEF FilesInv, Sources, Writes, Renames
      <4> QED
        BY <2>2, <4>1, <4>2 DEF KeepsSources
    <3>3. CASE runFaults > 0
      BY <1>2, <1>4, <3>2, <3>3 DEF Renames
    <3>4. CASE \E s \in Proc : runOf[s].step = "rename"
      BY <3>4, <1>1, <1>4, <3>2, <2>2 DEF Renames, KeepsSources
    <3> QED
      BY <3>2, <3>3, <3>4 DEF Renames
  <2>3. ~torn' /\ Real(claude') /\ agents'.is = "missing" => Renames' \/ \A q \in Proc : runOf'[q].step \notin Writes \cup {"create"}
    BY <2>1 DEF Renames
  <2>4. ~torn' /\ Real(claude') /\ agents'.is = "file" => bothReal' \/ (raced' /\ Renames')
    BY <1>4, <2>2
  <2> QED
    BY <2>3, <2>4 DEF Sources
<1>14. Texts'
  <2> SUFFICES ASSUME ~torn', ~overtaken'
               PROVE  /\ \A own \in owned : HeldBy(own, claude') \/ HeldBy(own, agents')
                      /\ (\E q \in Proc : runOf'[q].step \in Replaces) => \A own \in owned : HeldBy(own, agents')
                      /\ (\E q \in Proc : runOf'[q].step = "remove") => (agents'.is = "link" => Bare(agents'))
    BY <1>4 DEF Texts
  <2>1. ~torn /\ ~overtaken
    BY <1>4
  <2>2. \A own \in owned : HeldBy(own, claude') \/ HeldBy(own, agents')
    BY DEF KeepsTexts
  <2>3. ASSUME NEW q \in Proc, runOf'[q].step \in Replaces, NEW own \in owned PROVE HeldBy(own, agents')
    BY <1>1, <2>3, <2>1 DEF KeepsTexts, FilesInv, Texts
  <2>4. ASSUME NEW q \in Proc, runOf'[q].step = "remove", agents'.is = "link" PROVE Bare(agents')
    BY <1>1, <2>4, <2>1 DEF KeepsTexts, FilesInv, Texts
  <2> QED
    BY <2>2, <2>3, <2>4
<1>15. Alone'
  BY <1>9, <1>1, <1>4, IdleIs, <1>10 DEF Alone, KeepsAlone, AllIdle
<1>16. StaysSettled'
  BY <1>4, <1>1, <1>10, IdleIs DEF StaysSettled, KeepsSettled, Clears, Replaces, Harmless, FilesInv
<1> QED
  BY <1>3, <1>5, <1>7, <1>8, <1>13, <1>14, <1>15, <1>16 DEF FilesInv

-----------------------------------------------------------------------------
LEMMA FilesFacts ==
  ASSUME FilesInv
  PROVE  /\ AtSound(claude) /\ AtSound(agents) /\ ignored \in BOOLEAN
         /\ runOf = [p \in Proc |-> runOf[p]] /\ \A p \in Proc : FileRunShaped(runOf[p])
         /\ runCount \in 0..MaxRuns /\ runFaults \in 0..MaxRunFaults /\ runFaults \in Nat /\ runCount \in Nat
         /\ torn \in BOOLEAN /\ raced \in BOOLEAN /\ overtaken \in BOOLEAN /\ settled \in BOOLEAN
BY FilesAssumption DEF FilesInv, FileTypes

LEMMA FaultIs ==
  ASSUME RunFault, runFaults \in 0..MaxRunFaults
  PROVE  runFaults' \in 0..MaxRunFaults /\ runFaults' >= runFaults /\ runFaults' > 0
BY FilesAssumption DEF RunFault

LEMMA SameFaults ==
  ASSUME runFaults' = runFaults, runFaults \in 0..MaxRunFaults
  PROVE  runFaults' \in 0..MaxRunFaults /\ runFaults' >= runFaults
BY FilesAssumption

LEMMA ShapedTurn ==
  ASSUME NEW op, NEW step, NEW plan \in Plans, NEW doc, DocSafe(doc), NEW failed \in BOOLEAN, NEW r, r = RunOf(op, step, plan, doc, failed),
         \/ op = "setup" /\ step \in {"remove", "rename", "root", "write root", "include", "unlink", "stub"}
         \/ op = "heal" /\ step \in {"include", "unlink", "stub"}
         \/ op = "repair" /\ step \in {"repair", "write repair", "create"},
         step = "remove" => plan.remove, step = "rename" => plan.rename
  PROVE  FileRunShaped(r)
  BY DEF RunOf, FileRunShaped

\* A step that leaves the files as they are.
Quiet == claude' = claude /\ agents' = agents /\ torn' = torn /\ overtaken' = overtaken
QuietFrames(p, r) ==
  /\ Turned(p, r) /\ FileRunShaped(r) /\ Quiet /\ UNCHANGED <<ignored, owned, bothReal>>
  /\ runCount' \in 0..MaxRuns /\ runFaults' \in 0..MaxRunFaults /\ runFaults' >= runFaults /\ settled' \in BOOLEAN
  /\ raced' \in BOOLEAN /\ (raced' <=> raced \/ (runOf[p] = NoRun /\ ~AllIdle))
QuietFits(r) ==
  /\ Beside(r, claude, agents) /\ Through(r, claude, agents)
  /\ ~torn /\ Real(claude) => Ever(r)
  /\ ~torn /\ Real(claude) /\ agents.is = "missing" => r.step \notin Writes \cup {"create"}
QuietTexts(r) ==
  ~torn /\ ~overtaken => /\ r.step \in Replaces => \A own \in owned : HeldBy(own, agents)
                         /\ agents.is = "link" /\ r.step = "remove" => Bare(agents)
QuietAlone(r) == ~raced' /\ r.op = "setup" /\ ~r.failed => Reached(r, claude, agents, ignored)
QuietSettled(p, r) ==
  settled' =>
    /\ ~settled => /\ ~raced /\ runOf[p] # NoRun /\ r = NoRun
                   /\ Stands(claude, agents, ignored) \/ Paired(claude, agents)
    /\ settled /\ Stands(claude, agents, ignored) /\ runOf[p].step \notin Clears \cup Replaces => r.step \notin Clears \cup Replaces
    /\ settled /\ Paired(claude, agents) /\ runOf[p].step \in Harmless => r.step \in Harmless

LEMMA QuietKeeps ==
  ASSUME FilesInv, NEW p \in Proc, NEW r, QuietFrames(p, r), QuietFits(r), QuietTexts(r), QuietAlone(r), QuietSettled(p, r),
         runOf[p].step = "rename" /\ r.step # "rename" /\ Real(claude) => runFaults' > 0
  PROVE  FilesInv'
<1>1. claude' = claude /\ agents' = agents /\ torn' = torn /\ overtaken' = overtaken /\ ignored' = ignored
  BY DEF QuietFrames, Quiet
<1>2. AtSound(claude) /\ AtSound(agents) /\ torn \in BOOLEAN /\ overtaken \in BOOLEAN
  BY FilesFacts
<1>3. Frames(p, r)
  BY <1>1, <1>2 DEF Frames, QuietFrames
<1>4. Moves(p)
  BY <1>1 DEF Moves
<1>5. SuitsRun(r)
  BY <1>1 DEF SuitsRun, QuietFits
<1>6. KeepsSources(p, r)
  BY <1>1 DEF KeepsSources, QuietFits
<1>7. KeepsTexts(r)
  BY <1>1 DEF KeepsTexts, QuietTexts, FilesInv, Texts
<1>8. NoSelfImport'
  BY <1>1 DEF FilesInv, NoSelfImport
<1>9. KeepsAlone(r)
  BY <1>1 DEF KeepsAlone, QuietAlone
<1>10. KeepsSettled(p, r)
  BY <1>1 DEF KeepsSettled, QuietSettled
<1> QED
  BY <1>3, <1>4, <1>5, <1>6, <1>7, <1>8, <1>9, <1>10, Assembles

\* A run ends and leaves the files as they are.
LEMMA EndKeeps ==
  ASSUME FilesInv, NEW p \in Proc, EndRun(p), Quiet, UNCHANGED <<ignored, owned, bothReal, runCount>>, raced' = raced,
         runFaults' \in 0..MaxRunFaults, runFaults' >= runFaults, runOf[p] # NoRun, settled' \in BOOLEAN,
         settled' => settled \/ (~raced /\ (Stands(claude, agents, ignored) \/ Paired(claude, agents))),
         runOf[p].step = "rename" /\ Real(claude) => runFaults' > 0
  PROVE  FilesInv'
<1>1. PICK r : r = NoRun
  OBVIOUS
<1>2. /\ runOf = [q \in Proc |-> runOf[q]] /\ FileRunShaped(runOf[p]) /\ runCount' \in 0..MaxRuns /\ raced \in BOOLEAN
  BY FilesFacts
<1>3. Turned(p, r)
  BY <1>2, <1>1, Turns DEF FileRunShaped, RunOf
<1>4. r.step = "idle" /\ r.op = "none"
  BY <1>1, IdleIs
<1>5. FileRunShaped(r)
  BY <1>1, IdleShaped
<1>6. QuietFrames(p, r)
  BY <1>2, <1>3, <1>5 DEF QuietFrames
<1>7. QuietFits(r)
  BY <1>4 DEF QuietFits, Beside, Through, Ever, Replaces, Writes, Clears
<1>8. QuietTexts(r)
  BY <1>4 DEF QuietTexts, Replaces
<1>9. QuietAlone(r)
  BY <1>4 DEF QuietAlone
<1>10. QuietSettled(p, r)
  BY <1>1, <1>4 DEF QuietSettled, Clears, Replaces, Harmless
<1> QED
  BY <1>6, <1>7, <1>8, <1>9, <1>10, QuietKeeps

LEMMA KillKeeps ==
  ASSUME FilesInv, NEW p \in Proc, RunKilled(p)
  PROVE  FilesInv'
  BY FaultIs, FilesFacts, EndKeeps DEF RunKilled, FilesStay, Frame, Quiet

-----------------------------------------------------------------------------
LEMMA NewRun ==
  ASSUME NEW op, NEW plan, NEW step, NEW f
  PROVE  /\ f = [NoRun EXCEPT !.op = op, !.plan = plan, !.step = step] => f = RunOf(op, step, plan, <<>>, FALSE)
         /\ f = [NoRun EXCEPT !.op = op, !.step = step] => f = RunOf(op, step, NoPlan, <<>>, FALSE)
  BY DEF NoRun, RunOf

LEMMA MissingIs == ASSUME NEW x, AtSound(x) PROVE (x.is = "missing" <=> x = Nothing) /\ ~Misleading(Nothing) /\ Nothing.is = "missing" /\ Nothing.doc = <<>>
<1>1. ~Misleading(Nothing) /\ Nothing.is = "missing" /\ Nothing.doc = <<>>
  BY DEF Nothing, At, Misleading
<1>2. x.is = "missing" => x = Nothing
  BY DEF AtSound, Nothing, Misleading, Foreign
<1> QED
  BY <1>1, <1>2

LEMMA BeginKeeps ==
  ASSUME FilesInv, NEW p \in Proc, BeginRun(p)
  PROVE  FilesInv'
<1>1. /\ runOf[p] = NoRun /\ runCount < MaxRuns /\ runCount' = runCount + 1
      /\ raced' = (raced \/ ~AllIdle)
      /\ Quiet /\ UNCHANGED <<ignored, owned, bothReal>> /\ runFaults' = runFaults /\ settled' = settled
  BY DEF BeginRun, FilesStay, Quiet
<1>2. /\ AtSound(claude) /\ AtSound(agents) /\ ignored \in BOOLEAN /\ runOf = [q \in Proc |-> runOf[q]]
      /\ runCount \in Nat /\ runFaults \in 0..MaxRunFaults /\ raced \in BOOLEAN /\ settled \in BOOLEAN
  BY FilesFacts
<1>3. /\ runCount' \in 0..MaxRuns /\ runFaults' \in 0..MaxRunFaults /\ runFaults' >= runFaults
  BY <1>1, <1>2, SameFaults, FilesAssumption
<1>4. runOf[p].step = "idle"
  BY <1>1, IdleIs
<1>5. DocSafe(<<>>)
  BY FixedDocs
<1>6. ASSUME NEW r, runOf' = [runOf EXCEPT ![p] = r], FileRunShaped(r) PROVE QuietFrames(p, r)
  BY <1>2, <1>6, <1>1, <1>3 DEF Turned, QuietFrames
<1>7. ASSUME NEW op, NEW step, runOf' = [runOf EXCEPT ![p] = [NoRun EXCEPT !.op = op, !.step = step]],
             (op = "repair" /\ step = "repair") \/ (op = "heal" /\ step = "include")
      PROVE  FilesInv'
  <2>1. PICK r : r = [NoRun EXCEPT !.op = op, !.step = step]
    OBVIOUS
  <2>2. r = RunOf(op, step, NoPlan, <<>>, FALSE)
    BY <2>1, NewRun
  <2>3. r.op = op /\ r.step = step
    BY <2>2 DEF RunOf
  <2>4. NoPlan \in Plans
    BY DEF NoPlan, Plans
  <2>5. FileRunShaped(r)
    BY <1>7, <1>5, <2>2, <2>4, ShapedTurn
  <2>6. QuietFrames(p, r)
    BY <1>6, <1>7, <2>1, <2>5
  <2>7. r.step \in {"repair", "include"} /\ r.op # "setup"
    BY <1>7, <2>3
  <2>8. QuietFits(r)
    BY <2>7 DEF QuietFits, Beside, Through, Ever, Replaces, Writes, Clears
  <2>9. QuietTexts(r)
    BY <2>7 DEF QuietTexts, Replaces
  <2>10. QuietAlone(r)
    BY <2>7 DEF QuietAlone
  <2>11. QuietSettled(p, r)
    BY <1>1, <2>7 DEF QuietSettled, Clears, Replaces, Harmless
  <2> QED
    BY <1>4, <2>6, <2>8, <2>9, <2>10, <2>11, QuietKeeps
<1>8. ASSUME NEW plan, plan = ClassifyInstructions, NEW step,
             step = CASE plan.remove -> "remove" [] ~plan.remove /\ plan.rename -> "rename"
                      [] OTHER -> IF plan.runs THEN "root" ELSE "include",
             runOf' = [runOf EXCEPT ![p] = [NoRun EXCEPT !.op = "setup", !.plan = plan, !.step = step]]
      PROVE  FilesInv'
  <2>1. PICK r : r = [NoRun EXCEPT !.op = "setup", !.plan = plan, !.step = step]
    OBVIOUS
  <2>2. r = RunOf("setup", step, plan, <<>>, FALSE)
    BY <2>1, NewRun
  <2>3. r.op = "setup" /\ r.step = step /\ r.plan = plan /\ r.failed = FALSE
    BY <2>2 DEF RunOf
  <2>4. /\ plan \in Plans
        /\ Stands(claude, agents, ignored) => ~plan.remove /\ ~plan.rename /\ (plan.mayCreate => claude.is = "dir")
        /\ ~Stands(claude, agents, ignored) => /\ plan.mayCreate /\ plan.runs
                                               /\ plan.remove <=> Misleading(agents)
                                               /\ plan.rename <=> Real(claude)
    BY <1>2, <1>8, PlanIs
  <2>5. /\ step \in {"remove", "rename", "root", "include"}
        /\ step = "remove" => plan.remove
        /\ step = "rename" => plan.rename /\ ~plan.remove
        /\ step = "root" => ~plan.rename /\ ~plan.remove
        /\ step = "include" => ~plan.rename /\ ~plan.remove /\ ~plan.runs
    BY <1>8
  <2>6. FileRunShaped(r)
    BY <1>5, <2>2, <2>4, <2>5, ShapedTurn
  <2>7. QuietFrames(p, r)
    BY <1>6, <1>8, <2>1, <2>6
  <2>8. QuietFits(r)
    BY <2>3, <2>4, <2>5 DEF Beside, Replaces, Writes, Clears, Real, Through, Ever, QuietFits
  <2>9. QuietTexts(r)
    BY <2>3, <2>5, <1>2, <2>4, OwnOfNothing DEF Replaces, AtSound, Misleading, Foreign, Bare, QuietTexts
  <2>10. QuietAlone(r)
    BY <1>2, <2>4, <2>5, <2>3 DEF Stands, AtSound, Clear, Reached, QuietAlone
  <2>11. QuietSettled(p, r)
    BY <2>4, <2>5, <1>1, <2>3 DEF Paired, Real, UpToDate, Misleading, Foreign, QuietSettled, Clears, Replaces, Harmless
  <2> QED
    BY <1>4, <2>7, <2>8, <2>9, <2>10, <2>11, QuietKeeps
<1> QED
  <2>1. CASE runOf' = [runOf EXCEPT ![p] = [NoRun EXCEPT !.op = "repair", !.step = "repair"]]
    BY <2>1, <1>7
  <2>2. CASE runOf' = [runOf EXCEPT ![p] = [NoRun EXCEPT !.op = "heal", !.step = "include"]]
    BY <2>2, <1>7
  <2>3. CASE LET plan == ClassifyInstructions IN
        runOf' = [runOf EXCEPT ![p] = [NoRun EXCEPT !.op = "setup", !.plan = plan,
                    !.step = CASE plan.remove -> "remove" [] ~plan.remove /\ plan.rename -> "rename"
                               [] OTHER -> IF plan.runs THEN "root" ELSE "include"]]
    BY <2>3, <1>8
  <2> QED
    BY <2>1, <2>2, <2>3 DEF BeginRun

-----------------------------------------------------------------------------
LEMMA ReachIs ==
  ASSUME AtSound(claude), AtSound(agents)
  PROVE  /\ Reaches \in {"agents", "absent", "claude", "error"}
         /\ Reaches = "agents" <=> agents.is = "file" \/ Foreign(agents)
         /\ Reaches = "claude" <=> Across(agents) /\ (claude.is = "file" \/ Foreign(claude))
         /\ Reaches = "absent" <=> \/ agents.is = "missing" \/ (Misleading(agents) /\ ~Across(agents))
                                   \/ Across(agents) /\ (claude.is = "missing" \/ (Misleading(claude) /\ ~Across(claude)))
         /\ SourceExists <=> Reaches \in {"agents", "claude"}
         /\ SourceExists => DocSafe(Read)
         /\ Reaches = "agents" => Read = agents.doc
         /\ Reaches = "claude" => Read = claude.doc
<1> DEFINE none(x) == x.is \in {"missing", "dir", "unreadable"} /\ x.to = ""
           plain(x) == x.is = "file" /\ x.to = ""
           link(x) == x.is = "link" /\ x.to \in {"toOther", "dangling", "foreign"}
<1>1. (none(claude) \/ plain(claude) \/ link(claude)) /\ (none(agents) \/ plain(agents) \/ link(agents))
  BY DEF AtSound, Misleading, Foreign
<1>2. DocSafe(claude.doc) /\ DocSafe(agents.doc)
  BY DEF AtSound
<1>3. Reaches = CASE agents.is = "file" \/ agents.to = "foreign" -> "agents"
    [] agents.is = "missing" \/ agents.to = "dangling" -> "absent"
    [] agents.to = "toOther" /\ (claude.is = "file" \/ claude.to = "foreign") -> "claude"
    [] agents.to = "toOther" /\ (claude.is = "missing" \/ claude.to = "dangling") -> "absent"
    [] OTHER -> "error"
  BY DEF Reaches
<1>4. Reaches \in {"agents", "absent", "claude", "error"}
  <2> DEFINE b1 == agents.is = "file" \/ agents.to = "foreign"
             b2 == agents.is = "missing" \/ agents.to = "dangling"
             b3 == agents.to = "toOther" /\ (claude.is = "file" \/ claude.to = "foreign")
             b4 == agents.to = "toOther" /\ (claude.is = "missing" \/ claude.to = "dangling")
  <2> QED
    BY <1>3
<1>5. Reaches = "agents" <=> agents.is = "file" \/ Foreign(agents)
  BY <1>1, <1>3 DEF Foreign
<1>6. Reaches = "claude" <=> Across(agents) /\ (claude.is = "file" \/ Foreign(claude))
  BY <1>1, <1>3 DEF Foreign, Across
<1>7. Reaches = "absent" <=> \/ agents.is = "missing" \/ (Misleading(agents) /\ ~Across(agents))
                             \/ Across(agents) /\ (claude.is = "missing" \/ (Misleading(claude) /\ ~Across(claude)))
  BY <1>1, <1>3 DEF Misleading, Across
<1>8. SourceExists <=> Reaches \in {"agents", "claude"}
  BY DEF SourceExists
<1>9. Reaches = "agents" => Read = agents.doc
  BY DEF Read
<1>10. Reaches = "claude" => Read = claude.doc
  BY DEF Read
<1> QED
  BY <1>2, <1>4, <1>5, <1>6, <1>7, <1>8, <1>9, <1>10

\* A turn that touches no file, in the middle of a run.
LEMMA StayKeeps ==
  ASSUME FilesInv, NEW p \in Proc, NEW r, Turned(p, r), FileRunShaped(r), FilesStay, Frame, runFaults' = runFaults, settled' = settled,
         runOf[p].step \notin {"idle", "rename"},
         QuietFits(r), QuietTexts(r), ~raced /\ r.op = "setup" /\ ~r.failed => Reached(r, claude, agents, ignored),
         settled /\ Stands(claude, agents, ignored) /\ runOf[p].step \notin Clears \cup Replaces => r.step \notin Clears \cup Replaces,
         settled /\ Paired(claude, agents) /\ runOf[p].step \in Harmless => r.step \in Harmless
  PROVE  FilesInv'
  BY IdleIs, FilesFacts, SameFaults, QuietKeeps DEF QuietFrames, FilesStay, Frame, Quiet, QuietAlone, QuietSettled

\* What a run under way is like, by its step.
LEMMA Underway ==
  ASSUME FilesInv, NEW p \in Proc, NEW o, o = runOf[p]
  PROVE  /\ runOf[p] = RunOf(o.op, o.step, o.plan, o.doc, o.failed)
         /\ runOf = [q \in Proc |-> runOf[q]]
         /\ o.plan \in Plans /\ DocSafe(o.doc) /\ o.failed \in BOOLEAN
         /\ o.step \in {"remove", "rename", "root", "write root"} => o.op = "setup"
         /\ o.step \in {"repair", "write repair", "create"} => o.op = "repair"
         /\ o.step \in Replaces \cup {"include"} => o.op \in {"setup", "heal"}
         /\ o.step = "remove" => o.plan.remove
         /\ o.step = "rename" => o.plan.rename
         /\ Beside(o, claude, agents)
         /\ ~torn /\ Real(claude) => Ever(o)
         /\ ~raced /\ o.op = "setup" /\ ~o.failed => Reached(o, claude, agents, ignored)
         /\ o.step # "idle" => o # NoRun
  BY FilesFacts, IdleIs DEF FileRunShaped, RunOf, Replaces, FilesInv, Alone

\* A run takes what it has read, to write it.
LEMMA TakesRefreshed ==
  ASSUME AtSound(claude), AtSound(agents), Reaches \in {"agents", "claude"}, NEW append \in BOOLEAN, NEW d, d = Refresh(Read, append), NEW r,
         r.doc = d
  PROVE  /\ DocSafe(d) /\ Refreshed(d) /\ (append => Has(d, "mark"))
         /\ Across(agents) => claude.is # "missing"
         /\ Through(r, claude, agents)
         /\ agents.is # "missing"
  BY ReachIs, RefreshIs DEF Refreshed, Across, Foreign, Through, Keeps

LEMMA PairedIs ==
  ASSUME AtSound(claude), AtSound(agents), Paired(claude, agents), NEW append \in BOOLEAN
  PROVE  Reaches = "agents" /\ Refresh(Read, append) = Read
  BY ReachIs, RefreshAgain DEF Paired, UpToDate

LEMMA RootKeeps ==
  ASSUME FilesInv, NEW p \in Proc, ApplyRootInstructions(p)
  PROVE  FilesInv'
<1>1. runOf[p].step = "root" /\ FilesStay /\ Frame /\ runFaults' = runFaults /\ settled' = settled
  BY DEF ApplyRootInstructions
<1>2. AtSound(claude) /\ AtSound(agents)
  BY FilesFacts
<1>3. PICK o : o = runOf[p]
  OBVIOUS
<1>4. /\ runOf[p] = RunOf(o.op, o.step, o.plan, o.doc, o.failed)
      /\ runOf = [q \in Proc |-> runOf[q]]
      /\ o.step = "root" /\ o.op = "setup"
      /\ o.plan \in Plans /\ DocSafe(o.doc) /\ o.failed \in BOOLEAN
      /\ Beside(o, claude, agents)
      /\ ~torn /\ Real(claude) => Ever(o)
      /\ ~raced /\ ~o.failed => Reached(o, claude, agents, ignored)
  BY <1>1, <1>3, Underway
<1>5. ~raced /\ ~o.failed => Stands(claude, agents, ignored) \/ (Clear(claude, agents, ignored) /\ o.plan.mayCreate)
  BY <1>4 DEF Reached
<1>6. ~torn /\ Real(claude) => (o.plan.remove => o.plan.rename) /\ ~o.plan.mayCreate
  BY <1>4 DEF Ever
<1>7. Misleading(agents) /\ o.plan.mayCreate => claude.is = "dir"
  BY <1>4 DEF Beside
<1>8. ASSUME NEW r, NEW l, NEW d, NEW f \in BOOLEAN, r = RunOf("setup", "include", l, d, f), Turned(p, r),
             l \in Plans, DocSafe(d), (l.mayCreate => o.plan.mayCreate), l.rename = o.plan.rename, l.remove = o.plan.remove,
             ~raced /\ ~f => Stands(claude, agents, ignored) \/ (Clear(claude, agents, ignored) /\ UpToDate(agents))
      PROVE  FilesInv'
  <2>1. r.op = "setup" /\ r.step = "include" /\ r.plan = l /\ r.doc = d /\ r.failed = f
    BY <1>8 DEF RunOf
  <2>2. FileRunShaped(r)
    BY <1>8, ShapedTurn
  <2>3. QuietFits(r)
    BY <1>6, <1>8, <2>1 DEF Ever, QuietFits, Beside, Through, Replaces, Writes, Clears
  <2>4. QuietTexts(r)
    BY <2>1 DEF QuietTexts, Replaces
  <2>5. ~raced /\ r.op = "setup" /\ ~r.failed => Reached(r, claude, agents, ignored)
    BY <1>8, <2>1 DEF Reached
  <2>6. r.step \notin Clears \cup Replaces /\ r.step \in Harmless
    BY <2>1 DEF Clears, Replaces, Harmless
  <2> QED
    BY <1>1, <1>8, <2>2, <2>3, <2>4, <2>5, <2>6, StayKeeps
<1>9. ASSUME NEW r, NEW l, NEW d, NEW f \in BOOLEAN, l = o.plan, f = o.failed,
             r = RunOf("setup", "write root", l, d, f), Turned(p, r), DocSafe(d),
             Refreshed(d), Has(d, "mark"), Across(agents) => claude.is # "missing", Through(r, claude, agents),
             ~torn /\ Real(claude) => agents.is # "missing", ~Paired(claude, agents)
      PROVE  FilesInv'
  BY <1>4, <1>9, <1>6, <1>5, <1>1, StayKeeps DEF RunOf, FileRunShaped, Ever, Beside, Replaces, Clears, QuietFits,
     QuietTexts, Reached
<1>10. Step(p, "include") => Turned(p, RunOf("setup", "include", o.plan, o.doc, o.failed))
  BY <1>4, Turns
<1>11. ASSUME NEW d, runOf' = [runOf EXCEPT ![p].step = "write root", ![p].doc = d]
       PROVE  Turned(p, RunOf("setup", "write root", o.plan, d, o.failed))
  BY <1>4, <1>11, Turns
<1>12. CASE Reaches = "error"
  <2>1. FailTo(p, "include")
    BY <1>12 DEF ApplyRootInstructions
  <2>2. PICK l : l = [o.plan EXCEPT !.mayCreate = FALSE]
    OBVIOUS
  <2>3. Turned(p, RunOf("setup", "include", l, o.doc, TRUE))
    BY <1>4, <2>1, <2>2, Turns
  <2>4. l \in Plans /\ ~l.mayCreate /\ l.rename = o.plan.rename /\ l.remove = o.plan.remove
    BY <1>4, <2>2, FailedPlan
  <2>5. PICK r : r = RunOf("setup", "include", l, o.doc, TRUE)
    OBVIOUS
  <2>6. PICK f \in BOOLEAN : f = TRUE
    OBVIOUS
  <2> QED
    BY <1>4, <1>8, <2>3, <2>4, <2>5, <2>6
<1>13. CASE Reaches = "absent" /\ o.plan.mayCreate
  <2>1. runOf' = [runOf EXCEPT ![p].step = "write root", ![p].doc = Template]
    BY <1>3, <1>13 DEF ApplyRootInstructions
  <2>0. PICK l \in Plans, f \in BOOLEAN : l = o.plan /\ f = o.failed
    BY <1>4
  <2>2. PICK r : r = RunOf("setup", "write root", l, Template, f)
    OBVIOUS
  <2>3. Turned(p, r)
    BY <1>11, <2>0, <2>1, <2>2
  <2>4. Across(agents) => claude.is = "dir"
    BY <1>7, <1>13 DEF Across, Misleading
  <2>5. ~Across(agents)
    BY <1>2, <1>13, <2>4, ReachIs DEF Misleading, Across
  <2>6. Through(r, claude, agents)
    BY <2>5 DEF Through
  <2>7. ~Paired(claude, agents)
    BY <1>2, <1>13, PairedIs
  <2> QED
    <3>1. ~torn /\ Real(claude) => agents.is # "missing"
      BY <1>6, <1>13
    <3> QED
      BY <1>9, <2>0, <2>2, <2>3, <2>5, <2>6, <2>7, <3>1, TemplateIs
<1>14. CASE Reaches = "absent" /\ ~o.plan.mayCreate
  BY <1>3, <1>14, <1>10, <1>4, <1>5, <1>8 DEF ApplyRootInstructions
<1>15. CASE Reaches \in {"agents", "claude"} /\ Refresh(Read, TRUE) # Read
  <2>1. PICK d : d = Refresh(Read, TRUE)
    OBVIOUS
  <2>2. runOf' = [runOf EXCEPT ![p].step = "write root", ![p].doc = d]
    BY <1>15, <2>1 DEF ApplyRootInstructions
  <2>0. PICK l \in Plans, f \in BOOLEAN : l = o.plan /\ f = o.failed
    BY <1>4
  <2>3. PICK r : r = RunOf("setup", "write root", l, d, f)
    OBVIOUS
  <2>4. Turned(p, r)
    BY <1>11, <2>0, <2>2, <2>3
  <2>5. r.doc = d
    BY <2>3 DEF RunOf
  <2>6. /\ DocSafe(d) /\ Refreshed(d) /\ Has(d, "mark")
        /\ Across(agents) => claude.is # "missing"
        /\ Through(r, claude, agents)
        /\ agents.is # "missing"
    BY <1>2, <1>15, <2>1, <2>5, TakesRefreshed
  <2>7. ~Paired(claude, agents)
    BY <1>2, <1>15, PairedIs
  <2> QED
    BY <1>9, <2>0, <2>3, <2>4, <2>6, <2>7
<1>16. CASE Reaches \in {"agents", "claude"} /\ Refresh(Read, TRUE) = Read
  BY <1>16, <1>10, <1>2, ReachIs, RefreshIs, <1>4, <1>5, <1>8 DEF ApplyRootInstructions, Clear, Across, Misleading, UpToDate
<1> QED
  BY <1>2, <1>12, <1>13, <1>14, <1>15, <1>16, ReachIs

-----------------------------------------------------------------------------
\* Nothing the project owns lies in a file that is empty.
LEMMA EmptyHolds ==
  ASSUME NEW own, own.tail \in BOOLEAN, NEW x, x.doc = <<>> \/ Bare(x), HeldBy(own, x)
  PROVE  own.lines = <<>> /\ ~own.tail
  BY OwnOfNothing DEF Bare, Tailed, Has, HeldBy

LEMMA IncludeKeeps ==
  ASSUME FilesInv, NEW p \in Proc, ApplyIncludeFile(p)
  PROVE  FilesInv'
<1>1. runOf[p].step = "include" /\ FilesStay /\ Frame /\ runFaults' = runFaults
  BY DEF ApplyIncludeFile
<1>2. /\ AtSound(claude) /\ AtSound(agents) /\ ignored \in BOOLEAN /\ runFaults \in 0..MaxRunFaults
      /\ settled \in BOOLEAN /\ raced \in BOOLEAN /\ torn \in BOOLEAN /\ overtaken \in BOOLEAN
  BY FilesFacts
<1>3. PICK o : o = runOf[p]
  OBVIOUS
<1>4. /\ runOf[p] = RunOf(o.op, o.step, o.plan, o.doc, o.failed)
      /\ runOf = [q \in Proc |-> runOf[q]]
      /\ o.step = "include" /\ o.op \in {"setup", "heal"} /\ o # NoRun
      /\ o.plan \in Plans /\ DocSafe(o.doc) /\ o.failed \in BOOLEAN
      /\ ~torn /\ Real(claude) => Ever(o)
      /\ ~raced /\ o.op = "setup" /\ ~o.failed => Reached(o, claude, agents, ignored)
  BY <1>1, <1>3, Underway
<1>5. ~raced /\ o.op = "setup" /\ ~o.failed => Stands(claude, agents, ignored) \/ (Clear(claude, agents, ignored) /\ UpToDate(agents))
  BY <1>4 DEF Reached
<1>6. PICK plan : plan = ClassifyInstructions
  OBVIOUS
<1>7. Stands(claude, agents, ignored) <=> plan.conflict \/ plan.blocked
  BY <1>2, <1>6, PlanIs
<1>8. CASE plan.conflict \/ plan.blocked \/ ~SourceExists \/ claude.is \notin {"missing", "link"}
  <2>1. RunEnds(p)
    BY <1>6, <1>8 DEF ApplyIncludeFile
  <2>2. EndRun(p) /\ settled' = (settled \/ (runOf[p].op = "setup" /\ ~runOf[p].failed /\ ~raced))
    BY <2>1 DEF RunEnds
  <2>3. runFaults' \in 0..MaxRunFaults /\ runFaults' >= runFaults
    BY <1>1, <1>2, SameFaults
  <2>4. settled' \in BOOLEAN
    BY <1>2, <2>2
  <2>5. ASSUME Clear(claude, agents, ignored), UpToDate(agents) PROVE Paired(claude, agents)
    BY <1>2, <2>5, ReachIs, <1>7, <1>8 DEF UpToDate, Clear, Stands, AtSound, Misleading, Foreign, Real, Paired
  <2>6. settled' => settled \/ (~raced /\ (Stands(claude, agents, ignored) \/ Paired(claude, agents)))
    BY <1>3, <1>5, <2>2, <2>5
  <2>7. Quiet /\ UNCHANGED <<ignored, owned, bothReal, runCount>> /\ raced' = raced
    BY <1>1 DEF FilesStay, Frame, Quiet
  <2> QED
    BY <1>3, <1>4, <2>2, <2>3, <2>4, <2>6, <2>7, EndKeeps
<1>9. CASE ~(plan.conflict \/ plan.blocked \/ ~SourceExists \/ claude.is \notin {"missing", "link"})
  <2>1. PICK s : s = IF claude = Nothing THEN "stub" ELSE "unlink"
    OBVIOUS
  <2>2. Step(p, s) /\ settled' = settled
    BY <1>6, <1>9, <2>1 DEF ApplyIncludeFile
  <2>3. PICK r : r = RunOf(o.op, s, o.plan, o.doc, o.failed)
    OBVIOUS
  <2>4. Turned(p, r)
    BY <1>4, <2>2, <2>3, Turns
  <2>5. r.op = o.op /\ r.step = s /\ r.plan = o.plan /\ r.doc = o.doc /\ r.failed = o.failed /\ s \in {"stub", "unlink"}
    BY <2>1, <2>3 DEF RunOf
  <2>6. ~Stands(claude, agents, ignored) /\ SourceExists /\ claude.is \in {"missing", "link"}
    BY <1>7, <1>9
  <2>7. claude.doc = <<>> /\ ~Real(claude) /\ (claude.is = "link" => Misleading(claude))
    BY <1>2, <2>6 DEF Stands, Real, AtSound, Misleading, Foreign
  <2>8. ~Misleading(agents)
    BY <1>2, <2>6, <2>7, ReachIs DEF Stands, Misleading, Foreign, Across
  <2>9. FileRunShaped(r)
    BY <2>3, <1>4, <2>5 DEF RunOf, FileRunShaped
  <2>10. QuietFits(r)
    BY <2>5, <2>7, <2>8 DEF QuietFits, Beside, Through, Writes, Clears
  <2>11. QuietTexts(r)
    BY <2>5, <2>7, EmptyHolds DEF QuietTexts, FilesInv, Texts, FileTypes, HeldBy
  <2>12. ~raced /\ r.op = "setup" /\ ~r.failed => Reached(r, claude, agents, ignored)
    BY <1>5, <2>5, <2>6 DEF Reached
  <2>13. ~Paired(claude, agents)
    BY <2>6 DEF Paired
  <2> QED
    BY <1>1, <1>3, <1>4, <2>2, <2>4, <2>6, <2>9, <2>10, <2>11, <2>12, <2>13, StayKeeps
<1> QED
  BY <1>8, <1>9

LEMMA RepairKeeps ==
  ASSUME FilesInv, NEW p \in Proc, RepairReads(p)
  PROVE  FilesInv'
<1>1. runOf[p].step = "repair" /\ FilesStay /\ Frame /\ runFaults' = runFaults /\ settled' = settled
  BY DEF RepairReads
<1>2. /\ AtSound(claude) /\ AtSound(agents) /\ ignored \in BOOLEAN /\ runFaults \in 0..MaxRunFaults
      /\ settled \in BOOLEAN /\ raced \in BOOLEAN /\ torn \in BOOLEAN /\ overtaken \in BOOLEAN
  BY FilesFacts
<1>3. PICK o : o = runOf[p]
  OBVIOUS
<1>4. /\ runOf[p] = RunOf(o.op, o.step, o.plan, o.doc, o.failed)
      /\ runOf = [q \in Proc |-> runOf[q]]
      /\ o.step = "repair" /\ o.op = "repair" /\ o # NoRun
      /\ o.plan \in Plans /\ DocSafe(o.doc) /\ o.failed \in BOOLEAN
  BY <1>1, <1>3, Underway
<1>5. CASE EndRun(p)
  BY <1>1, <1>2, SameFaults, <1>3, <1>4, <1>5, EndKeeps DEF FilesStay, Frame, Quiet
<1>6. ASSUME NEW r, NEW s \in {"create", "write repair"}, NEW d, DocSafe(d), r = RunOf("repair", s, o.plan, d, o.failed), Turned(p, r),
             s = "write repair" => (Across(agents) => claude.is # "missing") /\ Through(r, claude, agents) /\ agents.is # "missing",
             s = "create" => ~Real(claude), ~Paired(claude, agents)
      PROVE  FilesInv'
  <2>1. r.op = "repair" /\ r.step = s /\ r.plan = o.plan /\ r.doc = d /\ r.failed = o.failed
    BY <1>6 DEF RunOf
  <2>2. FileRunShaped(r)
    BY <1>6, <1>4, <2>1 DEF RunOf, FileRunShaped
  <2>3. QuietFits(r)
    BY <1>6, <2>1 DEF Beside, Replaces, Clears, Writes, Through, Ever, QuietFits
  <2>4. QuietTexts(r)
    BY <1>6, <2>1 DEF QuietTexts, Replaces
  <2>5. r.op # "setup" /\ r.step \notin Clears \cup Replaces
    BY <1>6, <2>1 DEF Clears, Replaces
  <2> QED
    BY <1>1, <1>6, <2>2, <2>3, <2>4, <2>5, StayKeeps
<1>7. CASE Reaches = "absent" /\ ~EndRun(p)
  <2>1. PICK plan : plan = ClassifyInstructions
    OBVIOUS
  <2>2. ~(plan.conflict \/ plan.blocked \/ plan.rename \/ plan.remove \/ ~plan.mayCreate) /\ Step(p, "create")
    BY <1>7, <2>1 DEF RepairReads
  <2>3. ~Real(claude)
    BY <1>2, <2>1, <2>2, PlanIs
  <2>4. PICK s, r : s = "create" /\ r = RunOf("repair", s, o.plan, o.doc, o.failed)
    OBVIOUS
  <2>5. Turned(p, r)
    BY <1>4, <2>2, <2>4, Turns
  <2>6. ~Paired(claude, agents)
    BY <1>2, <1>7, PairedIs
  <2>7. s \in {"create", "write repair"} /\ s # "write repair"
    BY <2>4
  <2> QED
    BY <1>4, <1>6, <2>3, <2>4, <2>5, <2>6, <2>7
<1>8. CASE Reaches = "error"
  BY <1>5, <1>8 DEF RepairReads
<1>9. CASE Reaches \in {"agents", "claude"} /\ ~EndRun(p)
  <2>1. PICK d : d = Refresh(Read, FALSE)
    OBVIOUS
  <2>2. runOf' = [runOf EXCEPT ![p].step = "write repair", ![p].doc = d] /\ Refresh(Read, FALSE) # Read
    BY <1>9, <2>1 DEF RepairReads
  <2>3. PICK s, r : s = "write repair" /\ r = RunOf("repair", s, o.plan, d, o.failed)
    OBVIOUS
  <2>4. Turned(p, r)
    BY <1>4, <2>2, <2>3, Turns
  <2>5. r.doc = d
    BY <2>3 DEF RunOf
  <2>6. /\ DocSafe(d) /\ (Across(agents) => claude.is # "missing") /\ Through(r, claude, agents) /\ agents.is # "missing"
    BY <1>2, <1>9, <2>1, <2>5, TakesRefreshed
  <2>7. ~Paired(claude, agents)
    BY <1>2, <2>2, PairedIs
  <2>8. s \in {"create", "write repair"} /\ s # "create"
    BY <2>3
  <2> QED
    BY <1>6, <2>3, <2>4, <2>6, <2>7, <2>8
<1> QED
  BY <1>2, <1>5, <1>7, <1>8, <1>9, ReachIs

-----------------------------------------------------------------------------
LEMMA FailKeeps ==
  ASSUME FilesInv, NEW p \in Proc, runOf[p].step \in Clears, FailTo(p, "root"), Quiet, Frame,
         runFaults' \in 0..MaxRunFaults, runFaults' >= runFaults, settled' \in BOOLEAN, settled' => settled,
         runOf[p].step = "rename" /\ Real(claude) => runFaults' > 0
  PROVE  FilesInv'
<1>1. PICK o : o = runOf[p]
  OBVIOUS
<1>2. /\ runOf[p] = RunOf(o.op, o.step, o.plan, o.doc, o.failed)
      /\ runOf = [q \in Proc |-> runOf[q]]
      /\ o.step \in Clears /\ o.op = "setup" /\ o # NoRun
      /\ o.plan \in Plans /\ DocSafe(o.doc)
      /\ ~torn /\ Real(claude) => Ever(o)
  BY <1>1, Underway DEF Clears
<1>3. PICK l : l = [o.plan EXCEPT !.mayCreate = FALSE]
  OBVIOUS
<1>4. l \in Plans /\ ~l.mayCreate /\ l.rename = o.plan.rename /\ l.remove = o.plan.remove
  BY <1>2, <1>3, FailedPlan
<1>5. PICK r : r = RunOf("setup", "root", l, o.doc, TRUE)
  OBVIOUS
<1>6. Turned(p, r)
  BY <1>2, <1>3, <1>5, Turns
<1>7. r.op = "setup" /\ r.step = "root" /\ r.plan = l /\ r.doc = o.doc /\ r.failed = TRUE
  BY <1>5 DEF RunOf
<1>8. FileRunShaped(r)
  BY <1>5, <1>2, <1>4, <1>7 DEF RunOf, FileRunShaped
<1>9. runCount \in 0..MaxRuns /\ raced \in BOOLEAN
  BY FilesFacts
<1>10. QuietFrames(p, r)
  BY <1>1, <1>2, <1>6, <1>8, <1>9 DEF QuietFrames, Frame
<1>11. QuietFits(r)
  BY <1>2, <1>4, <1>7 DEF QuietFits, Beside, Through, Ever, Replaces, Writes, Clears
<1>12. QuietTexts(r)
  BY <1>7 DEF QuietTexts, Replaces
<1>13. QuietAlone(r)
  BY <1>7 DEF QuietAlone
<1>14. QuietSettled(p, r)
  BY <1>1, <1>2 DEF QuietSettled, Clears, Harmless
<1> QED
  BY <1>10, <1>11, <1>12, <1>13, <1>14, QuietKeeps

LEMMA SoundFiles ==
  /\ AtSound(Nothing)
  /\ \A d : DocSafe(d) => AtSound(File(d)) /\ File(d).is = "file" /\ File(d).doc = d
  /\ \A d : DocSafe(d) => AtSound(At("link", "foreign", d)) /\ Foreign(At("link", "foreign", d)) /\ At("link", "foreign", d).doc = d
  BY FixedDocs DEF AtSound, Nothing, At, File, Foreign

\* Where no file is, nothing of the project is lost.
LEMMA NothingLost ==
  ASSUME NEW own, own.tail \in BOOLEAN, NEW x, x.doc = <<>> \/ Bare(x), HeldBy(own, x), NEW y
  PROVE  HeldBy(own, y)
BY EmptyHolds DEF HeldBy

LEMMA RemoveKeeps ==
  ASSUME FilesInv, NEW p \in Proc, RemoveAgentsLink(p)
  PROVE  FilesInv'
<1>1. /\ runOf[p].step = "remove" /\ Frame /\ claude' = claude /\ torn' = torn
  BY DEF RemoveAgentsLink
<1>2. /\ AtSound(claude) /\ AtSound(agents) /\ ignored \in BOOLEAN /\ runCount \in 0..MaxRuns /\ runFaults \in 0..MaxRunFaults
      /\ settled \in BOOLEAN /\ raced \in BOOLEAN /\ torn \in BOOLEAN /\ overtaken \in BOOLEAN
  BY FilesFacts
<1>3. runFaults' = runFaults => runFaults' \in 0..MaxRunFaults /\ runFaults' >= runFaults
  BY <1>2, SameFaults
<1>4. CASE agents = Nothing /\ FailTo(p, "root") /\ UNCHANGED <<agents, runFaults, overtaken, settled>>
  BY <1>1, <1>2, <1>3, <1>4, FailKeeps DEF Quiet, Clears
<1>5. CASE RunFault /\ FailTo(p, "root") /\ settled' = FALSE /\ UNCHANGED <<agents, overtaken>>
  BY <1>2, <1>5, FaultIs, <1>1, FailKeeps DEF Quiet, Clears
<1>6. CASE /\ agents # Nothing /\ agents.is # "dir" /\ agents' = Nothing
           /\ overtaken' = (overtaken \/ agents.is # "link")
           /\ Step(p, IF runOf[p].plan.rename THEN "rename" ELSE "root")
           /\ UNCHANGED <<runFaults, settled>>
  <2>1. PICK o : o = runOf[p]
    OBVIOUS
  <2>2. /\ runOf[p] = RunOf(o.op, o.step, o.plan, o.doc, o.failed)
        /\ runOf = [q \in Proc |-> runOf[q]]
        /\ o.step = "remove" /\ o.op = "setup" /\ o # NoRun
        /\ o.plan \in Plans /\ DocSafe(o.doc) /\ o.plan.remove /\ o.failed \in BOOLEAN
        /\ ~torn /\ Real(claude) => Ever(o)
        /\ Beside(o, claude, agents)
        /\ ~raced /\ ~o.failed => Reached(o, claude, agents, ignored)
    BY <1>1, <2>1, Underway
  <2>3. PICK s : s = IF o.plan.rename THEN "rename" ELSE "root"
    OBVIOUS
  <2>4. PICK r : r = RunOf("setup", s, o.plan, o.doc, o.failed)
    OBVIOUS
  <2>5. Step(p, s)
    BY <1>6, <2>1, <2>3
  <2>6. Turned(p, r)
    BY <2>2, <2>4, <2>5, Turns
  <2>7. r.op = "setup" /\ r.step = s /\ r.plan = o.plan /\ r.doc = o.doc /\ r.failed = o.failed
    BY <2>4 DEF RunOf
  <2>8. FileRunShaped(r)
    BY <2>4, <2>3, <2>2, <2>7 DEF RunOf, FileRunShaped
  <2>9. ~Misleading(Nothing) /\ Nothing.is = "missing" /\ Nothing.doc = <<>> /\ ~Across(Nothing) /\ ~Foreign(Nothing)
    BY DEF Nothing, At, Misleading, Across, Foreign
  <2>10. Frames(p, r)
    <3>1. overtaken' \in BOOLEAN /\ (overtaken => overtaken')
      BY <1>2, <1>6
    <3> QED
      BY <1>1, <1>2, <1>3, <1>6, <2>1, <2>2, <2>6, <2>8, <3>1, SoundFiles DEF Frames, Frame
  <2>11. Moves(p)
    BY <1>1, <1>6, <2>9 DEF Moves
  <2>12. ~torn /\ Real(claude) => s = "rename"
    BY <2>2, <2>3 DEF Ever
  <2>13. SuitsRun(r)
    BY <1>1, <1>6, <2>2, <2>3, <2>7, <2>9, <2>12 DEF Beside, Replaces, Writes, Clears, Through, Ever, SuitsRun
  <2>14. KeepsSources(p, r)
    BY <1>1, <1>6, <2>7, <2>9, <2>12 DEF KeepsSources
  <2>15. KeepsTexts(r)
    <3> SUFFICES ASSUME ~torn, ~overtaken, agents.is = "link"
                 PROVE  /\ \A own \in owned : HeldBy(own, claude) \/ HeldBy(own, Nothing)
                        /\ \A own \in owned : HeldBy(own, agents) => HeldBy(own, Nothing)
      BY <1>1, <1>2, <1>6, <2>3, <2>7, <2>9 DEF KeepsTexts, Replaces
    <3>1. Bare(agents)
      BY <1>1 DEF FilesInv, Texts
    <3>2. ASSUME NEW own \in owned PROVE HeldBy(own, agents) => HeldBy(own, Nothing)
      BY <3>1, NothingLost DEF FilesInv, FileTypes
    <3>3. \A own \in owned : HeldBy(own, claude) \/ HeldBy(own, agents)
      BY DEF FilesInv, Texts
    <3> QED
      BY <3>2, <3>3
  <2>16. NoSelfImport'
    BY <1>6, <2>9 DEF NoSelfImport
  <2>17. KeepsAlone(r)
    BY <1>1, <1>6, <2>7, <2>2, <2>3, <2>9 DEF KeepsAlone, Frame, Reached, Stands, Clear
  <2>18. KeepsSettled(p, r)
    BY <1>1, <1>6 DEF KeepsSettled, Clears, Harmless
  <2> QED
    BY <2>10, <2>11, <2>13, <2>14, <2>15, <2>16, <2>17, <2>18, Assembles
<1> QED
  BY <1>4, <1>5, <1>6 DEF RemoveAgentsLink

LEMMA RenameKeeps ==
  ASSUME FilesInv, NEW p \in Proc, RenameClaude(p)
  PROVE  FilesInv'
<1>1. /\ runOf[p].step = "rename" /\ Frame /\ torn' = torn
  BY DEF RenameClaude
<1>2. /\ AtSound(claude) /\ AtSound(agents) /\ ignored \in BOOLEAN /\ runCount \in 0..MaxRuns /\ runFaults \in 0..MaxRunFaults
      /\ settled \in BOOLEAN /\ raced \in BOOLEAN /\ torn \in BOOLEAN /\ overtaken \in BOOLEAN
  BY FilesFacts
<1>3. runFaults' = runFaults => runFaults' \in 0..MaxRunFaults /\ runFaults' >= runFaults
  BY <1>2, SameFaults
<1>9. ~Misleading(Nothing) /\ Nothing.is = "missing" /\ Nothing.doc = <<>> /\ ~Across(Nothing) /\ ~Foreign(Nothing) /\ ~Real(Nothing)
  BY DEF Nothing, At, Misleading, Across, Foreign, Real
<1>4. CASE claude = Nothing /\ FailTo(p, "root") /\ UNCHANGED <<claude, agents, runFaults, overtaken, settled>>
  BY <1>1, <1>2, <1>3, <1>4, <1>9, FailKeeps DEF Quiet, Clears
<1>5. CASE RunFault /\ FailTo(p, "root") /\ settled' = FALSE /\ UNCHANGED <<claude, agents, overtaken>>
  BY <1>2, <1>5, FaultIs, <1>1, FailKeeps DEF Quiet, Clears
<1>6. CASE /\ claude # Nothing /\ agents' = claude /\ claude' = Nothing /\ Step(p, "root")
           /\ overtaken' = (overtaken \/ KindOf(claude, TRUE) # "regular" \/ agents # Nothing)
           /\ UNCHANGED <<runFaults, settled>>
  <2>1. PICK o : o = runOf[p]
    OBVIOUS
  <2>2. /\ runOf[p] = RunOf(o.op, o.step, o.plan, o.doc, o.failed)
        /\ runOf = [q \in Proc |-> runOf[q]]
        /\ o.step = "rename" /\ o.op = "setup" /\ o # NoRun
        /\ o.plan \in Plans /\ DocSafe(o.doc) /\ o.plan.rename /\ o.failed \in BOOLEAN
        /\ Beside(o, claude, agents)
        /\ ~raced /\ ~o.failed => Reached(o, claude, agents, ignored)
    BY <1>1, <2>1, Underway
  <2>4. PICK r : r = RunOf("setup", "root", o.plan, o.doc, o.failed)
    OBVIOUS
  <2>6. Turned(p, r)
    BY <1>6, <2>2, <2>4, Turns
  <2>7. r.op = "setup" /\ r.step = "root" /\ r.plan = o.plan /\ r.doc = o.doc /\ r.failed = o.failed
    BY <2>4 DEF RunOf
  <2>8. FileRunShaped(r)
    BY <2>4, <2>2, <2>7 DEF RunOf, FileRunShaped
  <2>9. claude.is = "file"
    BY <1>2, <1>6, <2>2, MissingIs DEF Beside, Clears
  <2>10. Frames(p, r)
    <3>1. overtaken' \in BOOLEAN /\ (overtaken => overtaken')
      BY <1>2, <1>6
    <3> QED
      BY <1>1, <1>2, <1>3, <1>6, <2>1, <2>2, <2>6, <2>8, <3>1, SoundFiles DEF Frames, Frame
  <2>11. Moves(p)
    BY <1>6, <1>9, <2>9 DEF Moves, Misleading, Across
  <2>13. SuitsRun(r)
    BY <1>6, <1>9, <2>7, <2>9 DEF SuitsRun, Beside, Through, Replaces, Writes, Clears, Misleading
  <2>14. KeepsSources(p, r)
    BY <1>6, <1>9 DEF KeepsSources
  <2>15. KeepsTexts(r)
    <3> SUFFICES ASSUME ~torn, ~overtaken, agents = Nothing
                 PROVE  \A own \in owned : HeldBy(own, claude)
      BY <1>1, <1>2, <1>6, <2>7, <2>9 DEF KeepsTexts, Replaces
    <3>1. TAKE own \in owned
    <3>2. own.tail \in BOOLEAN
      BY DEF FilesInv, FileTypes
    <3>3. HeldBy(own, claude) \/ HeldBy(own, agents)
      BY DEF FilesInv, Texts
    <3>4. agents.doc = <<>>
      BY <1>9
    <3> QED
      BY <3>2, <3>3, <3>4, NothingLost
  <2>16. NoSelfImport'
    BY <2>9, <1>6 DEF KindOf, NoSelfImport
  <2>17. KeepsAlone(r)
    BY <1>1, <1>6, <2>7, <2>2, <1>9, <2>9 DEF KeepsAlone, Frame, Reached, Clear, Stands, Misleading
  <2>18. KeepsSettled(p, r)
    BY <1>1, <1>6 DEF KeepsSettled, Clears, Harmless
  <2> QED
    BY <2>10, <2>11, <2>13, <2>14, <2>15, <2>16, <2>17, <2>18, Assembles
<1> QED
  BY <1>4, <1>5, <1>6 DEF RenameClaude

-----------------------------------------------------------------------------
\* The run of a process that has ended fits to anything.
LEMMA IdleFits ==
  ASSUME NEW r, r = NoRun
  PROVE  SuitsRun(r) /\ KeepsAlone(r) /\ r.step \notin Clears \cup Replaces \cup Writes \cup {"create"} /\ r.step \in Harmless
<1>1. r.step = "idle" /\ r.op = "none"
  BY IdleIs
<1> QED
  BY <1>1 DEF SuitsRun, KeepsAlone, Beside, Through, Ever, Clears, Replaces, Writes, Harmless

\* A step of a run under way, seen from its flags.
LEMMA FramesOf ==
  ASSUME FilesInv, NEW p \in Proc, runOf[p] # NoRun, NEW r, Turned(p, r), FileRunShaped(r), AtSound(claude'), AtSound(agents'), Frame,
         runFaults' \in 0..MaxRunFaults, runFaults' >= runFaults, torn' \in BOOLEAN, overtaken' \in BOOLEAN, settled' \in BOOLEAN,
         torn => torn', overtaken => overtaken'
  PROVE  Frames(p, r)
  BY FilesFacts DEF Frames, Frame

LEMMA UnlinkKeeps ==
  ASSUME FilesInv, NEW p \in Proc, RemoveClaudeLink(p)
  PROVE  FilesInv'
<1>1. /\ runOf[p].step = "unlink" /\ Frame /\ torn' = torn /\ agents' = agents /\ overtaken' = overtaken
      /\ runFaults' = runFaults /\ settled' = settled
  BY DEF RemoveClaudeLink
<1>2. /\ AtSound(claude) /\ AtSound(agents) /\ ignored \in BOOLEAN /\ runFaults \in 0..MaxRunFaults
      /\ settled \in BOOLEAN /\ raced \in BOOLEAN /\ torn \in BOOLEAN /\ overtaken \in BOOLEAN
  BY FilesFacts
<1>3. runFaults' \in 0..MaxRunFaults /\ runFaults' >= runFaults
  BY <1>1, <1>2, SameFaults
<1>4. PICK o : o = runOf[p]
  OBVIOUS
<1>5. /\ runOf[p] = RunOf(o.op, o.step, o.plan, o.doc, o.failed)
      /\ runOf = [q \in Proc |-> runOf[q]]
      /\ o.step = "unlink" /\ o.op \in {"setup", "heal"} /\ o # NoRun
      /\ o.plan \in Plans /\ DocSafe(o.doc) /\ o.failed \in BOOLEAN
      /\ Beside(o, claude, agents)
      /\ ~raced /\ o.op = "setup" /\ ~o.failed => Reached(o, claude, agents, ignored)
  BY <1>1, <1>4, Underway DEF Replaces
<1>6. CASE claude = Nothing
  <2>1. EndRun(p) /\ claude' = claude
    BY <1>6 DEF RemoveClaudeLink
  <2>2. Quiet /\ UNCHANGED <<ignored, owned, bothReal, runCount>> /\ raced' = raced
    BY <1>1, <2>1 DEF Frame, Quiet
  <2> QED
    BY <1>1, <1>2, <1>3, <1>4, <1>5, <2>1, <2>2, EndKeeps
<1>7. CASE claude # Nothing
  <2>1. claude' = Nothing /\ Step(p, "stub")
    BY <1>7 DEF RemoveClaudeLink
  <2>2. PICK r : r = RunOf(o.op, "stub", o.plan, o.doc, o.failed)
    OBVIOUS
  <2>3. Turned(p, r)
    BY <1>5, <2>1, <2>2, Turns
  <2>4. r.op = o.op /\ r.step = "stub" /\ r.plan = o.plan /\ r.doc = o.doc /\ r.failed = o.failed
    BY <2>2 DEF RunOf
  <2>5. FileRunShaped(r)
    BY <2>2, <1>5, <2>4 DEF RunOf, FileRunShaped
  <2>6. ~Misleading(Nothing) /\ Nothing.is = "missing" /\ Nothing.doc = <<>> /\ ~Across(Nothing) /\ ~Foreign(Nothing) /\ ~Real(Nothing)
    BY DEF Nothing, At, Misleading, Across, Foreign, Real
  <2>7. ~Misleading(agents) /\ ~Across(agents)
    BY <1>5 DEF Beside, Replaces, Misleading, Across
  <2>8. Frames(p, r)
    BY <1>1, <1>2, <1>3, <1>4, <1>5, <2>1, <2>3, <2>5, FramesOf, SoundFiles
  <2>9. Moves(p)
    BY <1>1, <2>1, <2>6, <2>7 DEF Moves
  <2>10. SuitsRun(r)
    BY <1>1, <2>1, <2>4, <2>6, <2>7 DEF SuitsRun, Beside, Through, Writes, Clears
  <2>11. KeepsSources(p, r)
    BY <2>1, <2>6 DEF KeepsSources
  <2>12. KeepsTexts(r)
    BY <1>1, <2>4 DEF FilesInv, Texts, Replaces, KeepsTexts
  <2>13. NoSelfImport'
    BY <1>1 DEF FilesInv, NoSelfImport
  <2>14. KeepsAlone(r)
    BY <1>1, <2>1, <2>4, <1>5, <2>6 DEF KeepsAlone, Frame, Reached, Clear, Stands
  <2>15. KeepsSettled(p, r)
    BY <1>1 DEF KeepsSettled, Replaces, Harmless
  <2> QED
    BY <2>8, <2>9, <2>10, <2>11, <2>12, <2>13, <2>14, <2>15, Assembles
<1> QED
  BY <1>6, <1>7

LEMMA StubKeeps ==
  ASSUME FilesInv, NEW p \in Proc, WriteStub(p)
  PROVE  FilesInv'
<1>1. /\ runOf[p].step = "stub" /\ Frame /\ agents' = agents /\ overtaken' = overtaken /\ claude.is # "dir"
  BY DEF WriteStub
<1>2. /\ AtSound(claude) /\ AtSound(agents) /\ ignored \in BOOLEAN /\ runFaults \in 0..MaxRunFaults
      /\ settled \in BOOLEAN /\ raced \in BOOLEAN /\ torn \in BOOLEAN /\ overtaken \in BOOLEAN
  BY FilesFacts
<1>4. PICK o : o = runOf[p]
  OBVIOUS
<1>5. /\ runOf[p] = RunOf(o.op, o.step, o.plan, o.doc, o.failed)
      /\ runOf = [q \in Proc |-> runOf[q]]
      /\ o.step = "stub" /\ o.op \in {"setup", "heal"} /\ o # NoRun
      /\ Beside(o, claude, agents)
      /\ ~raced /\ o.op = "setup" /\ ~o.failed => Reached(o, claude, agents, ignored)
  BY <1>1, <1>4, Underway DEF Replaces
<1>6. ~Misleading(agents) /\ ~Across(agents)
  BY <1>5 DEF Beside, Replaces, Misleading, Across
<1>7. EndRun(p)
  BY DEF WriteStub, RunEnds
<1>8. PICK r : r = NoRun
  OBVIOUS
<1>9. Turned(p, r) /\ FileRunShaped(r)
  BY <1>5, <1>7, <1>8, Turns, IdleShaped
<1>10. /\ SuitsRun(r) /\ KeepsAlone(r)
       /\ r.step \notin Clears \cup Replaces \cup Writes \cup {"create"} /\ r.step \in Harmless
  BY <1>8, IdleFits
<1>11. PICK f : f = claude'
  OBVIOUS
<1>12. \/ f = File(Stub) /\ RunEnds(p) /\ torn' = torn /\ runFaults' = runFaults
       \/ RunFault /\ f = File(<<>>) /\ torn' = TRUE /\ settled' = FALSE
  BY <1>11 DEF WriteStub
<1>13. /\ AtSound(f) /\ f.is = "file" /\ ~Misleading(f)
       /\ ~torn' => Includes(f.doc)
  BY FixedDocs, <1>12, SoundFiles DEF Misleading
<1>14. runFaults' \in 0..MaxRunFaults /\ runFaults' >= runFaults
  BY <1>2, <1>12, FaultIs, SameFaults
<1>15. torn' \in BOOLEAN /\ (torn => torn') /\ settled' \in BOOLEAN
  BY <1>2, <1>12 DEF RunEnds
<1>16. Frames(p, r)
  BY <1>1, <1>2, <1>4, <1>5, <1>9, <1>11, <1>13, <1>14, <1>15, FramesOf
<1>17. Moves(p)
  BY <1>1, <1>6, <1>11, <1>13 DEF Moves, Real
<1>18. KeepsSources(p, r)
  BY <1>1, <1>11, <1>13 DEF KeepsSources, Real
<1>19. KeepsTexts(r)
  BY <1>1, <1>10, <1>15 DEF FilesInv, Texts, Replaces, KeepsTexts, Clears
<1>20. NoSelfImport'
  BY <1>1 DEF FilesInv, NoSelfImport
<1>21. KeepsSettled(p, r)
  <2>1. ASSUME settled', ~settled PROVE ~raced /\ Paired(claude', agents')
    <3>1. RunEnds(p) /\ f = File(Stub) /\ settled' = (settled \/ (o.op = "setup" /\ ~o.failed /\ ~raced))
      BY <1>4, <1>12, <2>1 DEF RunEnds
    <3>2. ~raced /\ o.op = "setup" /\ ~o.failed
      BY <2>1, <3>1
    <3>3. UpToDate(agents)
      BY <1>5, <3>2 DEF Reached
    <3>4. f.is = "file" /\ Includes(f.doc)
      BY <3>1, FixedDocs, SoundFiles
    <3> QED
      BY <1>1, <1>11, <3>2, <3>3, <3>4 DEF Paired
  <2>2. runOf[p].step \notin Harmless /\ runOf[p].step \in Replaces
    BY <1>1 DEF Harmless, Replaces
  <2> QED
    BY <1>4, <1>5, <1>8, <2>1, <2>2 DEF KeepsSettled
<1> QED
  BY <1>10, <1>16, <1>17, <1>18, <1>19, <1>20, <1>21, Assembles

LEMMA EmptyIs == DocSafe(<<>>) /\ ~Includes(<<>>)
  BY FixedDocs, NothingIsBuilt, BuiltIs

LEMMA CreateKeeps ==
  ASSUME FilesInv, NEW p \in Proc, CreateRootInstructions(p)
  PROVE  FilesInv'
<1>1. /\ runOf[p].step = "create" /\ EndRun(p) /\ Frame /\ claude' = claude /\ overtaken' = overtaken
  BY DEF CreateRootInstructions
<1>2. /\ AtSound(claude) /\ AtSound(agents) /\ ignored \in BOOLEAN /\ runFaults \in 0..MaxRunFaults
      /\ settled \in BOOLEAN /\ raced \in BOOLEAN /\ torn \in BOOLEAN /\ overtaken \in BOOLEAN
  BY FilesFacts
<1>4. PICK o : o = runOf[p]
  OBVIOUS
<1>5. /\ runOf[p] = RunOf(o.op, o.step, o.plan, o.doc, o.failed)
      /\ runOf = [q \in Proc |-> runOf[q]]
      /\ o.step = "create" /\ o # NoRun
  BY <1>1, <1>4, Underway
<1>6. CASE agents # Nothing
  <2>1. agents' = agents /\ torn' = torn /\ runFaults' = runFaults /\ settled' = settled
    BY <1>6 DEF CreateRootInstructions
  <2>2. Quiet /\ UNCHANGED <<ignored, owned, bothReal, runCount>> /\ raced' = raced
    BY <1>1, <2>1 DEF Frame, Quiet
  <2>3. runFaults' \in 0..MaxRunFaults /\ runFaults' >= runFaults
    BY <1>2, <2>1, SameFaults
  <2> QED
    BY <1>1, <1>2, <1>4, <1>5, <2>1, <2>2, <2>3, EndKeeps
<1>7. CASE agents = Nothing
  <2>1. PICK r : r = NoRun
    OBVIOUS
  <2>2. Turned(p, r) /\ FileRunShaped(r)
    BY <1>1, <1>5, <2>1, Turns, IdleShaped
  <2>3. /\ SuitsRun(r) /\ KeepsAlone(r)
        /\ r.step \notin Clears \cup Replaces \cup Writes \cup {"create"} /\ r.step \in Harmless
    BY <2>1, IdleFits
  <2>4. PICK d : /\ agents' = File(d) /\ DocSafe(d) /\ ~Includes(d)
                 /\ \/ torn' = torn /\ runFaults' = runFaults /\ settled' = settled
                    \/ RunFault /\ torn' = TRUE /\ settled' = FALSE
    BY <1>7, EmptyIs, TemplateIs DEF CreateRootInstructions
  <2>5. AtSound(agents') /\ agents'.is = "file" /\ agents'.doc = d /\ ~Misleading(agents') /\ ~Across(agents')
    BY <2>4, SoundFiles DEF Misleading, Across
  <2>6. runFaults' \in 0..MaxRunFaults /\ runFaults' >= runFaults
    BY <1>2, <2>4, FaultIs, SameFaults
  <2>7. torn' \in BOOLEAN /\ (torn => torn') /\ settled' \in BOOLEAN /\ (settled' => settled)
    <3>1. CASE torn' = torn /\ settled' = settled
      BY <1>2, <3>1
    <3>2. CASE torn' = TRUE /\ settled' = FALSE
      BY <1>2, <3>2
    <3>3. (torn' = torn /\ settled' = settled) \/ (torn' = TRUE /\ settled' = FALSE)
      BY <2>4
    <3> QED
      BY <3>1, <3>2, <3>3
  <2>8. agents.is = "missing" /\ agents.doc = <<>>
    BY <1>7 DEF Nothing, At
  <2>9. Frames(p, r)
    BY <1>1, <1>2, <1>4, <1>5, <2>2, <2>5, <2>6, <2>7, FramesOf
  <2>10. Moves(p)
    BY <1>1, <1>2, <2>5, <2>7 DEF Moves
  <2>11. KeepsSources(p, r)
    BY <1>1, <2>5, <2>8 DEF KeepsSources
  <2>12. KeepsTexts(r)
    BY <2>8, NothingLost, <1>1, <2>7, <2>3, <2>5 DEF FilesInv, FileTypes, Texts, KeepsTexts
  <2>13. NoSelfImport'
    BY <2>4, <2>5 DEF NoSelfImport
  <2>14. KeepsSettled(p, r)
    BY <1>1, <2>5, <2>8, <2>3, <2>7 DEF Stands, Paired, UpToDate, Foreign, KeepsSettled
  <2> QED
    BY <2>3, <2>9, <2>10, <2>11, <2>12, <2>13, <2>14, Assembles
<1> QED
  BY <1>6, <1>7

-----------------------------------------------------------------------------
\* What writing AGENTS.md reaches: AGENTS.md itself, the CLAUDE.md it leads to, nothing.
OverAgents(d) ==
  /\ ~Across(agents) /\ (agents.is \in {"missing", "file"} \/ Misleading(agents) \/ Foreign(agents))
  /\ claude' = claude /\ agents'.doc = d /\ AtSound(agents')
  /\ agents'.is = "file" \/ Foreign(agents')
  /\ agents'.is = "file" <=> agents.is \in {"missing", "file"}
OverClaude(d) ==
  /\ Across(agents) /\ Reaches = "claude" /\ (claude.is = "file" \/ Foreign(claude)) /\ agents' = agents
  /\ claude'.is = claude.is /\ claude'.to = claude.to /\ claude'.doc = d /\ AtSound(claude')

LEMMA ReplaceDoc ==
  ASSUME NEW x, AtSound(x), x.is = "file" \/ Foreign(x), NEW d, DocSafe(d), NEW y, y = [x EXCEPT !.doc = d]
  PROVE  AtSound(y) /\ y.is = x.is /\ y.to = x.to /\ y.doc = d
  BY DEF AtSound, At, Foreign, Misleading

LEMMA WriteIs ==
  ASSUME AtSound(claude), AtSound(agents), NEW d, DocSafe(d), WriteAgents(d), Across(agents) => claude.is # "missing"
  PROVE  \/ OverAgents(d) \/ OverClaude(d)
         \/ Reaches \in {"error", "absent"} /\ (Reaches = "absent" => Across(agents)) /\ claude' = claude /\ agents' = agents
<1>1. (agents.is = "missing" <=> agents = Nothing) /\ (claude.is = "missing" <=> claude = Nothing)
  BY MissingIs
<1>2. CASE Reaches = "agents"
  BY <1>2, ReachIs, ReplaceDoc DEF WriteAgents, OverAgents, Across, Foreign
<1>3. CASE Reaches = "claude"
  BY <1>3, ReachIs, ReplaceDoc DEF WriteAgents, OverClaude
<1>4. CASE Reaches = "absent" /\ agents = Nothing
  <2>0. agents.to = ""
    BY <1>4 DEF Nothing, At
  <2>1. agents' = File(d) /\ claude' = claude
    BY <1>4, <2>0 DEF WriteAgents
  <2>2. AtSound(agents') /\ agents'.is = "file" /\ agents'.doc = d
    BY <2>1, SoundFiles
  <2>3. agents.is = "missing" /\ ~Across(agents)
    BY <1>1, <1>4 DEF Across
  <2>4. OverAgents(d)
    BY <2>1, <2>2, <2>3 DEF OverAgents
  <2> QED
    BY <2>4
<1>5. CASE Reaches = "absent" /\ agents # Nothing /\ ~Across(agents)
  BY <1>1, <1>5, ReachIs, SoundFiles DEF Misleading, Across, WriteAgents, OverAgents, Foreign
<1>6. CASE Reaches = "absent" /\ Across(agents)
  BY <1>1, <1>6 DEF Across, WriteAgents
<1>7. CASE Reaches = "error"
  BY <1>7 DEF WriteAgents
<1> QED
  BY <1>2, <1>3, <1>4, <1>5, <1>6, <1>7, ReachIs

\* A write that finishes.
LEMMA WriteKeeps ==
  ASSUME FilesInv, NEW p \in Proc, NEW o, o = runOf[p], o.step \in Writes, NEW r, Turned(p, r), FileRunShaped(r),
         r.step \in {"include", "idle"}, Ever(o) => Ever(r), r.op = "setup" /\ ~r.failed => o.op = "setup" /\ ~o.failed /\ o.step = "write root",
         NEW append \in BOOLEAN, WriteAgents(o.doc), overtaken' = (overtaken \/ Current(append) # o.doc),
         torn' = torn, runFaults' = runFaults, settled' = settled, Frame
  PROVE  FilesInv'
<1>1. /\ AtSound(claude) /\ AtSound(agents) /\ ignored \in BOOLEAN /\ runFaults \in 0..MaxRunFaults
      /\ settled \in BOOLEAN /\ raced \in BOOLEAN /\ torn \in BOOLEAN /\ overtaken \in BOOLEAN
  BY FilesFacts
<1>2. /\ DocSafe(o.doc) /\ o # NoRun /\ Beside(o, claude, agents)
      /\ ~torn /\ Real(claude) => Ever(o)
      /\ ~raced /\ o.op = "setup" /\ ~o.failed => Reached(o, claude, agents, ignored)
  <2>1. o.step # "idle"
    BY DEF Writes
  <2> QED
    BY <2>1, Underway
<1>3. PICK d : d = o.doc
  OBVIOUS
<1>4. Across(agents) => claude.is # "missing"
  BY <1>2 DEF Beside
<1>5. \/ OverAgents(d) \/ OverClaude(d)
      \/ Reaches \in {"error", "absent"} /\ (Reaches = "absent" => Across(agents)) /\ claude' = claude /\ agents' = agents
  BY <1>1, <1>2, <1>3, <1>4, WriteIs
<1>6. runFaults' \in 0..MaxRunFaults /\ runFaults' >= runFaults /\ overtaken' \in BOOLEAN /\ (overtaken => overtaken')
  BY <1>1, SameFaults
<1>7. r.step \notin Clears \cup Replaces \cup Writes \cup {"create", "remove", "root"} /\ r.step \in Harmless
  BY DEF Clears, Replaces, Writes, Harmless
<1>8. ~raced /\ r.op = "setup" /\ ~r.failed =>
        Stands(claude, agents, ignored) \/ (Clear(claude, agents, ignored) /\ Refreshed(d) /\ Has(d, "mark"))
  BY <1>2, <1>3 DEF Reached
<1>9. AtSound(claude') /\ AtSound(agents')
  BY <1>1, <1>5 DEF OverAgents, OverClaude
<1>10. Frames(p, r)
  BY <1>1, <1>2, <1>6, <1>9, FramesOf
<1>11. SuitsRun(r)
  <2>1. ~torn' /\ Real(claude') => Real(claude)
    BY <1>3, <1>5 DEF OverAgents, FilesInv, Guarded, OverClaude, Through, Real
  <2>2. ~torn' /\ Real(claude') => Ever(r)
    BY <1>2, <2>1
  <2> QED
    BY <1>7, <2>2 DEF SuitsRun, Beside, Through
<1>12. Guarded' => Guarded
  BY DEF Guarded, Frame
<1>13. ASSUME Guarded, OverClaude(d), claude.is = "file" PROVE Includes(claude'.doc) <=> Includes(claude.doc)
  BY <1>3, <1>13 DEF FilesInv, Through, OverClaude
<1>14. Moves(p)
  BY <1>12, <1>13, <1>5 DEF Moves, OverAgents, Misleading, Foreign, Across, Guarded, OverClaude, Real
<1>15. KeepsSources(p, r)
  BY <1>7, <1>5 DEF Writes, OverAgents, Foreign, KeepsSources, OverClaude, Across
<1>16. (Current(append) = d /\ ~overtaken) \/ overtaken'
  BY <1>1, <1>3
<1>17. ASSUME Current(append) = d, OverAgents(d)
       PROVE  \/ Keeps(d, agents.doc) /\ (agents.is = "file" \/ Foreign(agents))
              \/ d = Template /\ agents.doc = <<>> /\ agents.is # "file"
  BY <1>1, ReachIs, <1>17, RefreshIs DEF Current, OverAgents, AtSound, Misleading, Foreign
<1>18. ASSUME Current(append) = d, OverClaude(d) PROVE Keeps(d, claude.doc)
  BY <1>1, <1>18, ReachIs, RefreshIs DEF OverClaude, Current
<1>19. ASSUME NEW own, NEW x, NEW y, Keeps(y.doc, x.doc), HeldBy(own, x) PROVE HeldBy(own, y)
  BY <1>19 DEF Keeps, HeldBy
<1>20. \A own \in owned : own.tail \in BOOLEAN
  BY DEF FilesInv, FileTypes
<1>21. KeepsTexts(r)
  <2> SUFFICES ASSUME ~torn, ~overtaken, Current(append) = d
               PROVE  /\ \A own \in owned : HeldBy(own, claude') \/ HeldBy(own, agents')
                      /\ \A own \in owned : HeldBy(own, agents) => HeldBy(own, agents')
                      /\ agents'.is = "link" => agents.is = "link" /\ (Bare(agents) => Bare(agents'))
    BY <1>1, <1>7, <1>16 DEF KeepsTexts
  <2>1. \A own \in owned : HeldBy(own, claude) \/ HeldBy(own, agents)
    BY DEF FilesInv, Texts
  <2>2. CASE OverAgents(d)
    <3>1. claude' = claude /\ agents'.doc = d
      BY <2>2 DEF OverAgents
    <3>2. \A own \in owned : HeldBy(own, agents) => HeldBy(own, agents')
      <4>1. CASE Keeps(d, agents.doc)
        BY <1>19, <3>1, <4>1
      <4>2. ASSUME NEW own \in owned, agents.doc = <<>>, HeldBy(own, agents) PROVE HeldBy(own, agents')
        <5>1. own.tail \in BOOLEAN
          BY <1>20
        <5>2. PICK x, y : x = agents /\ y = agents'
          OBVIOUS
        <5>3. x.doc = <<>> \/ Bare(x)
          BY <4>2, <5>2
        <5>4. HeldBy(own, x)
          BY <4>2, <5>2
        <5>5. HeldBy(own, y)
          BY ONLY <5>1, <5>3, <5>4, NothingLost
        <5> QED
          BY <5>2, <5>5
      <4> QED
        BY <1>17, <2>2, <4>1, <4>2
    <3>3. agents'.is = "link" => agents.is = "link"
      BY <2>2 DEF OverAgents, Foreign, Misleading
    <3>4. Bare(agents) => Bare(agents')
      BY <3>1, OwnOfTemplate, <1>17, <2>2 DEF Keeps, Bare
    <3> QED
      BY <2>1, <3>1, <3>2, <3>3, <3>4
  <2>3. CASE OverClaude(d)
    <3>1. agents' = agents /\ claude'.doc = d /\ Keeps(d, claude.doc)
      BY <1>18, <2>3 DEF OverClaude
    <3>2. \A own \in owned : HeldBy(own, claude) => HeldBy(own, claude')
      BY <1>19, <3>1
    <3> QED
      BY <2>1, <3>1, <3>2
  <2>4. CASE claude' = claude /\ agents' = agents
    BY <2>1, <2>4
  <2> QED
    BY <1>5, <2>2, <2>3, <2>4
<1>22. NoSelfImport'
  <2> SUFFICES ASSUME ~overtaken, Current(append) = d, agents'.is = "file" PROVE ~Includes(agents'.doc)
    BY <1>16 DEF NoSelfImport
  <2>1. agents.is = "file" => ~Includes(agents.doc)
    BY DEF FilesInv, NoSelfImport
  <2>2. CASE OverAgents(d)
    BY <2>2, <2>1, TemplateIs, <1>17 DEF OverAgents, Foreign, Keeps
  <2>3. CASE agents' = agents
    BY <2>1, <2>3
  <2> QED
    BY <1>5, <2>2, <2>3 DEF OverClaude
<1>23. ASSUME Guarded, Stands(claude, agents, ignored) PROVE Stands(claude', agents', ignored)
  BY <1>23, <1>13, <1>5 DEF OverAgents, Stands, Misleading, Foreign, OverClaude, Real
<1>24. KeepsAlone(r)
  <2> SUFFICES ASSUME ~raced, r.op = "setup", ~r.failed PROVE Stands(claude', agents', ignored) \/ (Clear(claude', agents', ignored) /\ UpToDate(agents'))
    BY <1>7 DEF KeepsAlone, Reached, Frame, Clears, Replaces, Writes
  <2>1. Guarded
    BY DEF Guarded
  <2>2. CASE Stands(claude, agents, ignored)
    BY <1>23, <2>1, <2>2
  <2>3. CASE Clear(claude, agents, ignored) /\ Refreshed(d) /\ Has(d, "mark")
    BY <2>3, <1>1, ReachIs, <1>5 DEF Clear, Across, Misleading, Stands, AtSound, OverClaude, OverAgents, Foreign, UpToDate
  <2> QED
    BY <1>8, <2>2, <2>3
<1>25. KeepsSettled(p, r)
  BY <1>7, <1>23 DEF Guarded, Writes, Harmless, KeepsSettled
<1> QED
  BY <1>10, <1>11, <1>14, <1>15, <1>21, <1>22, <1>24, <1>25, Assembles

\* A write that a kill cuts short.
LEMMA TornKeeps ==
  ASSUME FilesInv, NEW p \in Proc, runOf[p].step \in Writes, EndRun(p), RunFault, WriteAgents(<<>>),
         torn' = TRUE, settled' = FALSE, overtaken' = overtaken, Frame
  PROVE  FilesInv'
<1>1. /\ AtSound(claude) /\ AtSound(agents) /\ runFaults \in 0..MaxRunFaults /\ raced \in BOOLEAN /\ overtaken \in BOOLEAN
  BY FilesFacts
<1>2. PICK o, r, d : o = runOf[p] /\ r = NoRun /\ d = <<>>
  OBVIOUS
<1>3. /\ runOf[p] = RunOf(o.op, o.step, o.plan, o.doc, o.failed)
      /\ runOf = [q \in Proc |-> runOf[q]]
      /\ o # NoRun /\ Beside(o, claude, agents) /\ o.step \in Writes
  <2>1. o.step # "idle"
    BY <1>2 DEF Writes
  <2> QED
    BY <1>2, <2>1, Underway
<1>4. Turned(p, r) /\ FileRunShaped(r)
  BY <1>2, <1>3, Turns, IdleShaped
<1>5. /\ SuitsRun(r) /\ KeepsAlone(r)
      /\ r.step \notin Clears \cup Replaces \cup Writes \cup {"create"} /\ r.step \in Harmless
  BY <1>2, IdleFits
<1>6. Across(agents) => claude.is # "missing"
  BY <1>3 DEF Beside
<1>7. DocSafe(d) /\ ~Includes(d)
  BY <1>2, EmptyIs
<1>8. \/ OverAgents(d) \/ OverClaude(d)
      \/ Reaches \in {"error", "absent"} /\ (Reaches = "absent" => Across(agents)) /\ claude' = claude /\ agents' = agents
  BY <1>1, <1>2, <1>6, <1>7, WriteIs
<1>9. runFaults' \in 0..MaxRunFaults /\ runFaults' >= runFaults
  BY <1>1, FaultIs
<1>10. AtSound(claude') /\ AtSound(agents')
  BY <1>1, <1>8 DEF OverAgents, OverClaude
<1>11. Frames(p, r)
  BY <1>1, <1>2, <1>3, <1>4, <1>9, <1>10, FramesOf
<1>12. Guarded' => ~(\E q \in Proc : q # p /\ runOf[q] # NoRun)
  BY <1>2, <1>3 DEF Guarded, Frame, FilesInv, Alone
<1>13. Moves(p)
  BY <1>12, <1>8 DEF Moves, OverAgents, Misleading, Foreign, Across, OverClaude
<1>14. KeepsSources(p, r)
  BY <1>2, <1>3 DEF KeepsSources, Writes
<1>15. KeepsTexts(r)
  BY DEF KeepsTexts
<1>16. NoSelfImport'
  BY <1>7, <1>8 DEF OverAgents, NoSelfImport, FilesInv, OverClaude
<1>17. KeepsSettled(p, r)
  BY DEF KeepsSettled
<1> QED
  BY <1>5, <1>11, <1>13, <1>14, <1>15, <1>16, <1>17, Assembles

LEMMA WriteRootKeeps ==
  ASSUME FilesInv, NEW p \in Proc, WriteRootInstructions(p)
  PROVE  FilesInv'
<1>1. runOf[p].step = "write root" /\ Frame /\ runOf[p].step \in Writes
  BY DEF WriteRootInstructions, Writes
<1>2. CASE RunFault /\ WriteAgents(<<>>) /\ torn' = TRUE /\ settled' = FALSE /\ EndRun(p) /\ UNCHANGED overtaken
  BY <1>1, <1>2, TornKeeps
<1>3. CASE /\ WriteAgents(runOf[p].doc) /\ Step(p, "include") /\ overtaken' = (overtaken \/ Current(TRUE) # runOf[p].doc)
           /\ UNCHANGED <<torn, runFaults, settled>>
  <2>1. PICK o : o = runOf[p]
    OBVIOUS
  <2>2. /\ runOf[p] = RunOf(o.op, o.step, o.plan, o.doc, o.failed)
        /\ runOf = [q \in Proc |-> runOf[q]]
        /\ o.step = "write root" /\ o.op = "setup"
        /\ o.plan \in Plans /\ DocSafe(o.doc) /\ o.failed \in BOOLEAN
    BY <1>1, <2>1, Underway
  <2>3. PICK r : r = RunOf(o.op, "include", o.plan, o.doc, o.failed)
    OBVIOUS
  <2>4. Turned(p, r)
    BY <1>3, <2>2, <2>3, Turns
  <2>5. r.op = o.op /\ r.step = "include" /\ r.plan = o.plan /\ r.doc = o.doc /\ r.failed = o.failed
    BY <2>3 DEF RunOf
  <2>6. FileRunShaped(r)
    BY <2>3, <2>2, <2>5 DEF RunOf, FileRunShaped
  <2>7. Ever(o) => Ever(r)
    BY <2>5 DEF Ever
  <2>8. PICK append \in BOOLEAN : append = TRUE
    OBVIOUS
  <2> QED
    BY <1>1, <1>3, <2>1, <2>2, <2>4, <2>5, <2>6, <2>7, <2>8, WriteKeeps
<1> QED
  BY <1>2, <1>3 DEF WriteRootInstructions, WriteFile

LEMMA WriteRepairKeeps ==
  ASSUME FilesInv, NEW p \in Proc, WriteRepair(p)
  PROVE  FilesInv'
<1>1. runOf[p].step = "write repair" /\ Frame /\ runOf[p].step \in Writes
  BY DEF WriteRepair, Writes
<1>2. CASE RunFault /\ WriteAgents(<<>>) /\ torn' = TRUE /\ settled' = FALSE /\ EndRun(p) /\ UNCHANGED overtaken
  BY <1>1, <1>2, TornKeeps
<1>3. CASE /\ WriteAgents(runOf[p].doc) /\ EndRun(p) /\ overtaken' = (overtaken \/ Current(FALSE) # runOf[p].doc)
           /\ UNCHANGED <<torn, runFaults, settled>>
  <2>1. PICK o, r : o = runOf[p] /\ r = NoRun
    OBVIOUS
  <2>2. /\ runOf[p] = RunOf(o.op, o.step, o.plan, o.doc, o.failed)
        /\ runOf = [q \in Proc |-> runOf[q]]
    BY <1>1, <2>1, Underway
  <2>3. Turned(p, r) /\ FileRunShaped(r)
    BY <1>3, <2>1, <2>2, Turns, IdleShaped
  <2>4. r.op # "setup" /\ r.step = "idle"
    BY <2>1, IdleIs
  <2>5. Ever(r)
    BY <2>4 DEF Ever
  <2>6. PICK append \in BOOLEAN : append = FALSE
    OBVIOUS
  <2> QED
    BY <1>1, <1>3, <2>1, <2>3, <2>4, <2>5, <2>6, WriteKeeps
<1> QED
  BY <1>2, <1>3 DEF WriteRepair, WriteFile

-----------------------------------------------------------------------------
(* The beginning, and every step.                                           *)
LEMMA PlainAts ==
  ASSUME NEW x, NEW is, NEW to, x = At(is, to, <<>>),
         (is \in {"dir", "unreadable"} /\ to = "") \/ (is = "link" /\ to \in {"toOther", "dangling"})
  PROVE  AtSound(x) /\ ~EndsLoose(x.doc) /\ x.is # "file"
  BY FixedDocs DEF At, Misleading, AtSound

LEMMA ClaudeBegins ==
  ASSUME NEW x \in {Nothing, At("dir", "", <<>>), At("unreadable", "", <<>>), File(<<"text">>), File(OldBlock \o <<"text">>),
                    File(<<"fence", "include", "fence", "text">>), File(Stub), File(<<"text", "include">>),
                    At("link", "toOther", <<>>), At("link", "foreign", <<"text">>), At("link", "dangling", <<>>)}
  PROVE  AtSound(x) /\ (EndsLoose(x.doc) => Tailed(x.doc))
<1>1. ASSUME NEW d, DocSafe(d) /\ ~EndsLoose(d), x = File(d) PROVE AtSound(x) /\ ~EndsLoose(x.doc)
  BY <1>1, SoundFiles
<1>2. CASE x \in {File(<<"text">>), File(<<"fence", "include", "fence", "text">>), File(Stub), File(<<"text", "include">>)}
  BY <1>1, <1>2, FixedDocs
<1>3. CASE x = File(OldBlock \o <<"text">>)
  BY <1>1, <1>3, FixedDocs
<1>4. CASE x = At("link", "foreign", <<"text">>)
  BY <1>4, FixedDocs, SoundFiles
<1>5. CASE x = Nothing
  BY <1>5, FixedDocs, SoundFiles, MissingIs
<1>6. CASE x = At("dir", "", <<>>) \/ x = At("unreadable", "", <<>>)
  BY <1>6, PlainAts
<1>7. CASE x = At("link", "toOther", <<>>) \/ x = At("link", "dangling", <<>>)
  BY <1>7, PlainAts
<1> QED
  BY <1>2, <1>3, <1>4, <1>5, <1>6, <1>7

LEMMA AgentsBegin ==
  ASSUME NEW x \in {Nothing, At("dir", "", <<>>), At("unreadable", "", <<>>), At("link", "toOther", <<>>),
                    At("link", "foreign", <<"heading", "text">>), At("link", "dangling", <<>>)}
                   \cup {File(doc) : doc \in DocsOf[MaxPieces]}
  PROVE  AtSound(x) /\ (EndsLoose(x.doc) => Tailed(x.doc)) /\ (x.is = "file" => ~Includes(x.doc))
<1>1. ASSUME NEW d \in DocsOf[MaxPieces], x = File(d) PROVE AtSound(x) /\ (EndsLoose(x.doc) => Tailed(x.doc)) /\ ~Includes(x.doc)
  BY FilesAssumption, DocsAreBuilt, BuiltIs, <1>1, SoundFiles
<1>2. CASE x = At("link", "foreign", <<"heading", "text">>)
  BY <1>2, FixedDocs, SoundFiles DEF Foreign
<1>3. CASE x = Nothing
  BY <1>3, FixedDocs, SoundFiles, MissingIs
<1>4. CASE x = At("dir", "", <<>>) \/ x = At("unreadable", "", <<>>)
  BY <1>4, PlainAts
<1>5. CASE x = At("link", "toOther", <<>>) \/ x = At("link", "dangling", <<>>)
  BY <1>5, PlainAts
<1> QED
  BY <1>1, <1>2, <1>3, <1>4, <1>5

LEMMA IdleIsFine ==
  \A c, a : Beside(NoRun, c, a) /\ Through(NoRun, c, a) /\ Ever(NoRun)
BY IdleIs DEF Beside, Through, Ever, Writes, Replaces, Clears

LEMMA InIsBoolean == ASSUME NEW v, NEW S, NEW x, x = FALSE \/ x = (v \in S) PROVE x \in BOOLEAN
<1> DEFINE b == v \in S
<1>1. b \in BOOLEAN
  OBVIOUS
<1>2. x = FALSE \/ x = b
  OBVIOUS
<1> HIDE DEF b
<1> QED
  BY <1>1, <1>2

LEMMA FilesBegin == FilesInit => FilesInv
<1> SUFFICES ASSUME FilesInit PROVE FilesInv
  OBVIOUS
<1>1. /\ AtSound(claude) /\ (EndsLoose(claude.doc) => Tailed(claude.doc))
      /\ AtSound(agents) /\ (EndsLoose(agents.doc) => Tailed(agents.doc)) /\ (agents.is = "file" => ~Includes(agents.doc))
  BY ClaudeBegins, AgentsBegin DEF FilesInit
<1>2. /\ runOf = [p \in Proc |-> NoRun] /\ runCount = 0 /\ runFaults = 0 /\ torn = FALSE /\ raced = FALSE
      /\ overtaken = FALSE /\ settled = FALSE /\ owned = {Own(claude.doc), Own(agents.doc)}
      /\ bothReal = (claude.is = "file" /\ agents.is = "file")
  BY DEF FilesInit
<1>3. \A p \in Proc : runOf[p] = NoRun
  BY <1>2
<1>4. ignored \in BOOLEAN
  <2>1. ignored \in {FALSE} \cup {KindOf(agents, FALSE) \in {"missing", "toOther"}}
    BY DEF FilesInit
  <2>2. ignored = FALSE \/ ignored = (KindOf(agents, FALSE) \in {"missing", "toOther"})
    BY <2>1, Zenon
  <2> QED
    BY <2>2, InIsBoolean
<1>5. FileTypes
  <2>1. \A own \in owned : own.tail \in BOOLEAN
    <3>1. \A d : Own(d).tail = EndsLoose(d)
      BY DEF Own
    <3>2. \A d : EndsLoose(d) \in BOOLEAN
      BY DEF EndsLoose
    <3> QED
      BY <1>2, <3>1, <3>2
  <2>2. \A p \in Proc : FileRunShaped(runOf[p])
    BY <1>3, IdleShaped
  <2>3. runOf = [p \in Proc |-> runOf[p]]
    BY <1>2
  <2>4. 0 \in 0..MaxRuns /\ 0 \in 0..MaxRunFaults
    BY FilesAssumption
  <2> QED
    BY <1>1, <1>2, <1>4, <2>1, <2>2, <2>3, <2>4 DEF FileTypes
<1>6. \A p \in Proc : Beside(runOf[p], claude, agents) /\ Through(runOf[p], claude, agents) /\ Ever(runOf[p])
  BY <1>3, IdleIsFine
<1>7. \A p \in Proc : runOf[p].step = "idle" /\ runOf[p].op = "none"
  BY <1>3, IdleIs
<1>8. Sources
  BY <1>2, <1>7 DEF Real, Sources, Writes
<1>9. Texts
  BY <1>1, <1>2, <1>7 DEF HeldBy, Own, Texts, Replaces
<1>10. NoSelfImport
  BY <1>1 DEF NoSelfImport
<1>11. Alone
  BY <1>3, <1>7 DEF Alone
<1>12. StaysSettled
  BY <1>2 DEF StaysSettled
<1> QED
  BY <1>5, <1>6, <1>8, <1>9, <1>10, <1>11, <1>12 DEF FilesInv

LEMMA FilesStayAsTheyAre == ASSUME FilesInv, UNCHANGED filesVars PROVE FilesInv'
<1>1. /\ claude' = claude /\ agents' = agents /\ ignored' = ignored /\ runOf' = runOf /\ runCount' = runCount
      /\ runFaults' = runFaults /\ owned' = owned /\ bothReal' = bothReal /\ torn' = torn /\ raced' = raced
      /\ overtaken' = overtaken /\ settled' = settled
  BY DEF filesVars
<1>2. FileTypes'
  BY <1>1 DEF FilesInv, FileTypes
<1>3. Sources'
  BY <1>1 DEF FilesInv, Sources, Renames
<1>4. Texts' /\ NoSelfImport'
  BY <1>1 DEF FilesInv, Texts, NoSelfImport
<1>5. Alone' /\ StaysSettled'
  BY <1>1 DEF FilesInv, Alone, StaysSettled
<1>6. /\ \A p \in Proc : Beside(runOf'[p], claude', agents')
      /\ Guarded' => \A p \in Proc : Through(runOf'[p], claude', agents')
      /\ ~torn' /\ Real(claude') => \A p \in Proc : Ever(runOf'[p])
  BY <1>1 DEF FilesInv, Guarded
<1> QED
  BY <1>2, <1>3, <1>4, <1>5, <1>6 DEF FilesInv

LEMMA FilesKeep == ASSUME FilesInv, FilesNext PROVE FilesInv'
<1>1. PICK p \in Proc :
        \/ BeginRun(p) \/ RemoveAgentsLink(p) \/ RenameClaude(p) \/ ApplyRootInstructions(p)
        \/ WriteRootInstructions(p) \/ ApplyIncludeFile(p) \/ RemoveClaudeLink(p) \/ WriteStub(p)
        \/ RepairReads(p) \/ WriteRepair(p) \/ CreateRootInstructions(p) \/ RunKilled(p)
  BY DEF FilesNext
<1>2. CASE BeginRun(p)
  BY <1>2, BeginKeeps
<1>3. CASE RemoveAgentsLink(p)
  BY <1>3, RemoveKeeps
<1>4. CASE RenameClaude(p)
  BY <1>4, RenameKeeps
<1>5. CASE ApplyRootInstructions(p)
  BY <1>5, RootKeeps
<1>6. CASE WriteRootInstructions(p)
  BY <1>6, WriteRootKeeps
<1>7. CASE ApplyIncludeFile(p)
  BY <1>7, IncludeKeeps
<1>8. CASE RemoveClaudeLink(p)
  BY <1>8, UnlinkKeeps
<1>9. CASE WriteStub(p)
  BY <1>9, StubKeeps
<1>10. CASE RepairReads(p)
  BY <1>10, RepairKeeps
<1>11. CASE WriteRepair(p)
  BY <1>11, WriteRepairKeeps
<1>12. CASE CreateRootInstructions(p)
  BY <1>12, CreateKeeps
<1>13. CASE RunKilled(p)
  BY <1>13, KillKeeps
<1> QED
  BY <1>1, <1>2, <1>3, <1>4, <1>5, <1>6, <1>7, <1>8, <1>9, <1>10, <1>11, <1>12, <1>13

\* The invariant of the two instruction files (instructions_layout.go,
\* instructions.go, setup.go): whatever a setup, a start or a heal that is under
\* way has read, it still suits what lies at the two paths, however many
\* processes work, are cut short or fail.
THEOREM FilesInvariance == FilesSpec => []FilesInv
<1>1. FilesInit => FilesInv
  BY FilesBegin
<1>2. FilesInv /\ [FilesNext]_filesVars => FilesInv'
  BY FilesKeep, FilesStayAsTheyAre
<1> QED
  BY <1>1, <1>2, PTL DEF FilesSpec

-----------------------------------------------------------------------------
(* What follows from it.                                                    *)
LEMMA KeptTexts == ASSUME FilesInv PROVE TextStays
  BY DEF TextStays, FilesInv, Texts, HeldBy, Own, Tailed, Has

LEMMA KeptSource == ASSUME FilesInv PROVE OneSource
  BY FilesFacts, KindIs, IdleIs DEF OneSource, AllIdle, Renames, FilesInv, Sources

LEMMA KeptSettled == ASSUME FilesInv PROVE SetupSettles
  BY FilesFacts, PlanIs, KindIs, PairedIs, ReachIs DEF SetupSettles, FilesInv, StaysSettled, Paired, Real, UpToDate,
     Misleading, Foreign

LEMMA KeptFiles == ASSUME FilesInv PROVE InstructionsKept
BY KeptTexts, KeptSource, KeptSettled DEF InstructionsKept, FilesInv

\* What a setup, a start and a heal promise of the two instruction files of a
\* project (instructions_layout.go, instructions.go, setup.go), for any number
\* of processes, runs, failures and pieces of the file found at the beginning:
\* no text of the project is lost unless a kill cut a file short or a run
\* overtook another; no second source of instructions is left; AGENTS.md never
\* imports itself; and a setup that ended alone and without an error has
\* settled the pair, so that a second one would change nothing.
THEOREM InstructionsAreKept == FilesSpec => []InstructionsKept
<1>1. FilesInv => InstructionsKept
  BY KeptFiles
<1> QED
  BY <1>1, FilesInvariance, PTL

LEMMA FilesTypes == ASSUME FilesInv PROVE FilesTypeOK
  BY FilesFacts, KindIs, IdleIs DEF FileRunShaped, Plans, RunSteps, FilesTypeOK

\* The types of the instruction files and of the runs on them, which
\* instructions_layout.go sorts into the cases of its matrix.
THEOREM FilesTypeCorrect == FilesSpec => []FilesTypeOK
<1>1. FilesInv => FilesTypeOK
  BY FilesTypes
<1> QED
  BY <1>1, FilesInvariance, PTL

\* What refreshing the blocks of k-playbook does to an AGENTS.md as it may be
\* found (refresh of the blocks in instructions.go), however many pieces it has:
\* the lines of the project stay, text that nothing separates from a block
\* stays, no import appears, and a second refresh changes nothing.
THEOREM RefreshLosesNothing ==
  \A n \in Nat, append \in BOOLEAN : \A d \in DocsOf[n] :
    /\ OwnText(Refresh(d, append)) = OwnText(d)
    /\ EndsLoose(d) => Has(Refresh(d, append), "loose")
    /\ ~Includes(Refresh(d, append))
    /\ append => Has(Refresh(d, append), "mark")
    /\ Refresh(Refresh(d, append), append) = Refresh(d, append)
  BY DocsAreBuilt, BuiltIs, RefreshIs, RefreshAgain DEF Keeps, Tailed, Has
===============================================================================
