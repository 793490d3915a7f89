------------------------------ MODULE NpmRange ------------------------------
(***************************************************************************)
(* The check of a locked version against the ranges of package.json         *)
(* (internal/inventory/npmrange.go), as sets of conditions on versions that *)
(* are already read.  Numbers are naturals: the program's are 64 bits wide.  *)
(***************************************************************************)
EXTENDS Integers, Sequences

\* A version; pre is the sequence of its prerelease identifiers.
Version(major, minor, patch, pre) == [major |-> major, minor |-> minor, patch |-> patch, pre |-> pre]
Zero == [word |-> FALSE, value |-> 0]   \* the identifier 0
Letters(n) == [word |-> TRUE, value |-> n] \* the n-th word in the order of its bytes

CoreBefore(a, b) ==
  \/ a.major < b.major
  \/ a.major = b.major /\ a.minor < b.minor
  \/ a.major = b.major /\ a.minor = b.minor /\ a.patch < b.patch
SameCore(a, b) == a.major = b.major /\ a.minor = b.minor /\ a.patch = b.patch

\* Numbers come before words.
IdBefore(a, b) == IF a.word = b.word THEN a.value < b.value ELSE b.word

\* A version without identifiers comes after the same one with them.
PreBefore(p, q) ==
  /\ p # <<>>
  /\ \/ q = <<>>
     \/ Len(p) < Len(q) /\ \A i \in 1..Len(p) : p[i] = q[i]
     \/ \E i \in 1..Len(p) : /\ i <= Len(q) /\ IdBefore(p[i], q[i])
                             /\ \A j \in 1..(i - 1) : p[j] = q[j]

\* compareSemver: a comes before b.
Older(a, b) == CoreBefore(a, b) \/ (SameCore(a, b) /\ PreBefore(a.pre, b.pre))

(***************************************************************************)
(* Conditions                                                              *)
(***************************************************************************)
Comparator(op, version) == [op |-> op, version |-> version]
AnyVersion == Comparator("any", Version(0, 0, 0, <<>>))
None == Comparator("<", Version(0, 0, 0, <<Zero>>))

Test(c, v) ==
  CASE c.op = "any" -> TRUE
    [] c.op = ">=" -> ~Older(v, c.version)
    [] c.op = ">" -> Older(c.version, v)
    [] c.op = "<" -> Older(v, c.version)
    [] c.op = "<=" -> ~Older(c.version, v)
    [] OTHER -> ~Older(v, c.version) /\ ~Older(c.version, v)

\* testSet: a prerelease also needs a condition that names one of the same core.
TestSet(set, v) ==
  /\ \A c \in set : Test(c, v)
  /\ v.pre # <<>> => \E c \in set : c.op # "any" /\ c.version.pre # <<>> /\ SameCore(c.version, v)

(***************************************************************************)
(* What a declaration says.  A part that is missing or x is X; only a       *)
(* partial without X has identifiers.                                      *)
(***************************************************************************)
X == -1
Partial(major, minor, patch, pre) == Version(major, minor, patch, pre)
AnyX(p) == p.major = X \/ p.minor = X \/ p.patch = X
AtLeast(major, minor, patch, pre) == Comparator(">=", Version(major, minor, patch, pre))
Below(major, minor, patch) == Comparator("<", Version(major, minor, patch, <<Zero>>))

Tilde(p) ==
  IF p.major = X THEN {AnyVersion}
  ELSE IF p.minor = X THEN {AtLeast(p.major, 0, 0, <<>>), Below(p.major + 1, 0, 0)}
  ELSE {AtLeast(p.major, p.minor, IF p.patch = X THEN 0 ELSE p.patch, p.pre), Below(p.major, p.minor + 1, 0)}

\* caret: the first place that is not 0 stays.
Caret(p) ==
  IF p.major = X THEN {AnyVersion}
  ELSE IF p.minor = X THEN {AtLeast(p.major, 0, 0, <<>>), Below(p.major + 1, 0, 0)}
  ELSE IF p.patch = X
       THEN {AtLeast(p.major, p.minor, 0, <<>>),
             IF p.major = 0 THEN Below(0, p.minor + 1, 0) ELSE Below(p.major + 1, 0, 0)}
  ELSE {AtLeast(p.major, p.minor, p.patch, p.pre),
        IF p.major # 0 THEN Below(p.major + 1, 0, 0)
        ELSE IF p.minor # 0 THEN Below(0, p.minor + 1, 0) ELSE Below(0, 0, p.patch + 1)}

\* The comparison of a partial with a part that is X.
Widened(op, p) ==
  LET minor == IF p.minor = X THEN 0 ELSE p.minor
      nextMajor == IF p.minor = X THEN p.major + 1 ELSE p.major
      nextMinor == IF p.minor = X THEN 0 ELSE p.minor + 1
  IN CASE op = ">=" -> AtLeast(p.major, minor, 0, <<>>)
       [] op = ">" -> AtLeast(nextMajor, nextMinor, 0, <<>>)
       [] op = "<" -> Below(p.major, minor, 0)
       [] OTHER -> Below(nextMajor, nextMinor, 0)

XRange(op, p) ==
  IF p.major = X THEN {IF op \in {">", "<"} THEN None ELSE AnyVersion}
  ELSE IF ~AnyX(p) THEN {Comparator(op, p)}
  ELSE IF op # "=" THEN {Widened(op, p)}
  ELSE {Widened(">=", p), Widened("<=", p)}

\* parseHyphen: from - to.
Hyphen(from, to) ==
  LET lower == IF from.major = X THEN {}
               ELSE IF AnyX(from) THEN {Widened(">=", from)} ELSE {Comparator(">=", from)}
      upper == IF to.major = X THEN {}
               ELSE IF AnyX(to) THEN {Widened("<=", to)} ELSE {Comparator("<=", to)}
  IN IF lower \cup upper = {} THEN {AnyVersion} ELSE lower \cup upper

\* parseToken; no operator is "=".
TokenSet(op, p) == CASE op = "~" -> Tilde(p) [] op = "^" -> Caret(p) [] OTHER -> XRange(op, p)

\* A declaration is a set of alternatives, {} is one that cannot be checked; NotFull
\* is a locked one that is no full version.
NotFull == Version(X, X, X, <<>>)
Checkable(range, v) == range # {} /\ v # NotFull
Satisfies(range, v) == \E set \in range : TestSet(set, v)

(***************************************************************************)
(* What the ranges mean, place by place                                    *)
(***************************************************************************)
\* The number of places given before the first X.
Given(p) == IF p.major = X THEN 0 ELSE IF p.minor = X THEN 1 ELSE IF p.patch = X THEN 2 ELSE 3
Place(v, n) == CASE n = 1 -> v.major [] n = 2 -> v.minor [] OTHER -> v.patch
Agree(p, v, n) == \A i \in 1..n : Place(p, i) = Place(v, i)
Ahead(a, b, n) == \E i \in 1..n : Place(a, i) < Place(b, i) /\ Agree(a, b, i - 1)
Fixed(p) == IF \E i \in 1..Given(p) : Place(p, i) # 0
            THEN CHOOSE i \in 1..Given(p) : Place(p, i) # 0 /\ \A j \in 1..(i - 1) : Place(p, j) = 0
            ELSE Given(p)

\* A released version meets one token.
Meets(op, p, v) ==
  LET n == Given(p)
      below == Ahead(v, p, n)
      above == Ahead(p, v, n) \/ (n = 3 /\ Agree(p, v, 3) /\ p.pre # <<>>)
  IN CASE op = "=" -> ~below /\ ~above
       [] op = ">=" -> ~below
       [] op = ">" -> above
       [] op = "<" -> below
       [] op = "<=" -> ~above
       [] op = "~" -> ~below /\ Agree(p, v, IF n < 2 THEN n ELSE 2)
       [] OTHER -> ~below /\ Agree(p, v, Fixed(p))

\* Small versions, releases and prereleases, and partials of all shapes.
Parts == 0..2
Releases == {Version(a, b, c, <<>>) : a \in Parts, b \in Parts, c \in Parts}
Betas == {<<Letters(1)>>, <<Letters(1), Zero>>, <<Zero>>}
Prereleases == {Version(a, b, c, pre) : a \in 0..1, b \in 0..1, c \in 0..1, pre \in Betas}
Partials == {Partial(a, b, c, <<>>) : a \in {X, 0, 1}, b \in {X, 0, 1}, c \in {X, 0, 1}}
              \cup {Partial(a, b, c, <<Letters(1)>>) : a \in 0..1, b \in 0..1, c \in 0..1}
Operators == {"=", ">=", ">", "<", "<=", "~", "^"}

\* One token, and a range from one version to another: for a released version the
\* conditions say what the range means, place by place.
ReleasesTrue ==
  \A p \in Partials, v \in Releases :
    /\ \A op \in Operators : TestSet(TokenSet(op, p), v) <=> Meets(op, p, v)
    /\ \A to \in Partials : TestSet(Hyphen(p, to), v) <=> Meets(">=", p, v) /\ Meets("<=", to, v)

\* A prerelease meets a range only where the range names a prerelease of the same
\* version and, by order, lets this one in; the prerelease of an upper bound never does.
PrereleasesTrue ==
  \A p \in Partials, v \in Prereleases, op \in Operators :
    TestSet(TokenSet(op, p), v) =>
      /\ p.pre # <<>> /\ SameCore(p, v)
      /\ op \in {">=", "~", "^"} => ~Older(v, p)
      /\ op \in {"<=", "="} => ~Older(p, v)
==============================================================================
