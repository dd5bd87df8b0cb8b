------------------------- MODULE ReleaseRequirements -------------------------
(* .github/scripts/release_evidence.py: the requirement language of the release  *)
(* evidence, written without the packaging library.  Versions and specifiers,    *)
(* the marker expression, and the search for a cycle among the first-party       *)
(* wheels, each against a reference definition: PEP 440's own words, the marker  *)
(* grammar, reachability.                                                        *)
EXTENDS Integers, Sequences, FiniteSets, FiniteSetsExt, Relation

CONSTANTS
    None,
    Versions,  \* bound: the versions compared
    Wheels,    \* bound: first-party wheels
    MaxTokens, \* bound: tokens of a marker
    Broken     \* a marker that does not parse

\* What the constants must satisfy.
RequirementsAssumption == Versions # {} /\ MaxTokens \in Nat

VARIABLES
    version, required, \* a version and the one of a specifier
    tokens,            \* tokens of a marker, comparisons already evaluated
    edges              \* dependencies among the first-party wheels

vars == <<version, required, tokens, edges>>

Min2(a, b) == IF a < b THEN a ELSE b
Sign(n) == IF n > 0 THEN 1 ELSE IF n < 0 THEN -1 ELSE 0

----------------------------------------------------------------------------
(* versions *)

\* Tuples compare by their first difference, then by length.
CompareTuples(a, b) ==
    LET D == {i \in 1..Min2(Len(a), Len(b)) : a[i] # b[i]}
    IN IF D = {} THEN Sign(Len(a) - Len(b)) ELSE Sign(a[Min(D)] - b[Min(D)])

Width(v, r) == IF Len(v.release) > Len(r.release) THEN Len(v.release) ELSE Len(r.release)
Pad(release, w) == [i \in 1..w |-> IF i <= Len(release) THEN release[i] ELSE 0]

\* _version_key, its tuples written one after the other.
VersionKey(v, w, local) ==
    <<v.epoch>> \o Pad(v.release, w)
    \o (IF v.pre # None THEN <<0>> \o v.pre
        ELSE IF v.post = None /\ v.dev # None THEN <<-1, 0, 0>> ELSE <<1, 0, 0>>)
    \o (IF v.post = None THEN <<-1, 0>> ELSE <<0, v.post>>)
    \o (IF v.dev = None THEN <<0, 0>> ELSE <<-1, v.dev>>)
    \o (IF local /\ v.local # None THEN <<0>> \o v.local ELSE <<-1>>)

CompareVersions(v, r, local) ==
    CompareTuples(VersionKey(v, Width(v, r), local), VersionKey(r, Width(v, r), local))

SameRelease(v, r) == v.epoch = r.epoch /\ Pad(v.release, Width(v, r)) = Pad(r.release, Width(v, r))

Prerelease(v) == v.pre # None \/ v.dev # None

\* The release of v begins with the given prefix, missing places being zero.
HasPrefix(v, prefix) ==
    LET p == Pad(v.release, IF Len(v.release) > Len(prefix) THEN Len(v.release) ELSE Len(prefix))
    IN \A i \in 1..Len(prefix) : p[i] = prefix[i]

Plain(r) == r.pre = None /\ r.post = None /\ r.dev = None /\ r.local = None

\* _parse_specifiers: which specifiers there are.
Specifier(op, r) ==
    CASE op \in {"==*", "!=*"} -> Plain(r)
      [] op = "~=" -> Len(r.release) >= 2 /\ r.local = None
      [] op \in {"<", "<=", ">", ">="} -> r.local = None
      [] OTHER -> TRUE

\* The upper bound of < and the lower bounds of > in _version_satisfies.
LessThan(v, r) ==
    IF r.pre = None /\ r.dev = None
    THEN /\ CompareVersions(v, [r EXCEPT !.dev = 0, !.local = None], FALSE) < 0
         /\ ~(Prerelease(v) /\ SameRelease(v, r))
    ELSE CompareVersions(v, r, FALSE) < 0

\* Mutant of GreaterThan: the final exclusion of post releases and local
\* versions is missing.
GreaterThanBound(v, r) ==
    CASE r.dev # None -> CompareVersions(v, [r EXCEPT !.dev = @ + 1, !.local = None], FALSE) >= 0
      [] r.dev = None /\ r.post # None ->
           CompareVersions(v, [r EXCEPT !.post = @ + 1, !.dev = 0, !.local = None], FALSE) >= 0
      [] OTHER -> /\ CompareVersions(v, r, FALSE) > 0
                  /\ ~(SameRelease(v, r) /\ v.pre = r.pre /\ v.post # None)

GreaterThan(v, r) ==
    /\ CASE r.dev # None -> CompareVersions(v, [r EXCEPT !.dev = @ + 1, !.local = None], FALSE) >= 0
         [] r.dev = None /\ r.post # None ->
              CompareVersions(v, [r EXCEPT !.post = @ + 1, !.dev = 0, !.local = None], FALSE) >= 0
         [] OTHER -> /\ CompareVersions(v, r, FALSE) > 0
                     /\ ~(SameRelease(v, r) /\ v.pre = r.pre /\ v.post # None)
    /\ ~(SameRelease(v, r) /\ ((r.post = None /\ v.post # None) \/ v.local # None))

\* One specifier of _version_satisfies.
Satisfies(v, op, r) ==
    CASE op = "==*" -> v.epoch = r.epoch /\ HasPrefix(v, r.release)
      [] op = "!=*" -> ~(v.epoch = r.epoch /\ HasPrefix(v, r.release))
      [] op = "~=" -> /\ CompareVersions(v, r, FALSE) >= 0 /\ v.epoch = r.epoch
                      /\ HasPrefix(v, SubSeq(r.release, 1, Len(r.release) - 1))
      [] op = "==" -> CompareVersions(v, r, r.local # None) = 0
      [] op = "!=" -> CompareVersions(v, r, r.local # None) # 0
      [] op = "<=" -> CompareVersions(v, r, FALSE) <= 0
      [] op = ">=" -> CompareVersions(v, r, FALSE) >= 0
      [] op = "<" -> LessThan(v, r)
      [] op = ">" -> GreaterThan(v, r)

Operators == {"==", "!=", "<", "<=", ">", ">=", "~=", "==*", "!=*"}

\* A pre-release is taken only where a specifier names one.
AllowsPrereleases(op, r) == op \notin {"!=", "==*", "!=*"} /\ Prerelease(r)
VersionSatisfies(v, op, r) == (Prerelease(v) => AllowsPrereleases(op, r)) /\ Satisfies(v, op, r)

----------------------------------------------------------------------------
(* the reference: PEP 440 *)

\* Within a release: developments of the final release, pre-releases, the final
\* release and its post releases; each of them after its own developments.
Phase(v) == IF v.pre # None THEN 1 ELSE IF v.post = None /\ v.dev # None THEN 0 ELSE 2
Known(x) == IF x = None THEN -1 ELSE x
Finished(v) == IF v.dev = None THEN 1 ELSE 0

RefOrder(v, r) ==
    LET at(n) == [i \in 1..3 |-> IF i <= Len(n.release) THEN n.release[i] ELSE 0]
        steps == << Sign(v.epoch - r.epoch), CompareTuples(at(v), at(r)), Sign(Phase(v) - Phase(r)),
                    IF v.pre # None /\ r.pre # None THEN CompareTuples(v.pre, r.pre) ELSE 0,
                    Sign(Known(v.post) - Known(r.post)), Sign(Finished(v) - Finished(r)),
                    Sign(Known(v.dev) - Known(r.dev)) >>
        D == {i \in 1..7 : steps[i] # 0}
    IN IF D = {} THEN 0 ELSE steps[Min(D)]

\* With its local part, a version comes after the same version without one.
RefOrderLocal(v, r) ==
    IF RefOrder(v, r) # 0 THEN RefOrder(v, r)
    ELSE CASE v.local = None /\ r.local = None -> 0
           [] v.local = None /\ r.local # None -> -1
           [] v.local # None /\ r.local = None -> 1
           [] OTHER -> CompareTuples(v.local, r.local)

BaseVersion(v) == [v EXCEPT !.pre = None, !.post = None, !.dev = None, !.local = None]
SameBase(v, r) == RefOrder(BaseVersion(v), BaseVersion(r)) = 0

RefSatisfies(v, op, r) ==
    CASE op = "<" -> RefOrderLocal(v, r) < 0 /\ (SameBase(v, r) /\ Prerelease(v) => Prerelease(r))
      [] op = ">" -> /\ RefOrderLocal(v, r) > 0
                     /\ SameBase(v, r) => (v.post = None \/ r.post # None) /\ v.local = None
      [] op = "<=" -> RefOrder(v, r) <= 0
      [] op = ">=" -> RefOrder(v, r) >= 0
      [] op = "==" -> IF r.local = None THEN RefOrder(v, r) = 0 ELSE RefOrderLocal(v, r) = 0
      [] op = "!=" -> ~(IF r.local = None THEN RefOrder(v, r) = 0 ELSE RefOrderLocal(v, r) = 0)
      [] op = "==*" -> HasPrefix(v, r.release) /\ v.epoch = r.epoch
      [] op = "!=*" -> ~(HasPrefix(v, r.release) /\ v.epoch = r.epoch)
      [] op = "~=" -> RefOrder(v, r) >= 0 /\ v.epoch = r.epoch /\ HasPrefix(v, SubSeq(r.release, 1, Len(r.release) - 1))

----------------------------------------------------------------------------
(* the marker expression *)

Alphabet == {"(", ")", "and", "or", "true", "false"}

\* The recursive descent of _evaluate_marker over the tokens s: parse gives, for a
\* rule, the value so far and a position, the value and the position behind it, or
\* Broken.
At(s, i, t) == i <= Len(s) /\ s[i] = t

Atom(s, i, parse) ==
    CASE At(s, i, "(") ->
           LET d == parse["or", FALSE, i + 1]
           IN IF d = Broken \/ ~At(s, IF d = Broken THEN i ELSE d[2], ")") THEN Broken ELSE <<d[1], d[2] + 1>>
      [] At(s, i, "true") -> <<TRUE, i + 1>>
      [] At(s, i, "false") -> <<FALSE, i + 1>>
      [] OTHER -> Broken

AndTail(s, b, i, parse) ==
    IF ~At(s, i, "and") THEN <<b, i>>
    ELSE LET a == parse["atom", b, i + 1] IN IF a = Broken THEN Broken ELSE parse["and tail", b /\ a[1], a[2]]

Conjunction(i, parse) ==
    LET a == parse["atom", TRUE, i] IN IF a = Broken THEN Broken ELSE parse["and tail", a[1], a[2]]

OrTail(s, b, i, parse) ==
    IF ~At(s, i, "or") THEN <<b, i>>
    ELSE LET c == parse["and", b, i + 1] IN IF c = Broken THEN Broken ELSE parse["or tail", b \/ c[1], c[2]]

Disjunction(i, parse) ==
    LET c == parse["and", TRUE, i] IN IF c = Broken THEN Broken ELSE parse["or tail", c[1], c[2]]

Descent(s) ==
    LET parse[rule \in {"atom", "and", "and tail", "or", "or tail"}, b \in BOOLEAN, i \in Nat] ==
          CASE rule = "atom" -> Atom(s, i, parse)
            [] rule = "and" -> Conjunction(i, parse)
            [] rule = "and tail" -> AndTail(s, b, i, parse)
            [] rule = "or" -> Disjunction(i, parse)
            [] rule = "or tail" -> OrTail(s, b, i, parse)
    IN parse["or", FALSE, 1]

\* Trailing tokens are an error.
EvaluateMarker(s) ==
    LET d == Descent(s) IN IF d = Broken \/ (IF d = Broken THEN 0 ELSE d[2]) # Len(s) + 1 THEN Broken ELSE d[1]

\* The reference: the values the marker grammar gives the tokens i..j of s.
Splits(s, i, j, t) == {k \in (i + 1)..(j - 1) : s[k] = t}
AtomValues(s, i, j, values) ==
    CASE i = j /\ s[i] = "true" -> {TRUE}
      [] i = j /\ s[i] = "false" -> {FALSE}
      [] i + 2 <= j /\ s[i] = "(" /\ s[j] = ")" -> values["or", i + 1, j - 1]
      [] OTHER -> {}
AndValues(s, i, j, values) ==
    values["atom", i, j] \cup
    UNION {{a /\ b : a \in values["and", i, k - 1], b \in values["atom", k + 1, j]} : k \in Splits(s, i, j, "and")}
OrValues(s, i, j, values) ==
    values["and", i, j] \cup
    UNION {{a \/ b : a \in values["or", i, k - 1], b \in values["and", k + 1, j]} : k \in Splits(s, i, j, "or")}
GrammarValues(s) ==
    LET values[rule \in {"atom", "and", "or"}, i \in Nat, j \in Nat] ==
          CASE rule = "atom" -> AtomValues(s, i, j, values)
            [] rule = "and" -> AndValues(s, i, j, values)
            [] rule = "or" -> OrValues(s, i, j, values)
    IN IF s = <<>> THEN {} ELSE values["or", 1, Len(s)]

----------------------------------------------------------------------------
(* the dependency graph *)

\* visit of _reject_first_party_dependency_cycles: wheels on the path, wheels
\* finished; Broken when the path is met again.
Visit[w \in Wheels, path \in SUBSET Wheels, done \in (SUBSET Wheels) \cup {Broken}] ==
    IF done = Broken THEN Broken
    ELSE IF w \in path THEN Broken
         ELSE IF w \in done THEN done
              ELSE LET d == FoldSet(LAMBDA x, acc : Visit[x, path \cup {w}, acc], done, edges[w])
                   IN IF d = Broken THEN Broken ELSE d \cup {w}

CycleRejected == FoldSet(LAMBDA w, acc : Visit[w, {}, acc], {}, Wheels) = Broken

\* The reference: some wheel reaches itself.
Cyclic ==
    LET T == TransitiveClosure([x, y \in Wheels |-> y \in edges[x]], Wheels)
    IN \E w \in Wheels : T[w, w]

----------------------------------------------------------------------------
Init ==
    /\ version \in Versions /\ required = None
    /\ tokens = <<>> /\ edges = [w \in Wheels |-> {}]

Fresh == required = None /\ version = CHOOSE v \in Versions : TRUE

Ask ==
    /\ required = None /\ tokens = <<>> /\ \A w \in Wheels : edges[w] = {}
    /\ required' \in Versions /\ UNCHANGED <<version, tokens, edges>>

ReadToken ==
    /\ Fresh /\ Len(tokens) < MaxTokens /\ \A w \in Wheels : edges[w] = {}
    /\ \E t \in Alphabet : tokens' = Append(tokens, t)
    /\ UNCHANGED <<version, required, edges>>

AddDependency ==
    /\ Fresh /\ tokens = <<>>
    /\ \E w, x \in Wheels : x \notin edges[w] /\ edges' = [edges EXCEPT ![w] = @ \cup {x}]
    /\ UNCHANGED <<version, required, tokens>>

Next == Ask \/ ReadToken \/ AddDependency

Spec == Init /\ [][Next]_vars

----------------------------------------------------------------------------
(* Properties *)

\* The order of the version keys is the order of PEP 440, whatever the widths
\* of the two releases.
OrderIsPep440 ==
    required # None =>
        /\ CompareVersions(version, required, FALSE) = RefOrder(version, required)
        /\ CompareVersions(version, required, TRUE) = RefOrderLocal(version, required)

\* Every specifier accepts exactly the versions PEP 440 gives it: the bounds the
\* code moves to a neighbouring development or post release exclude no more and
\* no less.  A pre-release is only taken where the specifier itself names one.
SpecifiersArePep440 ==
    required # None =>
        \A op \in Operators : Specifier(op, required) =>
            /\ Satisfies(version, op, required) <=> RefSatisfies(version, op, required)
            /\ VersionSatisfies(version, op, required) =>
                   (Prerelease(version) => op \in {"==", "<", "<=", ">", ">=", "~="} /\ Prerelease(required))

\* A marker has a value exactly when the grammar gives it one, and then that one.
MarkerIsGrammar ==
    GrammarValues(tokens) = IF EvaluateMarker(tokens) = Broken THEN {} ELSE {EvaluateMarker(tokens)}

\* The wheels are refused exactly when one of them depends on itself.
CyclesAreFound == CycleRejected <=> Cyclic
=============================================================================
