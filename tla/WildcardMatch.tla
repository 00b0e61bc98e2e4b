--------------------------- MODULE WildcardMatch ---------------------------
(***************************************************************************)
(* Matching the specifier of a permission rule (agent-runner/src/rules.ts):*)
(* the two-pointer algorithm of wildcardMatch, one iteration of one of its *)
(* loops a step, against the meaning of a pattern. A deny rule that fails  *)
(* to match lets a tool run.                                               *)
(*                                                                         *)
(* Indices count characters consumed, as in the code, so the next          *)
(* character of the pattern is pattern[pi + 1]. Unset is the code's -1.    *)
(***************************************************************************)
EXTENDS Naturals, Sequences

CONSTANTS
    Chars,          \* the characters of patterns and values, the wildcard aside
    Star,           \* the character *
    MaxPattern,     \* bound on the length of a pattern
    MaxValue        \* bound on the length of a value

ASSUME WildcardBounds == Star \notin Chars /\ MaxPattern \in Nat /\ MaxValue \in Nat

VARIABLES pattern, value, pi, vi, starPi, matchVi, matcher

wildcardVars == <<pattern, value, pi, vi, starPi, matchVi, matcher>>

Alphabet == Chars \cup {Star}
Texts(n) == UNION {[1 .. k -> Alphabet] : k \in 0 .. n}
Unset == MaxPattern + 1

WildcardTypeOK ==
    /\ pattern \in Seq(Alphabet) /\ value \in Seq(Alphabet)
    /\ pi \in 0 .. Len(pattern) /\ vi \in 0 .. Len(value)
    /\ starPi \in 0 .. Len(pattern) \cup {Unset}
    /\ matchVi \in 0 .. Len(value)
    /\ matcher \in {"idle", "matching", "match", "mismatch"}

WildcardInit ==
    /\ pattern = <<>> /\ value = <<>>
    /\ pi = 0 /\ vi = 0 /\ starPi = Unset /\ matchVi = 0
    /\ matcher = "idle"

BeginMatch(p, v) ==
    /\ matcher = "idle"
    /\ pattern' = p /\ value' = v
    /\ matcher' = "matching"
    /\ UNCHANGED <<pi, vi, starPi, matchVi>>

AtStar == pi < Len(pattern) /\ pattern[pi + 1] = Star
AtSame == pi < Len(pattern) /\ pattern[pi + 1] = value[vi + 1]
InValue == matcher = "matching" /\ vi < Len(value)

\* Mutant of PassStar: the wildcard has its first character already.
PassStarTaken ==
    /\ InValue /\ AtStar
    /\ starPi' = pi /\ matchVi' = vi + 1
    /\ pi' = pi + 1
    /\ UNCHANGED <<pattern, value, vi, matcher>>

\* The wildcard is looked for first: a * in the value is matched by it.
PassStar ==
    /\ InValue /\ AtStar
    /\ starPi' = pi /\ matchVi' = vi
    /\ pi' = pi + 1
    /\ UNCHANGED <<pattern, value, vi, matcher>>

PassSame ==
    /\ InValue /\ ~AtStar /\ AtSame
    /\ pi' = pi + 1 /\ vi' = vi + 1
    /\ UNCHANGED <<pattern, value, starPi, matchVi, matcher>>

\* The last * takes one character more, and matching goes on behind it.
Backtrack ==
    /\ InValue /\ ~AtStar /\ ~AtSame /\ starPi # Unset
    /\ pi' = starPi + 1
    /\ matchVi' = matchVi + 1
    /\ vi' = matchVi + 1
    /\ UNCHANGED <<pattern, value, starPi, matcher>>

FailMatch ==
    /\ InValue /\ ~AtStar /\ ~AtSame /\ starPi = Unset
    /\ matcher' = "mismatch"
    /\ UNCHANGED <<pattern, value, pi, vi, starPi, matchVi>>

\* At the end of the value: trailing wildcards match nothing.
PassTrailingStar ==
    /\ matcher = "matching" /\ vi = Len(value) /\ AtStar
    /\ pi' = pi + 1
    /\ UNCHANGED <<pattern, value, vi, starPi, matchVi, matcher>>

ReturnMatch ==
    /\ matcher = "matching" /\ vi = Len(value) /\ ~AtStar
    /\ matcher' = IF pi = Len(pattern) THEN "match" ELSE "mismatch"
    /\ UNCHANGED <<pattern, value, pi, vi, starPi, matchVi>>

WildcardNext ==
    \/ \E p \in Texts(MaxPattern), v \in Texts(MaxValue) : BeginMatch(p, v)
    \/ PassStar \/ PassSame \/ Backtrack \/ FailMatch
    \/ PassTrailingStar \/ ReturnMatch

WildcardSpec == WildcardInit /\ [][WildcardNext]_wildcardVars

-----------------------------------------------------------------------------
\* What a pattern means: the value can be cut into pieces, one for each character of
\* the pattern, such that * stands for any piece and another character for itself.
Matches(p, v) ==
    \E cut \in [0 .. Len(p) -> 0 .. Len(v)] :
        /\ cut[0] = 0 /\ cut[Len(p)] = Len(v)
        /\ \A i \in 1 .. Len(p) :
              IF p[i] = Star THEN cut[i - 1] <= cut[i]
              ELSE cut[i] = cut[i - 1] + 1 /\ v[cut[i]] = p[i]

\* wildcardMatch answers what the pattern means, although it gives up every * but the
\* last one.
WildcardCorrect ==
    matcher \in {"match", "mismatch"} => (matcher = "match") = Matches(pattern, value)
=============================================================================
