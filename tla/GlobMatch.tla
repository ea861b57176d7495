------------------------------ MODULE GlobMatch ------------------------------
(***************************************************************************)
(* globMatch (bonk/match.go), which decides the URLs that a route, a        *)
(* WaitForURL or a blocked pattern means. It walks through the pattern and  *)
(* the string once and remembers one place to go back to: that of the last  *)
(* star. Indexes count from 0, as in the code.                              *)
(***************************************************************************)
EXTENDS Integers, Sequences

CONSTANTS
    Strings, Globs      \* the strings and the patterns of the calls: sequences of characters

ASSUME GlobAssumption == \A s \in Strings \cup Globs : Len(s) \in Nat

VARIABLES
    pattern, str,         \* the arguments
    px, sx,             \* where the walk is
    nextPx, nextSx,     \* where to go on when it is stuck; nextSx = -1: nowhere
    answered            \* "idle", "walking", "yes", "no"

globVars == <<pattern, str, px, sx, nextPx, nextSx, answered>>

GlobTypeOK ==
    /\ pattern \in Globs \cup {<<>>} /\ str \in Strings \cup {<<>>}
    /\ px \in 0..Len(pattern) /\ sx \in 0..Len(str)
    /\ nextPx \in 0..Len(pattern) /\ nextSx \in -1..(Len(str) + 1)
    /\ answered \in {"idle", "walking", "yes", "no"}

GlobInit ==
    /\ pattern = <<>> /\ str = <<>>
    /\ px = 0 /\ sx = 0 /\ nextPx = 0 /\ nextSx = -1
    /\ answered = "idle"

GlobCall(p, t) ==
    /\ answered = "idle" /\ answered' = "walking"
    /\ pattern' = p /\ str' = t
    /\ UNCHANGED <<px, sx, nextPx, nextSx>>

Inside == answered = "walking" /\ sx < Len(str)
AtChar(c) == px < Len(pattern) /\ pattern[px + 1] = c
AtDouble == AtChar("*") /\ px + 1 < Len(pattern) /\ pattern[px + 2] = "*"

\* Two stars take the slash behind them along.
DoubleStar ==
    /\ Inside /\ AtDouble
    /\ px' = IF px + 2 < Len(pattern) /\ pattern[px + 3] = "/" THEN px + 3 ELSE px + 2
    /\ nextPx' = px' /\ nextSx' = sx
    /\ UNCHANGED <<pattern, str, sx, answered>>

Star ==
    /\ Inside /\ AtChar("*") /\ ~AtDouble
    /\ nextPx' = px /\ nextSx' = sx + 1
    /\ px' = px + 1
    /\ UNCHANGED <<pattern, str, sx, answered>>

\* ? or the same character; never a star of the pattern.
SameChar == AtChar("?") \/ (px < Len(pattern) /\ ~AtChar("*") /\ pattern[px + 1] = str[sx + 1])

Advance ==
    /\ Inside /\ SameChar
    /\ px' = px + 1 /\ sx' = sx + 1
    /\ UNCHANGED <<pattern, str, nextPx, nextSx, answered>>

\* Variant with a defect: the place to go back to is used once.
BacktrackOnce ==
    /\ Inside /\ ~AtChar("*") /\ ~SameChar
    /\ IF nextSx >= 0 /\ nextSx <= Len(str)
       THEN px' = nextPx /\ sx' = nextSx /\ nextSx' = -1 /\ UNCHANGED answered
       ELSE answered' = "no" /\ UNCHANGED <<px, sx, nextSx>>
    /\ UNCHANGED <<pattern, str, nextPx>>

Backtrack ==
    /\ Inside /\ ~AtChar("*") /\ ~SameChar
    /\ IF nextSx >= 0 /\ nextSx <= Len(str)
       THEN px' = nextPx /\ sx' = nextSx /\ nextSx' = nextSx + 1 /\ UNCHANGED answered
       ELSE answered' = "no" /\ UNCHANGED <<px, sx, nextSx>>
    /\ UNCHANGED <<pattern, str, nextPx>>

\* The string is used up: only stars may be left of the pattern.
AtEnd ==
    /\ answered = "walking" /\ sx >= Len(str)
    /\ answered' = IF \A i \in (px + 1)..Len(pattern) : pattern[i] = "*" THEN "yes" ELSE "no"
    /\ UNCHANGED <<pattern, str, px, sx, nextPx, nextSx>>

GlobNext ==
    \/ \E p \in Globs, t \in Strings : GlobCall(p, t)
    \/ DoubleStar \/ Star \/ Advance \/ Backtrack \/ AtEnd
    \/ answered \in {"yes", "no"} /\ UNCHANGED globVars

GlobSpec == GlobInit /\ [][GlobNext]_globVars

-----------------------------------------------------------------------------
(* What bonk/www/docs/network/routing.md says a pattern means                *)

Ordered(m) == \A i, j \in DOMAIN m : i <= j => m[i] <= m[j]

\* A way to read t by p says where each character's part of t begins: one character
\* for all but stars, none of them a slash for a star that stands alone.
Means(p, t) ==
    \E m \in [1..(Len(p) + 1) -> 1..(Len(t) + 1)] :
        /\ Ordered(m) /\ m[1] = 1 /\ m[Len(p) + 1] = Len(t) + 1
        /\ \A i \in 1..Len(p) :
            IF p[i] = "*"
            THEN \/ \E j \in {i - 1, i + 1} : j \in 1..Len(p) /\ p[j] = "*"
                 \/ \A n \in m[i]..(m[i + 1] - 1) : t[n] # "/"
            ELSE m[i + 1] = m[i] + 1 /\ p[i] \in {"?", t[m[i]]}

-----------------------------------------------------------------------------
(* Properties                                                                *)

\* No string that a pattern means is missed, though the walk goes back to the
\* last star only.
GlobFindsAll == answered = "no" => ~Means(pattern, str)

\* With single stars a pattern matches nothing but what it means: "`*` Match any
\* characters except `/`".
StarStopsAtSlash ==
    (answered = "yes" /\ \A i \in 1..(Len(pattern) - 1) : ~(pattern[i] = "*" /\ pattern[i + 1] = "*"))
        => Means(pattern, str)

=============================================================================
