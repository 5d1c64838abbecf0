----------------------------- MODULE Judgement -----------------------------
(***************************************************************************)
(* How a comment is judged: normalisation (normalize.ts), the lexicon's    *)
(* scan (lexicon.ts), the tropes with their context and refutation cues    *)
(* (tropes.ts), the exemptions (exemptions.ts), and the tool that combines *)
(* them (index.ts, classify).                                              *)
(*                                                                         *)
(* Text is a sequence of characters of a small alphabet, as a stranger     *)
(* types it: letters, two spellings of a letter, decoration, space and     *)
(* punctuation.  The regular expression of the lexicon is modelled by what *)
(* it matches: which prefix and which surface it prefers at a place, and   *)
(* where the search goes on.  Regex terms are patterns without operators.  *)
(***************************************************************************)
EXTENDS Integers, FiniteSets, Sequences, FiniteSetsExt

CONSTANTS
  Letter,     \* what \p{L}, \p{N} and _ match
  Mark,       \* decoration: harakat, tatweel
  Other,      \* punctuation
  Space,
  Fold,       \* letters with another canonical letter: FOLD, and upper case
  Joiner,     \* the clitic that comes first: and, so
  Particles,  \* the clitics after it, in the order of the regular expression
  Terms,      \* the lexicon as it was pulled
  Tropes,     \* the tropes as they were pulled
  Cues,       \* NEGATION_CUES
  Window,     \* NEGATION_WINDOW
  Group,      \* target groups
  Posts,      \* texts of the post a comment replies to; empty if not given
  None,
  MaxText     \* bound on the length of a comment

Char == Letter \union Mark \union Other \union {Space}

ASSUME AlphabetAssumption ==
  /\ Letter \intersect Mark = {} /\ (Letter \union Mark) \intersect Other = {}
  /\ Space \notin Letter \union Mark \union Other
  /\ DOMAIN Fold \subseteq Letter
  /\ \A c \in DOMAIN Fold : Fold[c] \in Letter \ DOMAIN Fold
ASSUME WindowAssumption == Window \in Nat /\ MaxText \in Nat

\* What the curators wrote: texts.  A refutation cue says something.
ASSUME LexiconAssumption ==
  /\ Joiner \in Seq(Char) /\ Particles \in Seq(Seq(Char))
  /\ Terms \in Seq([surfaces : SUBSET Seq(Char), is_regex : BOOLEAN, is_explicit : BOOLEAN,
                    group : Group \union {None}, never_flag_when : SUBSET STRING])
ASSUME TropesAssumption ==
  /\ Tropes \in Seq([forms : Seq(Seq(Char)), covers : SUBSET Group, topics : SUBSET Seq(Char),
                     requires_target_group : BOOLEAN, negation_cancels : BOOLEAN])
  /\ Cues \subseteq Seq(Char) \ {<<>>}

VARIABLES
  text,     \* the comment
  post,     \* parentPostText
  groups,   \* targetGroups
  verdict   \* what classify returned, or None

vars == <<text, post, groups, verdict>>

-----------------------------------------------------------------------------
(* Normalisation. *)

\* The characters of s at the places K, in their order.
Rank(K, i) == Cardinality({j \in K : j <= i})
Kept(s, K) == [n \in 1 .. Cardinality(K) |-> s[CHOOSE i \in K : Rank(K, i) = n]]

StripDiacritics(s) == Kept(s, {i \in DOMAIN s : s[i] \notin Mark})

FoldOrthography(s) == [i \in DOMAIN s |-> IF s[i] \in DOMAIN Fold THEN Fold[s[i]] ELSE s[i]]

\* Words are joined by one space: of white space, only what follows a word
\* directly stays, and only if another word comes.
Collapse(s) ==
  Kept(s, {i \in DOMAIN s : s[i] = Space =>
             /\ i > 1 /\ s[i - 1] # Space
             /\ \E j \in DOMAIN s : j > i /\ s[j] # Space})

Canonical(s) == FoldOrthography(StripDiacritics(s))

Normalize(s) == Collapse(Canonical(s))

\* s stands at place i of h.
ReadsAt(h, i, s) == i + Len(s) - 1 <= Len(h) /\ SubSeq(h, i, i + Len(s) - 1) = s

Includes(h, s) == \E i \in DOMAIN h : ReadsAt(h, i, s)

-----------------------------------------------------------------------------
(* The lexicon: LexiconMatcher. *)

LiteralSurfaces(n) ==
  IF Terms[n].is_regex THEN {} ELSE {Normalize(s) : s \in Terms[n].surfaces} \ {<<>>}

\* A regex term's pattern is the curator's own, and is not normalised; an empty
\* match is none.
Patterns(n) == IF Terms[n].is_regex THEN Terms[n].surfaces \ {<<>>} ELSE {}

Surfaces == UNION {LiteralSurfaces(n) : n \in DOMAIN Terms}

\* bySurface: the last of several terms with one surface.
BySurface(s) == Terms[Max({n \in DOMAIN Terms : s \in LiteralSurfaces(n)})]

\* CLITICS, in the order in which its alternatives are tried.
Clitics ==
  LET after == Particles \o << <<>> >>
  IN [i \in DOMAIN after |-> Joiner \o after[i]] \o after

Boundary(h, i) == i \notin DOMAIN h \/ h[i] \notin Letter

\* Faulty variant: what follows the term is not looked at.
BoundedBefore(h, first, last) == Boundary(h, first - 1)
Bounded(h, first, last) == Boundary(h, first - 1) /\ Boundary(h, last + 1)

\* The matches the pattern could have at place i.
MatchesAt(h, i) ==
  {m \in [clitic : DOMAIN Clitics, surface : Surfaces] :
     LET s == Clitics[m.clitic] \o m.surface
     IN ReadsAt(h, i, s) /\ Bounded(h, i, i + Len(s) - 1)}

\* The one it has: the first clitic that goes, then the longest surface.
MatchAt(h, i) ==
  CHOOSE m \in MatchesAt(h, i) : \A k \in MatchesAt(h, i) :
    \/ m.clitic < k.clitic
    \/ m.clitic = k.clitic /\ Len(m.surface) >= Len(k.surface)

\* Where a match could begin, and where the one that begins there ends.
Starts(h) == {i \in DOMAIN h : MatchesAt(h, i) # {}}
LastOf(h, i) == LET m == MatchAt(h, i) IN i + Len(Clitics[m.clitic]) + Len(m.surface) - 1

\* matchAll(): from left to right, none beginning in one before it.
Found(h) ==
  CHOOSE F \in SUBSET Starts(h) :
    \A i \in Starts(h) : i \in F <=> \A f \in F : f < i => LastOf(h, f) < i

Matches(h) ==
  {[first |-> i, last |-> LastOf(h, i), surface |-> MatchAt(h, i).surface] : i \in Found(h)}

InScope(term, context) == term.is_explicit \/ term.group = None \/ term.group \in context

Hit(term, matched, context) ==
  [term |-> term, matched |-> matched, in_scope |-> InScope(term, context)]

\* Faulty variant: the comment is scanned as it was typed.
ScanRaw(s, context) ==
  {Hit(BySurface(f.surface), f.surface, context) : f \in Matches(s)}
\* scan(): literal terms as words, patterns anywhere.
Scan(s, context) ==
  LET h == Normalize(s) IN
  {Hit(BySurface(f.surface), f.surface, context) : f \in Matches(h)}
    \union UNION {{Hit(Terms[n], p, context) : p \in {q \in Patterns(n) : Includes(h, q)}} :
                     n \in DOMAIN Terms}

-----------------------------------------------------------------------------
(* Tropes: TropeEngine. *)

Forms(t) == {n \in DOMAIN Tropes[t].forms :
               Normalize(Tropes[t].forms[n]) # <<>>}

FoundForms(t, h) == {n \in Forms(t) : Includes(h, Normalize(Tropes[t].forms[n]))}

\* firstMatch(): the first place of the first form that is there.
FirstMatch(t, h) ==
  LET needle == Normalize(Tropes[t].forms[Min(FoundForms(t, h))])
  IN Min({i \in DOMAIN h : ReadsAt(h, i, needle)})

Around(h, i) == SubSeq(h, Max({1, i - Window}), Min({Len(h), i + Window - 1}))

\* Faulty variant: only what comes after the match is read.
NegatedAfter(h, i) == \E cue \in Cues : Includes(SubSeq(h, i, Min({Len(h), i + Window - 1})), cue)
\* The cues are compared as they are written in the source.
Negated(h, i) == \E cue \in Cues : Includes(Around(h, i), cue)

\* A group the trope covers is in the context, or a topic of it in the post.
InContext(t, parent, context) ==
  \/ Tropes[t].covers \intersect context # {}
  \/ \E topic \in Tropes[t].topics :
       Normalize(topic) # <<>> /\ Includes(Normalize(parent), Normalize(topic))

Unactivated(t, parent, context) ==
  Tropes[t].requires_target_group /\ ~InContext(t, parent, context)

Refuted(t, h) == Tropes[t].negation_cancels /\ Negated(h, FirstMatch(t, h))

\* Faulty variant: a refuted candidate still fires.
EvaluateBoth(s, parent, context) ==
  LET h == Normalize(s)
      met == {t \in DOMAIN Tropes : FoundForms(t, h) # {}}
      off == {t \in met : Unactivated(t, parent, context)}
  IN [candidates |-> off \union {t \in met : Refuted(t, h)}, fired |-> met \ off]
\* evaluate(): each trope that is met fires or is a candidate.
Evaluate(s, parent, context) ==
  LET h == Normalize(s)
      met == {t \in DOMAIN Tropes : FoundForms(t, h) # {}}
      held == {t \in met : Unactivated(t, parent, context) \/ Refuted(t, h)}
  IN [candidates |-> held, fired |-> met \ held]

-----------------------------------------------------------------------------
(* Exemptions: ExemptionChecker. *)

Contradictions == {"counter_speech", "news_quotation", "academic"}

\* CATEGORY_SIGNALS; other categories give no signal.
SignalOf(category) == IF category = "news_reporting" THEN "news_quotation" ELSE category

\* known: the groups the checker was built with, and how they name themselves.
DetectSignals(known, s, context, category) ==
  ({SignalOf(category)} \intersect Contradictions)
    \union {x \in {"reclaimed"} :
              \E slug \in context \intersect DOMAIN known : \E name \in known[slug] :
                Normalize(name) # <<>> /\ Includes(Normalize(s), Normalize(name))}

\* check(): the signals that excuse every hit that counts.
Excuses(hits, signals) ==
  LET inScope == {x \in hits : x.in_scope} IN
  IF inScope = {} THEN signals \intersect Contradictions
  ELSE {g \in signals : \A x \in inScope : g \in x.term.never_flag_when}

-----------------------------------------------------------------------------
(* The classify tool. *)

\* It builds the checker without groups and passes no category.
NoGroups == [slug \in {} |-> {}]

Judged(s, parent, context) ==
  LET hits == Scan(s, context)
      tropes == Evaluate(s, parent, context)
      flagged == (\E x \in hits : x.in_scope /\ x.term.is_explicit) \/ tropes.fired # {}
      exempt == flagged /\ Excuses(hits, DetectSignals(NoGroups, s, context, "")) # {}
  IN [result |-> IF exempt THEN "ambiguous" ELSE IF flagged THEN "hate" ELSE "benign",
      hits |-> hits, fired |-> tropes.fired, candidates |-> tropes.candidates]

Init ==
  /\ text = <<>>
  /\ post \in Posts
  /\ groups \in SUBSET Group
  /\ verdict = None

\* A stranger's comment, of any characters.
Type(c) ==
  /\ Len(text) < MaxText
  /\ text' = Append(text, c)
  /\ verdict' = None
  /\ UNCHANGED <<post, groups>>

Classify ==
  /\ verdict' = Judged(text, post, groups)
  /\ UNCHANGED <<text, post, groups>>

Next == Classify \/ \E c \in Char : Type(c)

Spec == Init /\ [][Next]_vars

-----------------------------------------------------------------------------
(* Properties. *)

IsHit(x) ==
  /\ x.term \in {Terms[n] : n \in DOMAIN Terms}
  /\ x.matched \in Seq(Char) /\ x.matched # <<>>
  /\ x.in_scope \in BOOLEAN

\* Types; a trope never both fires and is held back for a reviewer.
TypeOK ==
  /\ text \in Seq(Char) /\ Len(text) <= MaxText
  /\ post \in Posts
  /\ groups \subseteq Group
  /\ verdict # None =>
       /\ verdict.result \in {"hate", "ambiguous", "benign"}
       /\ \A x \in verdict.hits : IsHit(x)
       /\ verdict.fired \union verdict.candidates \subseteq DOMAIN Tropes
       /\ verdict.fired \intersect verdict.candidates = {}

\* The words of h that are a surface, alone or behind clitics: a definition
\* without a search.
Words(h) ==
  {w \in [first : DOMAIN h, last : DOMAIN h, surface : Surfaces] :
     /\ w.first = 1 \/ h[w.first - 1] \notin Letter
     /\ w.last = Len(h) \/ h[w.last + 1] \notin Letter
     /\ \E n \in DOMAIN Clitics : SubSeq(h, w.first, w.last) = Clitics[n] \o w.surface}

\* A hit is a whole word, with nothing but clitics before the term ("a false hit
\* here puts a named person into a human-rights record"), and no such word is
\* missed: it is hit itself, under one of its readings, or begins in the hit of
\* a phrase that began before it.
HitsAreWords ==
  verdict # None =>
    LET words == Words(Normalize(text))
        matched == {x.matched : x \in {y \in verdict.hits : ~y.term.is_regex}}
        hit == {w \in words : w.surface \in matched}
    IN /\ matched = {w.surface : w \in hit}
       /\ \A w \in words : \E v \in hit : v.first <= w.first /\ w.first <= v.last

\* Spelling is no way around the lexicon, and no way into it: a comment gets the
\* verdict of its canonical form, whatever decoration, variants of letters or
\* white space it is typed with.
SpellingChangesNothing ==
  verdict # None => verdict = Judged(Normalize(text), post, groups)

\* Where the forms of a trope stand.
Places(t, h) ==
  {i \in DOMAIN h : \E n \in Forms(t) : ReadsAt(h, i, Normalize(Tropes[t].forms[n]))}

\* Within the window around place i the comment says cue, as anyone may type it.
SaidNear(cue, h, i) ==
  \E j \in DOMAIN h :
    /\ ReadsAt(h, j, Canonical(cue))
    /\ i - Window <= j /\ j + Len(cue) <= i + Window

\* No defender is flagged by the words of the libel they reject.
Spares(said) ==
  verdict # None =>
    \A t \in verdict.fired :
      Tropes[t].negation_cancels =>
        LET h == Normalize(text) IN
        \E i \in Places(t, h) : \A cue \in said : ~SaidNear(cue, h, i)

\* A trope does not fire if near each of its forms in the comment stands a
\* refutation that is written in canonical letters.
RefutationSpares == Spares({cue \in Cues : Canonical(cue) = cue})

\* "Refutation cues, in Arabic, Kurdish and English": the same for every cue.
RefutationSparesInEveryLanguage == Spares(Cues)
=============================================================================
