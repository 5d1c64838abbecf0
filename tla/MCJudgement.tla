---------------------------- MODULE MCJudgement ----------------------------
(* Judgement on an alphabet of five letters, one of them in two spellings:  *)
(* w is the joiner, al and l are the particles.                             *)
EXTENDS Judgement

Spellings == [c \in {"A"} |-> "a"]

And == <<"w">>

ArticleAndPreposition == << <<"a", "l">>, <<"l">> >>

Term(surfaces, is_regex, is_explicit, group, excused) ==
  [surfaces |-> surfaces, is_regex |-> is_regex, is_explicit |-> is_explicit,
   group |-> group, never_flag_when |-> excused]

\* A slur with a variant; a coded term of one group, one of its forms beginning
\* like a particle; a phrase that begins with the slur; a curator's pattern.
Lexicon ==
  << Term({<<"q", "A">>, <<"q", "w">>}, FALSE, TRUE, None, {"counter_speech"}),
     Term({<<"q">>, <<"l", "q">>}, FALSE, FALSE, "g", {"academic", "reclaimed"}),
     Term({<<"q", "a", " ", "q">>}, FALSE, TRUE, "g", {}),
     Term({<<"a", "q">>}, TRUE, FALSE, None, {}) >>

\* A trope that needs a context, and one a curator fires without.
Patterned ==
  << [forms |-> << <<"a", "A">>, <<"w">> >>, covers |-> {"g"}, topics |-> {<<"A", "q">>},
      requires_target_group |-> TRUE, negation_cancels |-> TRUE],
     [forms |-> << <<"w", "w">> >>, covers |-> {}, topics |-> {},
      requires_target_group |-> FALSE, negation_cancels |-> FALSE] >>

\* An Arabic cue, which ends with a space, and a Kurdish one, in the letter that
\* normalisation folds.
Refutations == {<<"l", "a", " ">>, <<"q", "l", "A">>}

ParentPosts == {<<>>, <<"q", "A", "~", "q">>}
=============================================================================
