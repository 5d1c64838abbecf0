SPECIFICATION Spec
CONSTANTS
  Letter = {"a", "A", "l", "w", "q"}
  Mark = {"~"}
  Other = {"."}
  Space = " "
  Fold <- Spellings
  Joiner <- And
  Particles <- ArticleAndPreposition
  Terms <- Lexicon
  Tropes <- Patterned
  Cues <- Refutations
  Window = 3
  Group = {"g"}
  Posts <- ParentPosts
  None = none
  MaxText = 5
INVARIANTS
  TypeOK
  HitsAreWords
  SpellingChangesNothing
  RefutationSpares
