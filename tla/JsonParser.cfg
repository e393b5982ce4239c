\* Every text of at most MaxTokens tokens, every callback.
SPECIFICATION Spec
CONSTANTS
  Tokens <- MCTokens
  Calls <- MCCalls
  MaxTokens <- MCMaxTokens
INVARIANTS
  AcceptsGrammar
  ValueDenotesText
  CallbackFilters
CHECK_DEADLOCK FALSE
