SPECIFICATION FairSpec
CONSTANT Recipes <- MCRecipes
INVARIANTS
  TypeOK
  DocumentedRecipesRun
  AsTheRecipeSays
  DuplicatesMatch
  DestroyedOnce
PROPERTIES
  Returns
CHECK_DEADLOCK FALSE
