SPECIFICATION Spec
CONSTANT Recipes <- MCRecipes
INVARIANT DuplicatesAreMade
CHECK_DEADLOCK FALSE
