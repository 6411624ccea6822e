SPECIFICATION Spec
CONSTANTS
  Dimension = 4
  Plans <- MCPlans
  Replies <- MCReplies
INVARIANTS
  TypeOK RepeatsAreOneWrite GuardsHold AnswersAreTrue
CHECK_DEADLOCK FALSE
