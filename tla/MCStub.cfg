CONSTANTS
  Word <- MCWord
  Zero <- MCZero
  One <- MCOne
  Errors <- MCErrors
  Arguments <- MCArguments
  Results <- MCResults
  Nodes <- MCNodes
  Leftovers <- MCLeftovers
  Stacks <- MCStacks

SPECIFICATION Spec
INVARIANT TypeOK
INVARIANT ArgsArrive
INVARIANT ResultKept
INVARIANT InfoOwn
INVARIANT ReportTrue
PROPERTY CutSkips
INVARIANT HooksInOrder
