SPECIFICATION MCSpec

CONSTANTS
  root = root
  parentWidget = parentWidget
  child = child
  sibling = sibling
  None = None
  Widget = {root, parentWidget, child, sibling}
  Root = root
  ParentOf <- MCParentOf
  HoldFocus = {parentWidget, child}
  Activate = {root, parentWidget, sibling}
  MaxCalls = 2
  Careful = TRUE

INVARIANT TypeOK
INVARIANT DeadAreForgotten
INVARIANT StacksAgree
INVARIANT GettersAgree
INVARIANT NoNullContext

CHECK_DEADLOCK FALSE
