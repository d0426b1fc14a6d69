CONSTANTS
  K = 1
  Depth = 1
  Vertices = {0, 2}
  Senders = {0, 1}
  PerFlow = 2
  Vertex <- MCVertex
  Dest <- MCDest
  Quota <- MCQuota
  Item <- MCItem
SPECIFICATION FairSpec
INVARIANT Delivered
PROPERTIES ImplementsCrossbar
