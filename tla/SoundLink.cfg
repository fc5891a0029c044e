SPECIFICATION FairSpec
CONSTANTS
  Bytes = {z, a}
  Zero = z
  NoByte = none
  Lags <- SmallLags
  MaxLead = 2
  MaxReplies = 2
INVARIANTS CommandWillBeSeen NmiMeansCommand RepliesInOrder
PROPERTIES ChannelSpec LinkGoesOn
