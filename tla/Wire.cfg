SPECIFICATION Spec
INVARIANTS RequestsRead RepliesRead SplitWhole JoinedWhole ReplyWhole
CHECK_DEADLOCK FALSE
