SPECIFICATION FinSplitSpec
CONSTANT Zero = Zero
INVARIANT EOFOnlyAtTheEnd
CHECK_DEADLOCK FALSE
