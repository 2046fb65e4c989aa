SPECIFICATION Spec
CONSTANTS
  Slots = {1, 2}
  Bursts <- MCBursts
INVARIANT ServedIsPermitted
INVARIANT BooksAgree
INVARIANT NothingLeaks
INVARIANT ReceiptTellsFate
INVARIANT StickyNeverDrops
CHECK_DEADLOCK FALSE
