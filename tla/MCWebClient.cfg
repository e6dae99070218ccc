\* Two texts and none; three requests.
SPECIFICATION FormSpec
CONSTANTS
  Texts = {"a", "b", ""}
  Empty = ""
  MaxHistory = 4
INVARIANT SharesWhatIsShown
CHECK_DEADLOCK FALSE
