\* Three notifications, pages of one, two requests at a time.
CONSTANTS
  MaxId = 3
  PageSize = 1
  Slots = {c1, c2}
SPECIFICATION Spec
INVARIANTS TypeOK ListMirrorsRows BadgeCountsUnread
SYMMETRY SlotSymmetry
