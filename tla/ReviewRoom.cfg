\* Three rounds: two to become ready, and one more after a revision.
CONSTANTS
  a = a
  b = b
  s1 = s1
  o1 = o1
  Nobody = Nobody
  Names = {a, b}
  MaxRound = 3
  Comments <- MCComments
  Seats = {s1}
  MaxPeople = 2
  Orders = {o1}
SPECIFICATION Spec
CHECK_DEADLOCK FALSE
INVARIANTS AskedIsReady DecidesWhatWasSeen
PROPERTIES Course
