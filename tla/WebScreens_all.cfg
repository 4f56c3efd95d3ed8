SPECIFICATION Spec
CONSTANTS
  k1 = k1  k2 = k2
  Subjects <- TwoSubjects
  MaxAsked = 2
  MaxVersion = 1
INVARIANTS CalmIsTold LoadingMeansAsked
PROPERTIES NeverTurnsBack LatestShown
