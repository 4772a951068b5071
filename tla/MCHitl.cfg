SPECIFICATION FairSpec
CONSTANTS
  Question = {q1, q2}
  Socket = {s1, s2}
  NoSocket = none
CHECK_DEADLOCK FALSE
INVARIANTS PendingIsUnfinished
PROPERTIES EveryoneIsAsked VoiceServesTheOldest EveryQuestionEnds ImplementsInquiry
