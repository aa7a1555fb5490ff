SPECIFICATION Spec
CONSTANTS
  Subtopics <- MCSubtopics
  Attempts = 3
  MaxInbox = 0
  MaxCount = 1
PROPERTIES FailedSubscribeRetried
