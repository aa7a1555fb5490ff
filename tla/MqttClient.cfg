SPECIFICATION Spec
CONSTANTS
  Subtopics <- MCSubtopics
  Attempts = 3
  MaxInbox = 1
  MaxCount = 1
INVARIANTS TypeOK
PROPERTIES CommandsServed TelemetryResumes LoopGoesOn
