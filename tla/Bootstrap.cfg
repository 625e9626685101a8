SPECIFICATION FairSpec
CONSTANTS
 JobEnd = 3
 Work = 2
 Clean = 1
 MaxTrouble = 2
 Replaceable = {"responses", "entry", "recipient-result", "staging", "save-handoff", "save-action"}
INVARIANTS LeaksRecorded NoStalePublication
PROPERTY ProcessEnds
