SPECIFICATION Spec
CONSTANTS
 JobEnd = 4
 Work = 1
 Clean = 1
 RecipientEnd = 6
 RecipientWork = 2
 MaxTrouble = 1
 Replaceable = {"readmission", "sidecar", "primary-originals", "ciphertext", "save-handoff"}
INVARIANTS OriginalsCarried UnknownRecorded
PROPERTY WindowsKept
