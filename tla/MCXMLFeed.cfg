CONSTANTS
    Documents <- MCDocuments
    Numbers <- MCNumbers
    MAX_MESSAGE_FOLDERS = 2
    Piece = 3
SPECIFICATION Spec
PROPERTIES SameAsReadAtOnce Followed
CHECK_DEADLOCK FALSE
