\* The comment that a reflection never writes in a session that is in use.
SPECIFICATION CvSpec
CHECK_DEADLOCK FALSE
CONSTANTS
    CvClis = {"codex"}
    CvMessages = 2
    CvMaxEvents = 2
    CvLapses = {}
INVARIANT
    CvReflectsAlone
