SPECIFICATION Spec
CONSTANTS
    Index <- MCIndex
    Words <- MCWords
    MaxLoads = 2
    Tree <- MCTree
    Levels <- MCLevels
    DocSections = {"intro", "api"}
    Queries = {"", "web"}
    Texts <- MCTexts
    Statuses = {"200"}
    MaxRequests = 2
    MaxToasts = 1
INVARIANTS
    TypeOK
    PictureOrPlaceholder
    DocsPageAgrees
    AnswersAreComplete
    NoSearchSwallowed
    SectionIsRemembered
    IconsTellTheTruth
PROPERTIES
    ArrowKeysFollowOrder
