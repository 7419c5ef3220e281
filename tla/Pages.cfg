SPECIFICATION PagesSpec
CONSTANTS
    None = None
    Kinds = {"users", "stories", "reports", "payouts"}
    Filters = {"ACTIVE", "DRAFT", "OPEN", "PENDING", "PAID"}
    MaxCalls = 2
    MaxItems = 4
    PageSize = 2
    MaxChanges = 2
    Posts = {1, 2}
    Splits <- SomeSplits
    Pool = 100003
    MaxVersions = 3
    Chapters = {1, 2, 3, 4}
    Place <- TwoAtOnce
    MaxEdits = 2
    Categories = {1, 2, 3}
    Names = {"x", "X", "y"}
    Fold <- SmallLetters
    MaxRequests = 3
    Stories = {"s1"}
    Articles = {"a1", "a2"}
    Leaves = {"c1"}
    StoryOf <- ChapterOfStory
    Creators = {"u1", "u2"}
    CreatorOf <- TwoCreators
    Genres = {"g1"}
    Tags = {"t1", "t2"}
    TagsOf <- SomeTags
    PerPage = 1
    HomeSize = 1
    Clicks = 5
INVARIANTS RestsOnStored SiteAgrees FewMissed VersionsInOrder SplitsWhole PagesAgree WalkComplete NameOnce LinkKeepsMeaning SelectionAsChosen
