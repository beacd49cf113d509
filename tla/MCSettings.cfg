CONSTANTS
    page = page
    api = api
    Absent = Absent
    Nobody = Nobody
    Keys <- MCKeys
    Savers = {page, api}
    Pages = {page}
    Texts <- MCTexts
    Coerced <- MCCoerced
    Written <- MCWritten
    Legal <- MCLegal
    Default <- MCDefault
    Posts <- MCPosts
SPECIFICATION FairSpec
INVARIANT TypeOK
PROPERTY ImplementsAtomic
PROPERTY StaysWritable
