SPECIFICATION FairSpec
CONSTANTS
    MaxCalls = 1
    MaxPosts = 0
PROPERTIES HatIsChilds
