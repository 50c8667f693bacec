CONSTANTS
    urlA = urlA
    urlB = urlB
    Urls = {urlA, urlB}
    Origin <- MCOrigin
    MaxBrowserCalls = 2
    MaxNavigations = 1
SPECIFICATION BrowserSpec
INVARIANTS
    SubmitOnlyAfterForm
CHECK_DEADLOCK FALSE
