\* Three overlapping calls of three tools, one of each service; the files are replaced once.
CONSTANTS
    Calls = {c1, c2, c3}
    Ops = {"list_token_page", "list_permissions", "close_interactive_session"}
    AuthModes = {"token", "xades"}
    MaxGeneration = 1
    None = None
SPECIFICATION Spec
SYMMETRY Symmetry
INVARIANTS TypeOK MatchedCredentials StableLogin RefusedWithoutEffect
PROPERTIES ErrorsTranslated
